--------------------------- MODULE CommandProofs ---------------------------
(***************************************************************************)
(* What main() and fsverity enable, sign and digest promise, for every     *)
(* command line and every outcome of the calls they make.  The three       *)
(* commands share the parsing of the Merkle tree options: the parameters   *)
(* that reach the kernel or the library are the ones asked for.  Each has  *)
(* an inductive invariant, EnableInv, SignInv and PrintInv, and main() has *)
(* MainInv.  What the program writes out is the subject of OutputProofs.   *)
(***************************************************************************)
EXTENDS FsverityMain, CmdEnable, CmdSign, CmdDigest, TLAPS

----------------------------------------------------------------------------
\* The program's entry.  What was asked for is known once the scan is over,
\* from what has been passed over while it lasts.

Answers == {"--help", "--version"}

Asked(word) == \E k \in DOMAIN argv : Asks(k, word)
Known == argv # <<>> /\ argv[1] \in Commands

Undecided == shown = "none" /\ ran = "none" /\ status = 0

MainInv ==
  /\ argv \in Argvs
  /\ pc \in {"main", "scan", "run", "algs", "exit"}
  /\ pc \in {"main", "scan", "run"} => Undecided
  /\ pc = "main" => i = 1
  /\ pc = "scan" =>
       /\ argv # <<>> /\ i \in 1 .. Len(argv) + 1
       /\ \A j \in 1 .. i - 1 : argv[j] \notin {"--", "--help", "--version"}
  /\ pc = "run" => argv # <<>> /\ ~Asked("--help") /\ ~Asked("--version")
  /\ pc = "algs" =>
       /\ shown = "all" /\ ran = "none" /\ ~Known /\ ~Asked("--version")
       /\ status = IF Asked("--help") THEN 0 ELSE 2
  /\ DispatchesCommand

LEMMA ArgvFacts ==
  ASSUME argv \in Argvs
  PROVE  /\ Len(argv) \in Nat /\ DOMAIN argv = 1 .. Len(argv)
         /\ argv = <<>> <=> Len(argv) = 0
<1>1. argv \in Seq(STRING)
  BY MainAssumption
<1> QED
  BY <1>1

\* --help and --version are not both answered.
LEMMA OneAnswer ==
  ASSUME argv \in Argvs, Asked("--help"), Asked("--version")
  PROVE  FALSE
<1>1. PICK h \in DOMAIN argv :
        argv[h] = "--help" /\ \A j \in 1 .. h - 1 : argv[j] \notin {"--", "--help", "--version"}
  BY Zenon DEF Asked, Asks
<1>2. PICK v \in DOMAIN argv :
        argv[v] = "--version" /\ \A j \in 1 .. v - 1 : argv[j] \notin {"--", "--help", "--version"}
  BY Zenon DEF Asked, Asks
<1>3. h \in Nat \ {0} /\ v \in Nat \ {0}
  BY ArgvFacts
<1>4. h = v \/ h \in 1 .. v - 1 \/ v \in 1 .. h - 1
  BY <1>3
<1> QED
  BY <1>1, <1>2, <1>4

\* What comes behind a word that ends the scan is not looked at.
LEMMA NotAsked ==
  ASSUME argv \in Argvs, NEW k \in Nat \ {0}, k <= Len(argv) + 1,
         \A j \in 1 .. k - 1 : argv[j] \notin {"--", "--help", "--version"},
         k <= Len(argv) => argv[k] \in {"--", "--help", "--version"},
         NEW w \in Answers, k <= Len(argv) => argv[k] # w
  PROVE  ~Asked(w)
<1> SUFFICES ASSUME NEW j \in DOMAIN argv, argv[j] = w,
                    \A m \in 1 .. j - 1 : argv[m] \notin {"--", "--help", "--version"}
             PROVE  FALSE
  BY Zenon DEF Asked, Asks
<1>1. Len(argv) \in Nat /\ j \in 1 .. Len(argv)
  BY ArgvFacts
<1>2. j \in 1 .. k - 1 \/ (j = k /\ k <= Len(argv)) \/ (k \in 1 .. j - 1 /\ k <= Len(argv))
  BY <1>1
<1> QED
  BY <1>2 DEF Answers

\* The loop that stops at the first number without a name lists every algorithm.
LEMMA AllListed ==
  {n \in DOMAIN HashAlgTable : \A m \in FirstAlg .. n : GetHashName(m) # "NULL"}
    = {n \in DOMAIN HashAlgTable : FindHashAlgByName(HashAlgTable[n].name) = n}
<1>1. ASSUME NEW n \in DOMAIN HashAlgTable PROVE FindHashAlgByName(HashAlgTable[n].name) = n
  BY TableAssumption DEF FindHashAlgByName
<1>2. ASSUME NEW n \in DOMAIN HashAlgTable
      PROVE  \A m \in FirstAlg .. n : GetHashName(m) # "NULL"
  BY MainAssumption DEF FirstAlg
<1> QED
  BY Zenon, <1>1, <1>2

LEMMA MainInitial == MainInit => MainInv
  BY DEF MainInit, MainInv, Undecided, DispatchesCommand

\* Nothing is said of how the program ends before it does.
LEMMA NotYet ==
  ASSUME pc' # "exit"
  PROVE  DispatchesCommand'
  BY DEF DispatchesCommand

\* The program's end, once it is known what was asked for.
LEMMA Ends ==
  ASSUME MainInv, argv' = argv, pc' = "exit",
         ran' = IF Known /\ ~Asked("--help") /\ ~Asked("--version") THEN argv[1] ELSE "none",
         Asked("--version") => shown' = "version",
         ~Asked("--version") /\ ~Known => shown' = "all",
         ~Asked("--version") /\ Known /\ Asked("--help") => shown' = argv[1],
         ~Asked("--version") /\ Known /\ ~Asked("--help") => shown' = "none",
         ran' = "none" => status' = IF Asked("--help") \/ Asked("--version") THEN 0 ELSE 2,
         shown' = "all" =>
           algs' = {n \in DOMAIN HashAlgTable : FindHashAlgByName(HashAlgTable[n].name) = n}
  PROVE  MainInv'
<1>1. ~(Asked("--help") /\ Asked("--version"))
  BY OneAnswer DEF MainInv
<1>2. (\E k \in DOMAIN argv : Asks(k, "--help")') <=> Asked("--help")
  BY Zenon DEF Asked, Asks
<1>3. (\E k \in DOMAIN argv : Asks(k, "--version")') <=> Asked("--version")
  BY Zenon DEF Asked, Asks
<1>4. DispatchesCommand'
  BY <1>1, <1>2, <1>3 DEF DispatchesCommand, Known
<1> QED
  BY <1>4 DEF MainInv

\* The program goes on.
LEMMA GoesOn ==
  ASSUME argv' = argv
  PROVE  /\ Asked("--help")' <=> Asked("--help")
         /\ Asked("--version")' <=> Asked("--version")
         /\ Known' <=> Known
  BY DEF Asked, Asks, Known

LEMMA MainStarts == MainInv /\ Main => MainInv'
<1> SUFFICES ASSUME MainInv, Main PROVE MainInv'
  OBVIOUS
<1>1. /\ pc = "main" /\ UNCHANGED <<argv, i, algs, ran>> /\ argv \in Argvs /\ Undecided /\ i = 1
  BY DEF Main, MainInv
<1>2. Len(argv) \in Nat /\ DOMAIN argv = 1 .. Len(argv) /\ (argv = <<>> <=> Len(argv) = 0)
  BY <1>1, ArgvFacts
<1>3. CASE argv = <<>>
  <2>1. pc' = "algs" /\ shown' = "all" /\ status' = 2
    BY <1>1, <1>3 DEF Main, PrintUsage
  <2>2. ~Known /\ ~Asked("--help") /\ ~Asked("--version")
    BY <1>2, <1>3 DEF Known, Asked
  <2> QED
    BY <1>1, <2>1, <2>2, GoesOn, NotYet DEF MainInv, Undecided
<1>4. CASE argv # <<>>
  <2>1. pc' = "scan" /\ UNCHANGED <<shown, status>>
    BY <1>4 DEF Main
  <2> QED
    BY <1>1, <1>2, <1>4, <2>1, NotYet DEF MainInv, Undecided
<1> QED
  BY <1>3, <1>4

LEMMA Scans == MainInv /\ ScanArgument => MainInv'
<1> SUFFICES ASSUME MainInv, ScanArgument PROVE MainInv'
  OBVIOUS
<1> DEFINE word == argv[i]
<1>1. /\ pc = "scan" /\ i <= Len(argv) /\ i' = i + 1 /\ UNCHANGED <<argv, algs, ran>>
      /\ argv \in Argvs /\ Undecided /\ argv # <<>> /\ i \in 1 .. Len(argv) + 1
      /\ \A j \in 1 .. i - 1 : argv[j] \notin {"--", "--help", "--version"}
  BY DEF ScanArgument, MainInv
<1>2. Len(argv) \in Nat /\ DOMAIN argv = 1 .. Len(argv) /\ i \in Nat \ {0} /\ i \in DOMAIN argv
  BY <1>1, ArgvFacts
<1>3. ASSUME word \in Answers PROVE Asked(word)
  BY <1>1, <1>2 DEF Asked, Asks
<1>4. ASSUME word \in {"--", "--help", "--version"}, NEW w \in Answers, w # word PROVE ~Asked(w)
  BY <1>1, <1>2, <1>4, NotAsked
<1>5. CASE word = "--help"
  <2>1. Asked("--help") /\ ~Asked("--version")
    BY <1>3, <1>4, <1>5 DEF Answers
  <2>2. PrintUsage(FindCommand(argv[1]), 0)
    BY <1>5 DEF ScanArgument, EndsOptions, PrintUsage
  <2>3. CASE argv[1] \in Commands
    <3>1. pc' = "exit" /\ shown' = argv[1] /\ status' = 0 /\ argv[1] # "all"
      BY <2>2, <2>3, MainAssumption DEF PrintUsage, FindCommand
    <3> QED
      BY <1>1, <2>1, <2>3, <3>1, Ends DEF Known, Undecided
  <2>4. CASE argv[1] \notin Commands
    <3>1. pc' = "algs" /\ shown' = "all" /\ status' = 0
      BY <2>2, <2>4 DEF PrintUsage, FindCommand
    <3> QED
      BY <1>1, <2>1, <2>4, <3>1, GoesOn, NotYet DEF MainInv, Known, Undecided
  <2> QED
    BY <2>3, <2>4
<1>6. CASE word = "--version"
  <2>1. ~Asked("--help") /\ Asked("--version")
    BY <1>3, <1>4, <1>6 DEF Answers
  <2>2. shown' = "version" /\ status' = 0 /\ pc' = "exit"
    BY <1>6 DEF ScanArgument, EndsOptions
  <2> QED
    BY <1>1, <2>1, <2>2, Ends DEF Undecided
<1>7. CASE word = "--"
  <2>1. ~Asked("--help") /\ ~Asked("--version")
    BY <1>4, <1>7 DEF Answers
  <2>2. pc' = "run" /\ UNCHANGED <<shown, status>>
    BY <1>7 DEF ScanArgument, EndsOptions
  <2> QED
    BY <1>1, <2>1, <2>2, GoesOn, NotYet DEF MainInv, Undecided
<1>8. CASE word \notin {"--", "--help", "--version"}
  <2>1. UNCHANGED <<pc, shown, status>>
    BY <1>8 DEF ScanArgument, EndsOptions
  <2>2. i' \in 1 .. Len(argv) + 1 /\ \A j \in 1 .. i' - 1 : j \in 1 .. i - 1 \/ j = i
    BY <1>1, <1>2
  <2>3. \A j \in 1 .. i' - 1 : argv[j] \notin {"--", "--help", "--version"}
    BY Zenon, <1>1, <1>8, <2>2
  <2> QED
    BY <1>1, <2>1, <2>2, <2>3, NotYet DEF MainInv, Undecided
<1> QED
  BY <1>5, <1>6, <1>7, <1>8

LEMMA ScanEnds == MainInv /\ ScanDone => MainInv'
<1> SUFFICES ASSUME MainInv, ScanDone PROVE MainInv'
  OBVIOUS
<1>1. /\ pc = "scan" /\ i > Len(argv) /\ pc' = "run"
      /\ UNCHANGED <<argv, i, shown, algs, ran, status>>
      /\ argv \in Argvs /\ Undecided /\ argv # <<>> /\ i \in 1 .. Len(argv) + 1
      /\ \A j \in 1 .. i - 1 : argv[j] \notin {"--", "--help", "--version"}
  BY DEF ScanDone, MainInv
<1>2. Len(argv) \in Nat /\ i \in Nat \ {0} /\ i <= Len(argv) + 1 /\ ~(i <= Len(argv))
  BY <1>1, ArgvFacts
<1>3. ~Asked("--help") /\ ~Asked("--version")
  BY <1>1, <1>2, NotAsked DEF Answers
<1> QED
  BY <1>1, <1>3, GoesOn, NotYet DEF MainInv, Undecided

LEMMA Runs == MainInv /\ RunCommand => MainInv'
<1> SUFFICES ASSUME MainInv, RunCommand PROVE MainInv'
  OBVIOUS
<1>1. /\ pc = "run" /\ UNCHANGED <<argv, i, algs>> /\ argv \in Argvs /\ argv # <<>>
      /\ Undecided /\ ~Asked("--help") /\ ~Asked("--version")
  BY DEF RunCommand, MainInv
<1>2. CASE argv[1] \in Commands
  <2>1. ran' = argv[1] /\ pc' = "exit" /\ UNCHANGED <<shown, status>> /\ argv[1] # "none"
    BY <1>2, MainAssumption DEF RunCommand, FindCommand
  <2> QED
    BY <1>1, <1>2, <2>1, Ends DEF Known, Undecided
<1>3. CASE argv[1] \notin Commands
  <2>1. PrintUsage("none", 2) /\ UNCHANGED ran
    BY <1>3 DEF RunCommand, FindCommand
  <2>2. pc' = "algs" /\ shown' = "all" /\ status' = 2
    BY <2>1 DEF PrintUsage
  <2> QED
    BY <1>1, <1>3, <2>1, <2>2, GoesOn, NotYet DEF MainInv, Known, Undecided
<1> QED
  BY <1>2, <1>3

LEMMA ListsAlgs == MainInv /\ ShowAllHashAlgs => MainInv'
<1> SUFFICES ASSUME MainInv, ShowAllHashAlgs PROVE MainInv'
  OBVIOUS
<1>1. /\ pc = "algs" /\ pc' = "exit" /\ UNCHANGED <<argv, i, shown, ran, status>>
      /\ algs' = {n \in DOMAIN HashAlgTable : FindHashAlgByName(HashAlgTable[n].name) = n}
  BY AllListed DEF ShowAllHashAlgs
<1>2. /\ shown = "all" /\ ran = "none" /\ ~Known /\ ~Asked("--version")
      /\ status = IF Asked("--help") THEN 0 ELSE 2
  BY <1>1 DEF MainInv
<1> QED
  BY <1>1, <1>2, Ends

LEMMA MainNext == MainInv /\ [MainStep \/ MainExited]_mainvars => MainInv'
<1> SUFFICES ASSUME MainInv, UNCHANGED mainvars PROVE MainInv'
  BY MainStarts, Scans, ScanEnds, Runs, ListsAlgs DEF MainStep, MainExited
<1>1. UNCHANGED <<pc, argv, i, shown, algs, ran, status>>
  BY DEF mainvars
<1> QED
  BY <1>1 DEF MainInv, Undecided, Asked, Asks, Known, DispatchesCommand

(***************************************************************************)
(* For every command line: main() runs the command named first unless help *)
(* or the version is asked for before a "--", prints what was asked for or *)
(* else the usage with status 2, and lists every hash algorithm.           *)
(***************************************************************************)
THEOREM MainDispatches == MainSpec => []DispatchesCommand
<1>1. MainInv => DispatchesCommand
  BY DEF MainInv
<1> QED
  BY <1>1, MainInitial, MainNext, PTL DEF MainSpec

----------------------------------------------------------------------------
\* Sequences.

LEMMA SeqFacts ==
  ASSUME NEW S, NEW s \in Seq(S)
  PROVE  /\ Len(s) \in Nat /\ DOMAIN s = 1 .. Len(s)
         /\ \A k \in 1 .. Len(s) : s[k] \in S
         /\ (s = <<>>) <=> (Len(s) = 0)
  OBVIOUS

----------------------------------------------------------------------------
\* Option opt is at none of the first n places of a command line, or at place k
\* alone.
Absent(opts, n, opt) == \A j \in 1 .. n : opts[j].opt # opt
Once(opts, n, opt, k) == k \in 1 .. n /\ \A j \in 1 .. n : opts[j].opt = opt <=> j = k

\* The number of the algorithm that --hash-alg asks for.
AlgArg(o) ==
  IF o.n > 0 /\ o.n < IntMax /\ o.clean THEN o.n ELSE FindHashAlgByName(o.name)

ParamFields ==
  {"pointers", "version", "reserved_zero", "hash_algorithm", "block_size", "file_size",
   "salt_size", "salt", "cbs"}

\* Parameters p are what the first n options of a command line ask for.
ParsedFrom(p, opts, n) ==
  /\ DOMAIN p = ParamFields /\ p.version = 1 /\ p.salt \in BOOLEAN
  /\ IF p.hash_algorithm = 0 THEN Absent(opts, n, "hash-alg")
     ELSE \E k : Once(opts, n, "hash-alg", k) /\ p.hash_algorithm = AlgArg(opts[k])
  /\ IF p.block_size = 0 THEN Absent(opts, n, "block-size")
     ELSE \E k : Once(opts, n, "block-size", k) /\ p.block_size = opts[k].n
  /\ IF p.salt THEN \E k : Once(opts, n, "salt", k) /\ p.salt_size = opts[k].n \div 2
     ELSE Absent(opts, n, "salt") /\ p.salt_size = 0

\* One more option, other than opt or the first of its kind.
LEMMA StillAbsent ==
  ASSUME NEW opts, NEW n \in Nat, NEW opt, Absent(opts, n, opt), opts[n + 1].opt # opt
  PROVE  Absent(opts, n + 1, opt)
<1>1. \A j \in 1 .. n + 1 : j \in 1 .. n \/ j = n + 1
  OBVIOUS
<1> QED
  BY Zenon, <1>1 DEF Absent

LEMMA StillOnce ==
  ASSUME NEW opts, NEW n \in Nat, NEW opt, NEW k, Once(opts, n, opt, k), opts[n + 1].opt # opt
  PROVE  Once(opts, n + 1, opt, k)
<1>1. k \in 1 .. n /\ \A j \in 1 .. n : opts[j].opt = opt <=> j = k
  BY Zenon DEF Once
<1>2. /\ \A j \in 1 .. n + 1 : j \in 1 .. n \/ j = n + 1
      /\ k \in 1 .. n + 1 /\ k # n + 1
  BY <1>1
<1> QED
  BY Zenon, <1>1, <1>2 DEF Once

LEMMA NowOnce ==
  ASSUME NEW opts, NEW n \in Nat, NEW opt, Absent(opts, n, opt), opts[n + 1].opt = opt
  PROVE  Once(opts, n + 1, opt, n + 1)
<1>1. /\ \A j \in 1 .. n + 1 : j \in 1 .. n \/ j = n + 1
      /\ n + 1 \in 1 .. n + 1 /\ n + 1 \notin 1 .. n
  OBVIOUS
<1> QED
  BY Zenon, <1>1 DEF Once, Absent

\* An update of some of the fields of the parameters
LEMMA FieldsKept ==
  ASSUME NEW p, NEW q, NEW opts, NEW n \in Nat, ParsedFrom(p, opts, n),
         DOMAIN q = DOMAIN p, q.version = p.version,
         opts[n + 1].opt # "hash-alg" => q.hash_algorithm = p.hash_algorithm,
         opts[n + 1].opt = "hash-alg" =>
           p.hash_algorithm = 0 /\ q.hash_algorithm # 0 /\ q.hash_algorithm = AlgArg(opts[n + 1]),
         opts[n + 1].opt # "block-size" => q.block_size = p.block_size,
         opts[n + 1].opt = "block-size" =>
           p.block_size = 0 /\ q.block_size # 0 /\ q.block_size = opts[n + 1].n,
         opts[n + 1].opt # "salt" => q.salt = p.salt /\ q.salt_size = p.salt_size,
         opts[n + 1].opt = "salt" =>
           ~p.salt /\ q.salt = TRUE /\ q.salt_size = opts[n + 1].n \div 2
  PROVE  ParsedFrom(q, opts, n + 1)
<1>1. DOMAIN q = ParamFields /\ q.version = 1 /\ q.salt \in BOOLEAN
  BY Zenon DEF ParsedFrom
<1>2. IF q.hash_algorithm = 0 THEN Absent(opts, n + 1, "hash-alg")
      ELSE \E k : Once(opts, n + 1, "hash-alg", k) /\ q.hash_algorithm = AlgArg(opts[k])
  <2>1. CASE opts[n + 1].opt # "hash-alg"
    BY Zenon, <2>1, StillAbsent, StillOnce DEF ParsedFrom
  <2>2. CASE opts[n + 1].opt = "hash-alg"
    BY Zenon, <2>2, NowOnce DEF ParsedFrom
  <2> QED
    BY Zenon, <2>1, <2>2
<1>3. IF q.block_size = 0 THEN Absent(opts, n + 1, "block-size")
      ELSE \E k : Once(opts, n + 1, "block-size", k) /\ q.block_size = opts[k].n
  <2>1. CASE opts[n + 1].opt # "block-size"
    BY Zenon, <2>1, StillAbsent, StillOnce DEF ParsedFrom
  <2>2. CASE opts[n + 1].opt = "block-size"
    BY Zenon, <2>2, NowOnce DEF ParsedFrom
  <2> QED
    BY Zenon, <2>1, <2>2
<1>4. IF q.salt THEN \E k : Once(opts, n + 1, "salt", k) /\ q.salt_size = opts[k].n \div 2
      ELSE Absent(opts, n + 1, "salt") /\ q.salt_size = 0
  <2>1. CASE opts[n + 1].opt # "salt"
    BY Zenon, <2>1, StillAbsent, StillOnce DEF ParsedFrom
  <2>2. CASE opts[n + 1].opt = "salt"
    BY Zenon, <2>2, NowOnce DEF ParsedFrom
  <2> QED
    BY Zenon, <2>1, <2>2
<1> QED
  BY Zenon, <1>1, <1>2, <1>3, <1>4 DEF ParsedFrom

\* parse_tree_param() keeps what the options before it ask for and adds the one
\* it accepts.
LEMMA ParamParsed ==
  ASSUME NEW opts, NEW n \in Nat, ParsedFrom(tree_params, opts, n),
         opts[n + 1].opt \in TreeOptions, ParseTreeParam(opts[n + 1], TRUE)
  PROVE  ParsedFrom(tree_params', opts, n + 1)
<1> DEFINE o == opts[n + 1]
           p == tree_params
<1>0. DOMAIN p = ParamFields
  BY Zenon DEF ParsedFrom
<1>1. CASE o.opt = "hash-alg"
  <2>1. ParseHashAlg(o, TRUE)
    BY Zenon, <1>1 DEF ParseTreeParam
  <2>2. /\ p.hash_algorithm = 0 /\ AlgArg(o) # 0
        /\ tree_params' = [p EXCEPT !.hash_algorithm = AlgArg(o)]
    BY Zenon, <2>1 DEF ParseHashAlg, AlgArg
  <2>3. /\ DOMAIN tree_params' = DOMAIN p /\ tree_params'.version = p.version
        /\ tree_params'.hash_algorithm = AlgArg(o) /\ tree_params'.block_size = p.block_size
        /\ tree_params'.salt = p.salt /\ tree_params'.salt_size = p.salt_size
    BY Zenon, <1>0, <2>2 DEF ParamFields
  <2> QED
    BY Zenon, <1>1, <2>2, <2>3, FieldsKept
<1>2. CASE o.opt = "block-size"
  <2>1. ParseBlockSize(o, TRUE)
    BY Zenon, <1>2 DEF ParseTreeParam
  <2>2. /\ p.block_size = 0 /\ o.n > 0
        /\ tree_params' = [p EXCEPT !.block_size = o.n]
    BY Zenon, <2>1 DEF ParseBlockSize
  <2>3. /\ DOMAIN tree_params' = DOMAIN p /\ tree_params'.version = p.version
        /\ tree_params'.hash_algorithm = p.hash_algorithm /\ tree_params'.block_size = o.n
        /\ tree_params'.salt = p.salt /\ tree_params'.salt_size = p.salt_size
    BY Zenon, <1>0, <2>2 DEF ParamFields
  <2>4. o.n # 0
    BY <2>2
  <2> QED
    BY Zenon, <1>2, <2>2, <2>3, <2>4, FieldsKept
<1>3. CASE o.opt = "salt"
  <2>1. ParseSalt(o, TRUE)
    BY Zenon, <1>3 DEF ParseTreeParam
  <2>2. ~p.salt /\ tree_params' = [p EXCEPT !.salt = TRUE, !.salt_size = o.n \div 2]
    BY Zenon, <2>1 DEF ParseSalt
  <2>3. /\ DOMAIN tree_params' = DOMAIN p /\ tree_params'.version = p.version
        /\ tree_params'.hash_algorithm = p.hash_algorithm
        /\ tree_params'.block_size = p.block_size
        /\ tree_params'.salt = TRUE /\ tree_params'.salt_size = o.n \div 2
    BY Zenon, <1>0, <2>2 DEF ParamFields
  <2> QED
    BY Zenon, <1>3, <2>2, <2>3, FieldsKept
<1>4. ASSUME NEW out, ParseOut(out, TRUE),
             o.opt \notin {"hash-alg", "block-size", "salt"}
      PROVE  ParsedFrom(tree_params', opts, n + 1)
  <2>1. PICK c : tree_params' = [p EXCEPT !.cbs = c]
    BY Zenon, <1>4 DEF ParseOut
  <2>2. /\ DOMAIN tree_params' = DOMAIN p /\ tree_params'.version = p.version
        /\ tree_params'.hash_algorithm = p.hash_algorithm
        /\ tree_params'.block_size = p.block_size
        /\ tree_params'.salt = p.salt /\ tree_params'.salt_size = p.salt_size
    BY Zenon, <1>0, <2>1 DEF ParamFields
  <2> QED
    BY Zenon, <1>4, <2>2, FieldsKept
<1>5. CASE o.opt = "out-merkle-tree"
  <2>1. ParseOut("tree", TRUE)
    BY Zenon, <1>5 DEF ParseTreeParam
  <2> QED
    BY Zenon, <1>4, <1>5, <2>1
<1>6. CASE o.opt = "out-descriptor"
  <2>1. ParseOut("desc", TRUE)
    BY Zenon, <1>6 DEF ParseTreeParam
  <2> QED
    BY Zenon, <1>4, <1>6, <2>1
<1> QED
  BY Zenon, <1>1, <1>2, <1>3, <1>5, <1>6 DEF TreeOptions

----------------------------------------------------------------------------
LEMMA PowersGrow ==
  ASSUME NEW n \in BlockSizes, NEW a \in 0 .. n + 1, NEW b \in 0 .. n + 1, a <= b
  PROVE  2^a \in Nat \ {0} /\ 2^b \in Nat \ {0} /\ 2^a <= 2^b
<1>1. n \in Nat /\ \A k \in 0 .. n + 1 :
        2^k \in Nat \ {0} /\ \A j \in 0 .. k : 2^k = 2^j * 2^(k - j)
  BY Zenon, PowersAssumption DEF BlockSizes
<1>2. a \in 0 .. b /\ b - a \in 0 .. n + 1
  BY <1>1
<1>3. /\ 2^a \in Nat \ {0} /\ 2^b \in Nat \ {0} /\ 2^(b - a) \in Nat \ {0}
      /\ 2^b = 2^a * 2^(b - a)
  BY Zenon, <1>1, <1>2
<1>4. \A x, y \in Nat \ {0} : x <= x * y
  OBVIOUS
<1> QED
  BY Zenon, <1>3, <1>4

\* ilog2() of a power of two is its exponent.
LEMMA LogOfPower ==
  ASSUME NEW n \in BlockSizes, IsPowerOf2(n)
  PROVE  Ilog2(n) \in 0 .. n /\ 2^Ilog2(n) = n
<1>1. n \in Nat /\ 2^1 = 2 /\ \A k \in 0 .. n + 1 :
        2^k \in Nat \ {0} /\ \A j \in 0 .. k : 2^k = 2^j * 2^(k - j)
  BY Zenon, PowersAssumption DEF BlockSizes
<1>2. PICK j \in 0 .. n : n = 2^j
  BY Zenon DEF IsPowerOf2
<1>3. j + 1 \in 0 .. n + 1 /\ j \in 0 .. j + 1 /\ (j + 1) - j = 1
  BY <1>1
<1>4. 2^(j + 1) = 2^j * 2
  <2> DEFINE k == j + 1
  <2>0. \A m \in 0 .. k : 2^k = 2^m * 2^(k - m)
    <3> HIDE DEF k
    <3>1. k \in 0 .. n + 1
      BY Zenon, <1>3 DEF k
    <3> QED
      BY Zenon, <1>1, <3>1
  <2>1. 2^(j + 1) = 2^j * 2^((j + 1) - j)
    BY Zenon, <2>0, <1>3
  <2>2. 2^((j + 1) - j) = 2
    BY Zenon, <1>1, <1>3
  <2> QED
    BY Zenon, <2>1, <2>2
<1>5. 2^j <= n /\ n < 2^(j + 1)
  <2>1. j \in 0 .. n + 1
    BY <1>1
  <2>3. 2^j \in Nat \ {0}
    BY Zenon, <1>1, <2>1
  <2>2. \A x \in Nat \ {0} : x <= x /\ x < x * 2
    OBVIOUS
  <2> QED
    BY Zenon, <1>2, <1>4, <2>2, <2>3
<1> DEFINE k == Ilog2(n)
<1>6. k \in 0 .. n /\ 2^k <= n /\ n < 2^(k + 1)
  BY Zenon, <1>2, <1>5 DEF Ilog2
<1> HIDE DEF k
<1>7. k \in Nat /\ j \in Nat /\ k + 1 \in 0 .. n + 1 /\ k \in 0 .. n + 1 /\ j \in 0 .. n + 1
  BY <1>1, <1>6
<1>8. ~(j + 1 <= k)
  <2> SUFFICES ASSUME j + 1 <= k PROVE FALSE
    OBVIOUS
  <2>1. 2^(j + 1) \in Nat \ {0} /\ 2^k \in Nat \ {0} /\ 2^(j + 1) <= 2^k
    BY Zenon, <1>3, <1>7, PowersGrow
  <2>2. \A x, y \in Nat : ~(x <= n /\ n < y /\ y <= x)
    BY <1>1
  <2> QED
    BY Zenon, <1>5, <1>6, <2>1, <2>2
<1>9. ~(k + 1 <= j)
  <2> SUFFICES ASSUME k + 1 <= j PROVE FALSE
    OBVIOUS
  <2>1. 2^(k + 1) \in Nat \ {0} /\ 2^j \in Nat \ {0} /\ 2^(k + 1) <= 2^j
    BY Zenon, <1>7, PowersGrow
  <2>2. \A x \in Nat : ~(n < x /\ x <= n)
    BY <1>1
  <2> QED
    BY Zenon, <1>2, <1>6, <2>1, <2>2
<1>10. k = j
  BY <1>7, <1>8, <1>9
<1> QED
  BY Zenon, <1>2, <1>6, <1>10 DEF k

\* An option and its place, as AsGiven looks for them
IsGiven(opts, opt) == \E k \in DOMAIN opts : opts[k].opt = opt

PlaceOf(opts, opt) == CHOOSE k \in DOMAIN opts : opts[k].opt = opt

LEMMA OnlyArg ==
  ASSUME NEW opts, DOMAIN opts = 1 .. Len(opts), NEW opt, NEW k, Once(opts, Len(opts), opt, k)
  PROVE  IsGiven(opts, opt) /\ k \in DOMAIN opts /\ PlaceOf(opts, opt) = k
<1> DEFINE m == PlaceOf(opts, opt)
<1>1. k \in DOMAIN opts /\ \A j \in DOMAIN opts : opts[j].opt = opt <=> j = k
  BY Zenon DEF Once
<1>2. m \in DOMAIN opts /\ opts[m].opt = opt
  BY Zenon, <1>1 DEF PlaceOf
<1> QED
  BY Zenon, <1>1, <1>2 DEF IsGiven

\* A descriptor with the parameters parsed from a whole command line is as asked.
LEMMA AsAsked ==
  ASSUME NEW c \in CommandLines, NEW p, NEW e, ParsedFrom(p, c.opts, Len(c.opts)),
         KnownHashAlg(HashAlgOf(p)), IsPowerOf2(BlockSizeOf(p)),
         e.hash_algorithm = HashAlgOf(p), e.log_blocksize = Ilog2(BlockSizeOf(p)),
         e.salt_size = p.salt_size
  PROVE  AsGiven(c.opts, e)
<1> DEFINE opts == c.opts
<1>1. /\ DOMAIN opts = 1 .. Len(opts)
      /\ \A k \in DOMAIN opts : /\ opts[k].n \in Nat
                                /\ FindHashAlgByName(opts[k].name) # 0 => opts[k].n = 0
  BY Zenon, OptionsAssumption
<1>2. ~KnownHashAlg(0)
  BY TableAssumption DEF KnownHashAlg
<1>3. e.hash_algorithm =
        IF ~IsGiven(opts, "hash-alg") THEN DefaultHashAlg
        ELSE IF KnownHashAlg(opts[PlaceOf(opts, "hash-alg")].n) THEN opts[PlaceOf(opts, "hash-alg")].n
        ELSE FindHashAlgByName(opts[PlaceOf(opts, "hash-alg")].name)
  <2>1. CASE p.hash_algorithm = 0
    <3>1. Absent(opts, Len(opts), "hash-alg")
      BY Zenon, <2>1 DEF ParsedFrom
    <3>2. ~IsGiven(opts, "hash-alg")
      BY Zenon, <1>1, <3>1 DEF Absent, IsGiven
    <3> QED
      BY Zenon, <2>1, <3>2 DEF HashAlgOf
  <2>2. CASE p.hash_algorithm # 0
    <3>1. PICK k : Once(opts, Len(opts), "hash-alg", k) /\ p.hash_algorithm = AlgArg(opts[k])
      BY Zenon, <2>2 DEF ParsedFrom
    <3>2. IsGiven(opts, "hash-alg") /\ k \in DOMAIN opts /\ PlaceOf(opts, "hash-alg") = k
      BY Zenon, <1>1, <3>1, OnlyArg
    <3>3. e.hash_algorithm = AlgArg(opts[k]) /\ KnownHashAlg(AlgArg(opts[k])) /\ AlgArg(opts[k]) # 0
      BY Zenon, <2>2, <3>1 DEF HashAlgOf
    <3> HIDE DEF opts
    <3>4. AlgArg(opts[k]) = IF KnownHashAlg(opts[k].n) THEN opts[k].n
                            ELSE FindHashAlgByName(opts[k].name)
      <4>1. CASE AlgArg(opts[k]) = opts[k].n
        BY Zenon, <3>3, <4>1
      <4>2. CASE AlgArg(opts[k]) = FindHashAlgByName(opts[k].name)
        <5>1. opts[k].n = 0
          BY Zenon, <1>1, <3>2, <3>3, <4>2
        <5> QED
          BY Zenon, <1>2, <4>2, <5>1
      <4> QED
        BY Zenon, <4>1, <4>2 DEF AlgArg
    <3> QED
      BY Zenon, <3>2, <3>3, <3>4
  <2> QED
    BY Zenon, <2>1, <2>2
<1>4. 2^e.log_blocksize = IF IsGiven(opts, "block-size") THEN opts[PlaceOf(opts, "block-size")].n
                          ELSE DefaultBlockSize
  <2>1. BlockSizeOf(p) \in BlockSizes => 2^e.log_blocksize = BlockSizeOf(p)
    BY Zenon, LogOfPower
  <2>2. CASE p.block_size = 0
    <3>1. Absent(opts, Len(opts), "block-size")
      BY Zenon, <2>2 DEF ParsedFrom
    <3>2. ~IsGiven(opts, "block-size")
      BY Zenon, <1>1, <3>1 DEF Absent, IsGiven
    <3>3. BlockSizeOf(p) = DefaultBlockSize
      BY Zenon, <2>2 DEF BlockSizeOf
    <3> QED
      BY Zenon, <2>1, <3>2, <3>3 DEF BlockSizes
  <2>3. CASE p.block_size # 0
    <3>1. PICK k : Once(opts, Len(opts), "block-size", k) /\ p.block_size = opts[k].n
      BY Zenon, <2>3 DEF ParsedFrom
    <3>2. IsGiven(opts, "block-size") /\ k \in DOMAIN opts /\ PlaceOf(opts, "block-size") = k
      BY Zenon, <1>1, <3>1, OnlyArg
    <3>3. BlockSizeOf(p) = opts[k].n
      BY Zenon, <2>3, <3>1 DEF BlockSizeOf
    <3>4. opts[k].n \in BlockSizes
      <4>1. opts[k].n \in {c.opts[m].n : m \in DOMAIN c.opts}
        BY Zenon, <3>2
      <4> QED
        BY Zenon, <4>1 DEF BlockSizes
    <3> HIDE DEF opts
    <3> QED
      BY Zenon, <2>1, <3>2, <3>3, <3>4
  <2> QED
    BY Zenon, <2>2, <2>3
<1>5. e.salt_size = IF IsGiven(opts, "salt") THEN opts[PlaceOf(opts, "salt")].n \div 2 ELSE 0
  <2>1. CASE ~p.salt
    <3>1. Absent(opts, Len(opts), "salt") /\ p.salt_size = 0
      BY Zenon, <2>1 DEF ParsedFrom
    <3>2. ~IsGiven(opts, "salt")
      BY Zenon, <1>1, <3>1 DEF Absent, IsGiven
    <3> QED
      BY Zenon, <3>1, <3>2
  <2>2. CASE p.salt
    <3>1. PICK k : Once(opts, Len(opts), "salt", k) /\ p.salt_size = opts[k].n \div 2
      BY Zenon, <2>2 DEF ParsedFrom
    <3>2. IsGiven(opts, "salt") /\ k \in DOMAIN opts /\ PlaceOf(opts, "salt") = k
      BY Zenon, <1>1, <3>1, OnlyArg
    <3> HIDE DEF opts
    <3> QED
      BY Zenon, <3>1, <3>2
  <2> QED
    BY Zenon, <2>1, <2>2
<1> QED
  BY Zenon, <1>3, <1>4, <1>5 DEF AsGiven, IsGiven, PlaceOf

----------------------------------------------------------------------------
\* fsverity enable.

\* What holds of the options, while they are parsed and until they are used
EnableParsed ==
  /\ cmd \in CommandLines
  /\ pc \in {"options", "sig_open", "sig_stat", "sig_read", "open", "enable"} =>
       /\ i \in 1 .. Len(cmd.opts) + 1
       /\ ParsedFrom(tree_params, cmd.opts, i - 1)
       /\ IF sig = <<>> /\ pc \notin {"sig_open", "sig_stat", "sig_read"}
            THEN Absent(cmd.opts, i - 1, "signature")
            ELSE \E k \in 1 .. i - 1 : cmd.opts[k].opt = "signature"
  /\ pc \in {"open", "enable"} => i = Len(cmd.opts) + 1

SigBytes == Nat \ {0}

\* Every byte of s was at its place in the signature file.
FromFile(s) ==
  \A k \in DOMAIN s : \E c \in contents : k \in DOMAIN c /\ s[k] = c[k]

\* s is all that was to be read of the signature file.
Whole(s) ==
  /\ s \in Seq(SigBytes) /\ Len(s) = file_size /\ file_size \in 1 .. MaxSigSize
  /\ FromFile(s)
  /\ changes = 0 => s = sig_file

\* The signature, and the part of it that was read
EnableSig ==
  /\ sig_file \in Seq(SigBytes) /\ sig_file \in contents /\ changes \in Nat
  /\ sig_fd = "open" => pc \in {"sig_stat", "sig_read"}
  /\ pc \in {"sig_open", "sig_stat", "sig_read"} => sig = <<>>
  /\ pc # "sig_read" => buf = <<>>
  /\ pc = "sig_read" =>
       /\ file_size \in 1 .. MaxSigSize
       /\ buf \in Seq(SigBytes) /\ Len(buf) <= file_size /\ FromFile(buf)
       /\ changes = 0 =>
            file_size = Len(sig_file) /\ \A k \in 1 .. Len(buf) : buf[k] = sig_file[k]
  /\ IF sig = <<>> THEN sig_size = 0 ELSE Whole(sig) /\ sig_size = Len(sig)

\* The exit status, from the moment it is final
EnableStatus ==
  /\ pc \notin {"close", "out", "free", "exit"} => verity = NoVerity
  /\ pc = "close" => verity # NoVerity
  /\ pc \notin {"out", "free", "exit"} => ~close_failed
  /\ pc \in {"out", "free", "exit"} =>
       /\ status = 0 => verity # NoVerity /\ ~close_failed
       /\ verity # NoVerity /\ status # 0 => status = 1 /\ close_failed

EnableInv == EnableParsed /\ EnableSig /\ EnableStatus /\ EnabledAsAsked /\ SignatureFromFile

\* Verity is not enabled, or stays as it is.
LEMMA NotEnabled ==
  ASSUME verity' = NoVerity
  PROVE  EnabledAsAsked' /\ SignatureFromFile'
BY Zenon DEF EnabledAsAsked, SignatureFromFile

LEMMA StaysEnabled ==
  ASSUME EnabledAsAsked, SignatureFromFile, verity' = verity, cmd' = cmd,
         file_size' = file_size, changes' = changes, contents' = contents,
         sig_file' = sig_file
  PROVE  EnabledAsAsked' /\ SignatureFromFile'
BY Zenon DEF EnabledAsAsked, SignatureFromFile

LEMMA EnableInit == CmdEnableInit => EnableInv
<1> SUFFICES ASSUME CmdEnableInit PROVE EnableInv
  OBVIOUS
<1>1. /\ cmd \in CommandLines /\ sig_file \in SigFiles /\ pc = "options" /\ i = 1 /\ sig = <<>>
      /\ sig_size = 0 /\ file_size = 0 /\ buf = <<>> /\ sig_fd = "closed" /\ status = 0
      /\ verity = NoVerity /\ changes = 0 /\ close_failed = FALSE /\ contents = {sig_file}
      /\ tree_params = [pointers |-> TRUE, version |-> 1, reserved_zero |-> TRUE,
                        hash_algorithm |-> 0, block_size |-> 0, file_size |-> 0,
                        salt_size |-> 0, salt |-> FALSE, cbs |-> {}]
  BY Zenon DEF CmdEnableInit, ParamsInit
<1>2. /\ DOMAIN tree_params = ParamFields /\ tree_params.version = 1
      /\ tree_params.hash_algorithm = 0 /\ tree_params.block_size = 0
      /\ tree_params.salt = FALSE /\ tree_params.salt_size = 0
  BY <1>1 DEF ParamFields
<1>3. i - 1 = 0 /\ 1 .. 0 = {} /\ 0 \in Nat
  BY <1>1
<1>4. \A opt : Absent(cmd.opts, i - 1, opt)
  BY Zenon, <1>3 DEF Absent
<1>5. i \in 1 .. Len(cmd.opts) + 1
  <2>1. Len(cmd.opts) \in Nat
    BY Zenon, <1>1, OptionsAssumption
  <2> QED
    BY <1>1, <2>1
<1>6. ParsedFrom(tree_params, cmd.opts, i - 1)
  BY Zenon, <1>2, <1>4 DEF ParsedFrom
<1>7. EnableParsed
  BY Zenon, <1>1, <1>4, <1>5, <1>6 DEF EnableParsed
<1>8. EnableSig
  BY Zenon, <1>1, <1>3, SigFilesAssumption DEF EnableSig, SigBytes
<1>9. EnableStatus /\ EnabledAsAsked /\ SignatureFromFile
  BY Zenon, <1>1 DEF EnableStatus, EnabledAsAsked, SignatureFromFile
<1> QED
  BY Zenon, <1>7, <1>8, <1>9 DEF EnableInv

LEMMA EnableOptionStep == EnableInv /\ ParseEnableOption => EnableInv'
<1> SUFFICES ASSUME EnableInv, ParseEnableOption PROVE EnableInv'
  OBVIOUS
<1>1. /\ pc = "options" /\ i <= Len(cmd.opts) /\ cmd.opts[i].opt \in EnableOptions
      /\ i' = i + 1 /\ cmd' = cmd /\ sig' = sig /\ sig_size' = sig_size
      /\ sig_file' = sig_file /\ file_size' = file_size /\ buf' = buf /\ sig_fd' = sig_fd
      /\ changes' = changes /\ contents' = contents /\ verity' = verity /\ close_failed' = close_failed
  BY Zenon DEF ParseEnableOption, reader
<1>2. /\ cmd \in CommandLines /\ i \in 1 .. Len(cmd.opts) + 1
      /\ ParsedFrom(tree_params, cmd.opts, i - 1) /\ verity = NoVerity /\ ~close_failed
      /\ IF sig = <<>> THEN Absent(cmd.opts, i - 1, "signature")
         ELSE \E k \in 1 .. i - 1 : cmd.opts[k].opt = "signature"
  BY Zenon, <1>1 DEF EnableInv, EnableParsed, EnableStatus
<1>3. Len(cmd.opts) \in Nat
  BY Zenon, <1>2, OptionsAssumption
<1> DEFINE n == i - 1
<1>4. n \in Nat /\ i = n + 1 /\ n + 1 \in 1 .. Len(cmd.opts) /\ (n + 1) + 1 \in 1 .. Len(cmd.opts) + 1
      /\ (n + 1 + 1) - 1 = n + 1 /\ 1 .. n \subseteq 1 .. n + 1
  BY <1>1, <1>2, <1>3
<1>5. ParsedFrom(tree_params, cmd.opts, n) /\
      IF sig = <<>> THEN Absent(cmd.opts, n, "signature")
      ELSE \E k \in 1 .. n : cmd.opts[k].opt = "signature"
  BY Zenon, <1>2
<1> HIDE DEF n
<1>6. PICK accepted \in BOOLEAN :
        ParseTreeParam(cmd.opts[i], accepted) /\ IF accepted THEN Goto("options") ELSE Usage
  BY Zenon DEF ParseEnableOption
<1>7. EnabledAsAsked' /\ SignatureFromFile'
  BY Zenon, <1>1, <1>2, NotEnabled
<1>8. EnableSig'
  <2>1. pc' \in {"options", "out"}
    BY Zenon, <1>6 DEF Goto, Usage
  <2>2. pc' # "sig_read" /\ pc' \notin {"sig_open", "sig_stat", "sig_read"}
    BY Zenon, <2>1
  <2>3. EnableSig
    BY Zenon DEF EnableInv
  <2>4. (sig_fd = "open") = FALSE
    BY Zenon, <1>1, <2>3 DEF EnableSig
  <2> QED
    BY Zenon, <1>1, <2>2, <2>3, <2>4 DEF EnableSig, Whole, FromFile
<1>9. CASE ~accepted
  <2>1. pc' = "out" /\ status' = 2
    BY Zenon, <1>6, <1>9 DEF Usage
  <2>2. EnableParsed'
    BY Zenon, <1>1, <1>2, <2>1 DEF EnableParsed
  <2>3. 2 # 0
    OBVIOUS
  <2>4. EnableStatus'
    BY Zenon, <1>1, <1>2, <2>1, <2>3 DEF EnableStatus
  <2> QED
    BY Zenon, <1>7, <1>8, <2>2, <2>4 DEF EnableInv
<1>10. CASE accepted
  <2>1. pc' = "options" /\ ParseTreeParam(cmd.opts[n + 1], TRUE)
    BY Zenon, <1>4, <1>6, <1>10 DEF Goto
  <2>2. cmd.opts[n + 1].opt \in TreeOptions /\ cmd.opts[n + 1].opt # "signature"
    BY Zenon, <1>1, <1>4 DEF EnableOptions, TreeOptions
  <2>3. ParsedFrom(tree_params', cmd.opts, n + 1)
    BY Zenon, <1>4, <1>5, <2>1, <2>2, ParamParsed
  <2>4. IF sig = <<>> THEN Absent(cmd.opts, n + 1, "signature")
        ELSE \E k \in 1 .. n + 1 : cmd.opts[k].opt = "signature"
    BY Zenon, <1>4, <1>5, <2>2, StillAbsent
  <2>5. i' = (n + 1) + 1 /\ i' - 1 = n + 1
    BY Zenon, <1>1, <1>4
  <2>6. EnableParsed'
    BY Zenon, <1>1, <1>2, <1>4, <2>1, <2>3, <2>4, <2>5 DEF EnableParsed
  <2>7. EnableStatus'
    BY Zenon, <1>1, <1>2, <2>1 DEF EnableStatus
  <2> QED
    BY Zenon, <1>7, <1>8, <2>6, <2>7 DEF EnableInv
<1> QED
  BY Zenon, <1>9, <1>10

\* A step to the label out, before verity is enabled
LEMMA EnableFails ==
  ASSUME EnableInv, pc \notin {"close", "out", "free", "exit"}, pc' = "out", status' \in {1, 2},
         cmd' = cmd, verity' = verity, close_failed' = close_failed
  PROVE  EnableParsed' /\ EnableStatus' /\ EnabledAsAsked' /\ SignatureFromFile'
<1>1. cmd \in CommandLines /\ verity = NoVerity /\ ~close_failed
  BY Zenon DEF EnableInv, EnableParsed, EnableStatus
<1>2. status' # 0
  OBVIOUS
<1>3. EnableParsed'
  BY Zenon, <1>1 DEF EnableParsed
<1>4. EnableStatus'
  BY Zenon, <1>1, <1>2 DEF EnableStatus
<1> QED
  BY Zenon, <1>1, <1>3, <1>4, NotEnabled

\* A step from one place before that to another
LEMMA EnableGoesOn ==
  ASSUME EnableInv, pc \notin {"close", "out", "free", "exit"},
         pc' \notin {"close", "out", "free", "exit"}, verity' = verity,
         close_failed' = close_failed
  PROVE  EnableStatus' /\ EnabledAsAsked' /\ SignatureFromFile'
<1>1. verity = NoVerity /\ ~close_failed
  BY Zenon DEF EnableInv, EnableStatus
<1>2. EnableStatus'
  BY Zenon, <1>1 DEF EnableStatus
<1> QED
  BY Zenon, <1>1, <1>2, NotEnabled

LEMMA EnableSignatureStep == EnableInv /\ ParseSignature => EnableInv'
<1> SUFFICES ASSUME EnableInv, ParseSignature PROVE EnableInv'
  OBVIOUS
<1>1. /\ pc = "options" /\ i <= Len(cmd.opts) /\ cmd.opts[i].opt \notin EnableOptions
      /\ i' = i + 1 /\ cmd' = cmd /\ sig' = sig /\ sig_size' = sig_size
      /\ sig_file' = sig_file /\ file_size' = file_size /\ buf' = buf /\ sig_fd' = sig_fd
      /\ changes' = changes /\ contents' = contents /\ verity' = verity /\ close_failed' = close_failed
      /\ tree_params' = tree_params
  BY Zenon DEF ParseSignature, reader, paramvars
<1>2. /\ cmd \in CommandLines /\ i \in 1 .. Len(cmd.opts) + 1
      /\ ParsedFrom(tree_params, cmd.opts, i - 1)
  BY Zenon, <1>1 DEF EnableInv, EnableParsed
<1>3. Len(cmd.opts) \in Nat
  BY Zenon, <1>2, OptionsAssumption
<1> DEFINE n == i - 1
<1>4. /\ n \in Nat /\ i = n + 1 /\ (n + 1) + 1 \in 1 .. Len(cmd.opts) + 1
      /\ (n + 1 + 1) - 1 = n + 1 /\ n + 1 \in 1 .. n + 1
  BY <1>1, <1>2, <1>3
<1>5. ParsedFrom(tree_params, cmd.opts, n)
  BY Zenon, <1>2
<1> HIDE DEF n
<1>6. EnableSig /\ sig_fd # "open"
  BY Zenon, <1>1 DEF EnableInv, EnableSig
<1>7. CASE cmd.opts[i].opt = "signature" /\ sig = <<>>
  <2>1. pc' = "sig_open"
    BY Zenon, <1>7 DEF ParseSignature, Goto
  <2>2. ParsedFrom(tree_params, cmd.opts, n + 1)
    BY Zenon, <1>1, <1>4, <1>5, FieldsKept DEF EnableOptions
  <2>3. i' = (n + 1) + 1 /\ i' - 1 = n + 1 /\ cmd.opts[n + 1].opt = "signature"
    BY Zenon, <1>1, <1>4, <1>7
  <2>4. EnableParsed'
    BY Zenon, <1>1, <1>2, <1>4, <2>1, <2>2, <2>3 DEF EnableParsed
  <2>5. EnableSig'
    BY Zenon, <1>1, <1>6, <1>7, <2>1 DEF EnableSig, Whole, FromFile
  <2>6. EnableStatus' /\ EnabledAsAsked' /\ SignatureFromFile'
    BY Zenon, <1>1, <2>1, EnableGoesOn
  <2> QED
    BY Zenon, <2>4, <2>5, <2>6 DEF EnableInv
<1>8. CASE ~(cmd.opts[i].opt = "signature" /\ sig = <<>>)
  <2>1. pc' = "out" /\ status' = 2
    BY Zenon, <1>8 DEF ParseSignature, Usage
  <2>2. EnableSig'
    BY Zenon, <1>1, <1>6, <2>1 DEF EnableSig, Whole, FromFile
  <2> QED
    BY Zenon, <1>1, <2>1, <2>2, EnableFails DEF EnableInv
<1> QED
  BY Zenon, <1>7, <1>8

LEMMA OpenSignatureStep == EnableInv /\ OpenSignature => EnableInv'
<1> SUFFICES ASSUME EnableInv, OpenSignature PROVE EnableInv'
  OBVIOUS
<1>1. /\ pc = "sig_open" /\ i' = i /\ cmd' = cmd /\ sig' = sig /\ sig_size' = sig_size
      /\ sig_file' = sig_file /\ file_size' = file_size /\ buf' = buf
      /\ changes' = changes /\ contents' = contents /\ verity' = verity /\ close_failed' = close_failed
      /\ tree_params' = tree_params
      /\ \/ pc' = "sig_stat"
         \/ pc' = "out" /\ status' = 1 /\ sig_fd' = sig_fd
  BY Zenon DEF OpenSignature, paramvars, Goto, OutErr
<1>2. EnableParsed /\ EnableSig /\ sig_fd # "open"
  BY Zenon, <1>1 DEF EnableInv, EnableSig
<1>3. EnableSig'
  BY Zenon, <1>1, <1>2 DEF EnableSig, Whole, FromFile
<1>4. CASE pc' = "sig_stat"
  <2>1. EnableParsed'
    BY Zenon, <1>1, <1>2, <1>4 DEF EnableParsed
  <2> QED
    BY Zenon, <1>1, <1>3, <1>4, <2>1, EnableGoesOn DEF EnableInv
<1>5. CASE pc' = "out" /\ status' = 1
  BY Zenon, <1>1, <1>3, <1>5, EnableFails DEF EnableInv
<1> QED
  BY Zenon, <1>1, <1>4, <1>5

LEMMA StatSignatureStep == EnableInv /\ StatSignature => EnableInv'
<1> SUFFICES ASSUME EnableInv, StatSignature PROVE EnableInv'
  OBVIOUS
<1>1. /\ pc = "sig_stat" /\ i' = i /\ cmd' = cmd /\ sig' = sig /\ sig_size' = sig_size
      /\ sig_file' = sig_file /\ buf' = buf
      /\ changes' = changes /\ contents' = contents /\ verity' = verity /\ close_failed' = close_failed
      /\ tree_params' = tree_params
      /\ \/ pc' = "sig_read" /\ file_size' = Len(sig_file) /\ SizeAllowed(file_size')
         \/ pc' = "out" /\ status' = 1 /\ sig_fd' = "closed" /\ file_size' = file_size
  BY Zenon DEF StatSignature, Goto, OutErr
<1>2. EnableParsed /\ EnableSig /\ sig = <<>> /\ buf = <<>> /\ sig_size = 0 /\ changes \in Nat
      /\ sig_file \in Seq(SigBytes) /\ sig_file \in contents
  BY Zenon, <1>1 DEF EnableInv, EnableSig
<1>4. CASE pc' = "sig_read" /\ file_size' = Len(sig_file) /\ SizeAllowed(file_size')
  <2>1. EnableParsed'
    BY Zenon, <1>1, <1>2, <1>4 DEF EnableParsed
  <2>2. file_size' \in 1 .. MaxSigSize
    <3>1. file_size' \in Nat /\ file_size' > 0 /\ file_size' <= MaxSigSize
      BY Zenon, <1>2, <1>4, SeqFacts DEF SizeAllowed
    <3> QED
      BY <3>1, SigSizeAssumption
  <2>3. buf \in Seq(SigBytes) /\ 1 .. Len(buf) = {} /\ Len(buf) <= file_size' /\ DOMAIN buf = {}
    BY <1>2, <2>2, SigSizeAssumption
  <2>4. EnableSig'
    BY Zenon, <1>1, <1>2, <1>4, <2>2, <2>3 DEF EnableSig, FromFile
  <2> QED
    BY Zenon, <1>1, <1>4, <2>1, <2>4, EnableGoesOn DEF EnableInv
<1>5. CASE pc' = "out" /\ status' = 1 /\ sig_fd' = "closed" /\ file_size' = file_size
  <2>1. EnableSig'
    BY Zenon, <1>1, <1>2, <1>5 DEF EnableSig
  <2> QED
    BY Zenon, <1>1, <1>5, <2>1, EnableFails DEF EnableInv
<1> QED
  BY Zenon, <1>1, <1>4, <1>5

LEMMA ReadSignatureStep == EnableInv /\ ReadSignature => EnableInv'
<1> SUFFICES ASSUME EnableInv, ReadSignature PROVE EnableInv'
  OBVIOUS
<1>1. /\ pc = "sig_read" /\ Len(buf) < file_size /\ Len(buf) < Len(sig_file)
      /\ buf' = Append(buf, sig_file[Len(buf) + 1])
      /\ pc' = pc /\ i' = i /\ cmd' = cmd /\ sig' = sig /\ sig_size' = sig_size
      /\ sig_file' = sig_file /\ file_size' = file_size /\ sig_fd' = sig_fd
      /\ changes' = changes /\ contents' = contents /\ verity' = verity /\ close_failed' = close_failed
      /\ tree_params' = tree_params
  BY Zenon DEF ReadSignature, paramvars
<1>2. /\ EnableParsed /\ EnableSig /\ sig = <<>> /\ sig_size = 0 /\ sig_file \in Seq(SigBytes)
      /\ buf \in Seq(SigBytes) /\ file_size \in 1 .. MaxSigSize
      /\ FromFile(buf) /\ sig_file \in contents
      /\ changes = 0 => \A k \in 1 .. Len(buf) : buf[k] = sig_file[k]
  BY Zenon, <1>1 DEF EnableInv, EnableSig
<1> DEFINE x == sig_file[Len(buf) + 1]
<1>3. Len(buf) \in Nat /\ Len(sig_file) \in Nat /\ \A k \in 1 .. Len(sig_file) : sig_file[k] \in SigBytes
  BY Zenon, <1>2, SeqFacts
<1>4. DOMAIN sig_file = 1 .. Len(sig_file) /\ DOMAIN buf = 1 .. Len(buf)
  BY <1>2
<1>5. Len(buf) + 1 \in 1 .. Len(sig_file) /\ Len(buf) + 1 <= file_size
  BY <1>1, <1>2, <1>3, SigSizeAssumption
<1>6. x \in SigBytes
  BY Zenon, <1>3, <1>5
<1>7. buf' = Append(buf, x)
  BY Zenon, <1>1
<1> HIDE DEF x
<1>8. /\ Append(buf, x) \in Seq(SigBytes) /\ Len(Append(buf, x)) = Len(buf) + 1
      /\ \A k \in 1 .. Len(buf) : Append(buf, x)[k] = buf[k]
      /\ Append(buf, x)[Len(buf) + 1] = x
  <2>1. buf \in Seq(SigBytes)
    BY Zenon, <1>2
  <2> QED
    BY <1>6, <2>1
<1>9. \A k \in 1 .. Len(buf) + 1 : k \in 1 .. Len(buf) \/ k = Len(buf) + 1
  BY <1>3
<1>10. changes = 0 => \A k \in 1 .. Len(buf') : buf'[k] = sig_file[k]
  BY Zenon, <1>2, <1>7, <1>8, <1>9 DEF x
<1>11. buf' \in Seq(SigBytes) /\ Len(buf') <= file_size
  BY Zenon, <1>5, <1>7, <1>8
<1>12. DOMAIN buf' = 1 .. Len(buf) + 1
  <2>1. DOMAIN buf' = 1 .. Len(buf')
    BY <1>11
  <2> QED
    BY Zenon, <1>7, <1>8, <2>1
<1>13. ASSUME NEW k \in DOMAIN buf' PROVE \E c \in contents : k \in DOMAIN c /\ buf'[k] = c[k]
  <2>1. CASE k \in 1 .. Len(buf)
    BY Zenon, <1>2, <1>4, <1>7, <1>8, <2>1 DEF FromFile
  <2>2. CASE k = Len(buf) + 1
    BY Zenon, <1>2, <1>4, <1>5, <1>7, <1>8, <2>2 DEF x
  <2> QED
    BY Zenon, <1>9, <1>12, <2>1, <2>2
<1>14. EnableSig'
  BY Zenon, <1>1, <1>2, <1>10, <1>11, <1>13 DEF EnableSig, FromFile
<1>15. EnableParsed'
  BY Zenon, <1>1, <1>2 DEF EnableParsed
<1> QED
  BY Zenon, <1>1, <1>14, <1>15, EnableGoesOn DEF EnableInv

LEMMA SignatureReadStep == EnableInv /\ SignatureRead => EnableInv'
<1> SUFFICES ASSUME EnableInv, SignatureRead PROVE EnableInv'
  OBVIOUS
<1>1. /\ pc = "sig_read" /\ Len(buf) = file_size /\ sig' = buf /\ sig_size' = file_size
      /\ buf' = <<>> /\ sig_fd' = "closed" /\ pc' = "options" /\ i' = i /\ cmd' = cmd
      /\ sig_file' = sig_file /\ file_size' = file_size
      /\ changes' = changes /\ contents' = contents /\ verity' = verity /\ close_failed' = close_failed
      /\ tree_params' = tree_params
  BY Zenon DEF SignatureRead, ReadEnough, Goto
<1>2. /\ EnableParsed /\ EnableSig /\ sig_file \in Seq(SigBytes) /\ changes \in Nat
      /\ sig_file \in contents /\ FromFile(buf)
      /\ buf \in Seq(SigBytes) /\ file_size \in 1 .. MaxSigSize
      /\ changes = 0 =>
           file_size = Len(sig_file) /\ \A k \in 1 .. Len(buf) : buf[k] = sig_file[k]
  BY Zenon, <1>1 DEF EnableInv, EnableSig
<1>3. file_size # 0
  BY <1>2
<1>4. buf # <<>>
  <2>1. Len(buf) # 0
    BY Zenon, <1>1, <1>3
  <2> QED
    BY <2>1
<1>5. ASSUME changes = 0 PROVE buf = sig_file
  <2>1. /\ buf \in Seq(SigBytes) /\ sig_file \in Seq(SigBytes) /\ Len(buf) = Len(sig_file)
        /\ \A k \in 1 .. Len(buf) : buf[k] = sig_file[k]
    BY Zenon, <1>1, <1>2, <1>5
  <2> QED
    BY <2>1
<1>6. EnableSig'
  BY Zenon, <1>1, <1>2, <1>4, <1>5 DEF EnableSig, Whole, FromFile
<1>7. EnableParsed'
  BY Zenon, <1>1, <1>2, <1>4 DEF EnableParsed
<1> QED
  BY Zenon, <1>1, <1>6, <1>7, EnableGoesOn DEF EnableInv

LEMMA SignatureReadFailsStep == EnableInv /\ SignatureReadFails => EnableInv'
<1> SUFFICES ASSUME EnableInv, SignatureReadFails PROVE EnableInv'
  OBVIOUS
<1>1. /\ pc = "sig_read" /\ buf' = <<>> /\ sig_fd' = "closed" /\ pc' = "out" /\ status' = 1
      /\ cmd' = cmd /\ sig' = sig /\ sig_size' = sig_size /\ sig_file' = sig_file
      /\ changes' = changes /\ contents' = contents /\ verity' = verity /\ close_failed' = close_failed
  BY Zenon DEF SignatureReadFails, OutErr
<1>2. /\ sig = <<>> /\ sig_size = 0 /\ sig_file \in Seq(SigBytes) /\ changes \in Nat
      /\ sig_file \in contents
  BY Zenon, <1>1 DEF EnableInv, EnableSig
<1>3. EnableSig'
  BY Zenon, <1>1, <1>2 DEF EnableSig
<1> QED
  BY Zenon, <1>1, <1>3, EnableFails DEF EnableInv

LEMMA ReplaceSignatureStep == EnableInv /\ ReplaceSignature => EnableInv'
<1> SUFFICES ASSUME EnableInv, ReplaceSignature PROVE EnableInv'
  OBVIOUS
<1>1. /\ sig_fd = "open" /\ sig_file' \in SigFiles /\ changes' = changes + 1
      /\ contents' = contents \cup {sig_file'}
      /\ pc' = pc /\ i' = i /\ cmd' = cmd /\ sig' = sig /\ sig_size' = sig_size
      /\ file_size' = file_size /\ buf' = buf /\ sig_fd' = sig_fd
      /\ verity' = verity /\ close_failed' = close_failed /\ tree_params' = tree_params
  BY Zenon DEF ReplaceSignature, paramvars
<1>2. EnableParsed /\ EnableSig /\ pc \in {"sig_stat", "sig_read"} /\ changes \in Nat
  BY Zenon, <1>1 DEF EnableInv, EnableSig
<1>3. changes' \in Nat /\ changes' # 0
  BY <1>1, <1>2
<1>4. sig_file' \in Seq(SigBytes)
  BY Zenon, <1>1, SigFilesAssumption DEF SigBytes
<1>5. sig_file' \in contents' /\ \A c \in contents : c \in contents'
  BY Zenon, <1>1
<1>6. pc = "sig_read" => FromFile(buf)'
  BY Zenon, <1>1, <1>2, <1>5 DEF EnableSig, FromFile
<1>7. EnableSig'
  BY Zenon, <1>1, <1>2, <1>3, <1>4, <1>5, <1>6 DEF EnableSig
<1>8. EnableParsed'
  BY Zenon, <1>1, <1>2 DEF EnableParsed
<1> QED
  BY Zenon, <1>1, <1>2, <1>7, <1>8, EnableGoesOn DEF EnableInv

LEMMA EnableOptionsDoneStep == EnableInv /\ EnableOptionsDone => EnableInv'
<1> SUFFICES ASSUME EnableInv, EnableOptionsDone PROVE EnableInv'
  OBVIOUS
<1>1. /\ pc = "options" /\ i > Len(cmd.opts)
      /\ i' = i /\ cmd' = cmd /\ sig' = sig /\ sig_size' = sig_size
      /\ sig_file' = sig_file /\ file_size' = file_size /\ buf' = buf /\ sig_fd' = sig_fd
      /\ changes' = changes /\ contents' = contents /\ verity' = verity /\ close_failed' = close_failed
      /\ tree_params' = tree_params
      /\ pc' = "open" \/ (pc' = "out" /\ status' = 2)
  BY Zenon DEF EnableOptionsDone, reader, paramvars, Usage, Goto
<1>2. EnableParsed /\ EnableSig /\ cmd \in CommandLines /\ i \in 1 .. Len(cmd.opts) + 1
  BY Zenon, <1>1 DEF EnableInv, EnableParsed
<1>3. Len(cmd.opts) \in Nat
  BY Zenon, <1>2, OptionsAssumption
<1>4. i = Len(cmd.opts) + 1
  BY <1>1, <1>2, <1>3
<1>5. EnableSig'
  BY Zenon, <1>1, <1>2 DEF EnableSig, Whole, FromFile
<1>6. CASE pc' = "open"
  <2>1. EnableParsed'
    BY Zenon, <1>1, <1>2, <1>4, <1>6 DEF EnableParsed
  <2> QED
    BY Zenon, <1>1, <1>5, <1>6, <2>1, EnableGoesOn DEF EnableInv
<1>7. CASE pc' = "out" /\ status' = 2
  BY Zenon, <1>1, <1>5, <1>7, EnableFails DEF EnableInv
<1> QED
  BY Zenon, <1>1, <1>6, <1>7

LEMMA OpenFileStep == EnableInv /\ OpenFile => EnableInv'
<1> SUFFICES ASSUME EnableInv, OpenFile PROVE EnableInv'
  OBVIOUS
<1>1. /\ pc = "open" /\ i' = i /\ cmd' = cmd /\ sig' = sig /\ sig_size' = sig_size
      /\ sig_file' = sig_file /\ file_size' = file_size /\ buf' = buf /\ sig_fd' = sig_fd
      /\ changes' = changes /\ contents' = contents /\ verity' = verity /\ close_failed' = close_failed
      /\ tree_params' = tree_params
      /\ pc' = "enable" \/ (pc' = "out" /\ status' = 1)
  BY Zenon DEF OpenFile, reader, paramvars, OutErr, Goto
<1>2. EnableParsed /\ EnableSig
  BY Zenon DEF EnableInv
<1>3. EnableSig'
  BY Zenon, <1>1, <1>2 DEF EnableSig, Whole, FromFile
<1>4. CASE pc' = "enable"
  <2>1. EnableParsed'
    BY Zenon, <1>1, <1>2, <1>4 DEF EnableParsed
  <2> QED
    BY Zenon, <1>1, <1>3, <1>4, <2>1, EnableGoesOn DEF EnableInv
<1>5. CASE pc' = "out" /\ status' = 1
  BY Zenon, <1>1, <1>3, <1>5, EnableFails DEF EnableInv
<1> QED
  BY Zenon, <1>1, <1>4, <1>5

LEMMA ParsedTypes ==
  ASSUME NEW c \in CommandLines, NEW p, ParsedFrom(p, c.opts, Len(c.opts))
  PROVE  BlockSizeOf(p) \in BlockSizes /\ p.salt_size \in Nat
<1>1. DOMAIN c.opts = 1 .. Len(c.opts) /\ \A k \in DOMAIN c.opts : c.opts[k].n \in Nat
  BY Zenon, OptionsAssumption
<1>2. BlockSizeOf(p) \in BlockSizes
  <2>1. CASE p.block_size = 0
    BY Zenon, <2>1 DEF BlockSizeOf, BlockSizes
  <2>2. CASE p.block_size # 0
    <3>1. PICK k : Once(c.opts, Len(c.opts), "block-size", k) /\ p.block_size = c.opts[k].n
      BY Zenon, <2>2 DEF ParsedFrom
    <3>2. p.block_size \in {c.opts[m].n : m \in DOMAIN c.opts}
      BY Zenon, <1>1, <3>1 DEF Once
    <3> QED
      BY Zenon, <2>2, <3>2 DEF BlockSizeOf, BlockSizes
  <2> QED
    BY Zenon, <2>1, <2>2
<1>3. p.salt_size \in Nat
  <2>1. \A n \in Nat : n \div 2 \in Nat
    OBVIOUS
  <2>2. 0 \in Nat
    OBVIOUS
  <2> QED
    BY ZenonT(30), <1>1, <2>1, <2>2 DEF ParsedFrom, Once
<1> QED
  BY Zenon, <1>2, <1>3

\* The ioctl gets the parameters of the options and the signature that was read.
LEMMA EnableStep == EnableInv /\ Enable => EnableInv'
<1> SUFFICES ASSUME EnableInv, Enable PROVE EnableInv'
  OBVIOUS
<1>1. /\ pc = "enable" /\ i' = i /\ cmd' = cmd /\ sig' = sig /\ sig_size' = sig_size
      /\ sig_file' = sig_file /\ file_size' = file_size /\ buf' = buf /\ sig_fd' = sig_fd
      /\ changes' = changes /\ contents' = contents /\ close_failed' = close_failed
      /\ tree_params' = tree_params
      /\ \/ KernelEnables(EnableArg(tree_params, sig, sig_size)) /\ pc' = "close"
         \/ pc' = "out" /\ status' = 1 /\ verity' = verity
  BY Zenon DEF Enable, reader, paramvars, OutErr, Goto
<1>2. EnableParsed /\ EnableSig /\ ~close_failed
  BY Zenon, <1>1 DEF EnableInv, EnableStatus
<1>3. EnableSig'
  BY Zenon, <1>1, <1>2 DEF EnableSig, Whole, FromFile
<1>4. CASE pc' = "out" /\ status' = 1 /\ verity' = verity
  BY Zenon, <1>1, <1>3, <1>4, EnableFails DEF EnableInv
<1>5. CASE KernelEnables(EnableArg(tree_params, sig, sig_size)) /\ pc' = "close"
  <2> DEFINE p == tree_params
             n == sig_size % U32
             copy == [k \in 1 .. n |-> IF k \in DOMAIN sig THEN sig[k] ELSE 0]
  <2>1. /\ KnownHashAlg(HashAlgOf(p)) /\ IsPowerOf2(BlockSizeOf(p))
        /\ verity' = [hash_algorithm |-> HashAlgOf(p), log_blocksize |-> Ilog2(BlockSizeOf(p)),
                      salt_size |-> p.salt_size, sig |-> copy]
    BY Zenon, <1>5 DEF KernelEnables, EnableArg, HashAlgOf, BlockSizeOf
  <2>2. /\ cmd \in CommandLines /\ ParsedFrom(p, cmd.opts, i - 1) /\ i = Len(cmd.opts) + 1
        /\ IF sig = <<>> THEN Absent(cmd.opts, i - 1, "signature")
           ELSE \E k \in 1 .. i - 1 : cmd.opts[k].opt = "signature"
    BY Zenon, <1>1, <1>2 DEF EnableParsed
  <2>3. Len(cmd.opts) \in Nat /\ DOMAIN cmd.opts = 1 .. Len(cmd.opts)
    BY Zenon, <2>2, OptionsAssumption
  <2>4. i - 1 = Len(cmd.opts)
    BY <2>2, <2>3
  <2>5. /\ ParsedFrom(p, cmd.opts, Len(cmd.opts))
        /\ (sig # <<>>) <=> \E k \in DOMAIN cmd.opts : cmd.opts[k].opt = "signature"
    BY Zenon, <2>2, <2>3, <2>4 DEF Absent
  <2>6. IF sig = <<>> THEN sig_size = 0 ELSE Whole(sig) /\ sig_size = Len(sig)
    BY Zenon, <1>2 DEF EnableSig
  <2>7. sig \in Seq(SigBytes) /\ sig_size = Len(sig) /\ sig_size \in Nat /\ sig_size <= MaxSigSize
    <3>1. CASE sig = <<>>
      BY <2>6, <3>1, SigSizeAssumption
    <3>2. CASE sig # <<>>
      <4>1. sig \in Seq(SigBytes) /\ sig_size = Len(sig) /\ sig_size \in 1 .. MaxSigSize
        BY Zenon, <2>6, <3>2 DEF Whole
      <4> QED
        BY <4>1, SigSizeAssumption
    <3> QED
      BY Zenon, <3>1, <3>2
  <2>8. n = sig_size
    BY <2>7, SigSizeAssumption
  <2>9. copy = sig
    <3> HIDE DEF n
    <3>1. sig \in Seq(SigBytes) /\ n = Len(sig)
      BY Zenon, <2>7, <2>8
    <3> QED
      BY <3>1
  <2> HIDE DEF n, copy
  <2>10. /\ verity'.hash_algorithm = HashAlgOf(p)
         /\ verity'.log_blocksize = Ilog2(BlockSizeOf(p))
         /\ verity'.salt_size = p.salt_size /\ verity'.sig = sig
    BY Zenon, <2>1, <2>9
  <2>11. AsGiven(cmd.opts, verity')
    BY Zenon, <2>1, <2>2, <2>5, <2>10, AsAsked
  <2>12. EnabledAsAsked'
    BY Zenon, <1>1, <2>11 DEF EnabledAsAsked
  <2>13. SignatureFromFile'
    <3>1. CASE sig = <<>>
      BY Zenon, <1>1, <2>5, <2>10, <3>1 DEF SignatureFromFile
    <3>2. CASE sig # <<>>
      <4>1. Whole(sig) /\ \E k \in DOMAIN cmd.opts : cmd.opts[k].opt = "signature"
        BY Zenon, <2>5, <2>6, <3>2
      <4> QED
        BY Zenon, <1>1, <2>10, <4>1 DEF SignatureFromFile, Whole, FromFile
    <3> QED
      BY Zenon, <3>1, <3>2
  <2>14. verity' # NoVerity
    <3>1. HashAlgOf(p) \in Nat
      BY Zenon, <2>1, TableAssumption DEF KnownHashAlg
    <3>2. BlockSizeOf(p) \in BlockSizes /\ p.salt_size \in Nat
      BY Zenon, <2>2, <2>5, ParsedTypes
    <3>3. Ilog2(BlockSizeOf(p)) \in 0 .. BlockSizeOf(p) /\ BlockSizeOf(p) \in Nat
      BY Zenon, <2>1, <3>2, LogOfPower, PowersAssumption DEF BlockSizes
    <3>4. Ilog2(BlockSizeOf(p)) \in Nat
      BY <3>3
    <3>5. sig \in Seq(Nat)
      <4>1. sig \in Seq(SigBytes)
        BY Zenon, <2>7
      <4> QED
        BY <4>1 DEF SigBytes
    <3>6. verity' \in [hash_algorithm : Nat, log_blocksize : Nat, salt_size : Nat, sig : Seq(Nat)]
      BY Zenon, <2>1, <2>9, <3>1, <3>2, <3>4, <3>5
    <3> QED
      BY Zenon, <3>6, NoVerityAssumption
  <2>15. EnableStatus'
    BY Zenon, <1>1, <1>2, <1>5, <2>14 DEF EnableStatus
  <2>16. EnableParsed'
    BY Zenon, <1>1, <1>5, <2>2 DEF EnableParsed
  <2> QED
    BY Zenon, <1>3, <2>12, <2>13, <2>15, <2>16 DEF EnableInv
<1> QED
  BY Zenon, <1>1, <1>4, <1>5

LEMMA CloseFileStep == EnableInv /\ CloseFile => EnableInv'
<1> SUFFICES ASSUME EnableInv, CloseFile PROVE EnableInv'
  OBVIOUS
<1>1. /\ pc = "close" /\ i' = i /\ cmd' = cmd /\ sig' = sig /\ sig_size' = sig_size
      /\ sig_file' = sig_file /\ file_size' = file_size /\ buf' = buf /\ sig_fd' = sig_fd
      /\ changes' = changes /\ contents' = contents /\ verity' = verity /\ pc' = "out"
      /\ IF close_failed' THEN status' = 1 ELSE status' = 0
  BY Zenon DEF CloseFile, reader, paramvars, OutErr
<1>2. cmd \in CommandLines /\ EnableSig /\ verity # NoVerity
  BY Zenon, <1>1 DEF EnableInv, EnableParsed, EnableStatus
<1>3. EnableSig'
  BY Zenon, <1>1, <1>2 DEF EnableSig, Whole, FromFile
<1>4. EnableParsed'
  BY Zenon, <1>1, <1>2 DEF EnableParsed
<1>5. 1 # 0
  OBVIOUS
<1>6. EnableStatus'
  BY Zenon, <1>1, <1>2, <1>5 DEF EnableStatus
<1> QED
  BY Zenon, <1>1, <1>3, <1>4, <1>6, StaysEnabled DEF EnableInv

\* The steps after the status is final
LEMMA EnableEnds ==
  ASSUME EnableInv, pc \in {"out", "free"}, pc' \in {"free", "exit"}, status' = status,
         UNCHANGED <<cmd, i, reader, file, verity, close_failed>>
  PROVE  EnableInv'
<1>1. /\ cmd' = cmd /\ sig' = sig /\ sig_size' = sig_size
      /\ sig_file' = sig_file /\ file_size' = file_size /\ buf' = buf /\ sig_fd' = sig_fd
      /\ changes' = changes /\ contents' = contents /\ verity' = verity /\ close_failed' = close_failed
  BY Zenon DEF reader
<1>2. cmd \in CommandLines /\ EnableSig /\ EnableStatus
  BY Zenon, <1>1 DEF EnableInv, EnableParsed
<1>3. EnableSig'
  BY Zenon, <1>1, <1>2 DEF EnableSig, Whole, FromFile
<1>4. EnableParsed'
  BY Zenon, <1>1, <1>2 DEF EnableParsed
<1>5. EnableStatus'
  <2>1. pc' \notin {"close"} /\ pc' \in {"out", "free", "exit"}
    BY Zenon
  <2>2. close_failed' <=> close_failed
    BY <1>1
  <2>3. /\ status = 0 => verity # NoVerity /\ ~close_failed
        /\ verity # NoVerity /\ status # 0 => status = 1 /\ close_failed
    BY Zenon, <1>2 DEF EnableStatus
  <2>4. /\ status' = 0 => verity' # NoVerity /\ ~close_failed'
        /\ verity' # NoVerity /\ status' # 0 => status' = 1 /\ close_failed'
    BY Zenon, <1>1, <2>2, <2>3
  <2> QED
    BY Zenon, <2>1, <2>4 DEF EnableStatus
<1> QED
  BY Zenon, <1>1, <1>3, <1>4, <1>5, StaysEnabled DEF EnableInv

LEMMA EnableNext == EnableInv /\ [CmdEnableNext]_enablevars => EnableInv'
<1> SUFFICES ASSUME EnableInv, [CmdEnableNext]_enablevars PROVE EnableInv'
  OBVIOUS
<1>1. CASE CmdEnableOut
  BY Zenon, <1>1, EnableEnds DEF CmdEnableOut, Goto
<1>2. CASE FreeSignature
  BY Zenon, <1>2, EnableEnds DEF FreeSignature, Goto
<1>3. CASE UNCHANGED enablevars
  <2>1. /\ pc' = pc /\ i' = i /\ cmd' = cmd /\ sig' = sig /\ sig_size' = sig_size
        /\ sig_file' = sig_file /\ file_size' = file_size /\ buf' = buf /\ sig_fd' = sig_fd
        /\ changes' = changes /\ contents' = contents /\ verity' = verity /\ close_failed' = close_failed
        /\ status' = status /\ tree_params' = tree_params
    BY Zenon, <1>3 DEF enablevars, reader, paramvars
  <2> QED
    BY Zenon, <2>1 DEF EnableInv, EnableParsed, EnableSig, Whole, FromFile, EnableStatus,
      EnabledAsAsked, SignatureFromFile
<1> QED
  BY Zenon, <1>1, <1>2, <1>3, EnableOptionStep, EnableSignatureStep, OpenSignatureStep,
    StatSignatureStep, ReadSignatureStep, SignatureReadStep, SignatureReadFailsStep,
    ReplaceSignatureStep, EnableOptionsDoneStep, OpenFileStep, EnableStep, CloseFileStep
    DEF CmdEnableNext, CmdEnableStep, CmdEnableExited

LEMMA EnableInvariance == CmdEnableSpec => []EnableInv
BY EnableInit, EnableNext, PTL DEF CmdEnableSpec

(***************************************************************************)
(* fsverity enable: whatever the command line, the ioctl gets the hash     *)
(* algorithm, block size and salt size that its options give, or the       *)
(* defaults.                                                               *)
(***************************************************************************)
THEOREM EnableAsAsked == CmdEnableSpec => []EnabledAsAsked
<1>1. EnableInv => EnabledAsAsked
  BY Zenon DEF EnableInv
<1> QED
  BY <1>1, EnableInvariance, PTL

(***************************************************************************)
(* However often the signature file is replaced while read_signature()     *)
(* reads it, the kernel is given as many bytes as were allowed and read,   *)
(* each from its place in the file, and the file itself if it was not      *)
(* replaced.                                                               *)
(***************************************************************************)
THEOREM EnableSignatureRead == CmdEnableSpec => []SignatureFromFile
<1>1. EnableInv => SignatureFromFile
  BY Zenon DEF EnableInv
<1> QED
  BY <1>1, EnableInvariance, PTL

(***************************************************************************)
(* The exit status of fsverity enable tells whether verity is enabled.     *)
(***************************************************************************)
THEOREM EnableStatusIsTrue == CmdEnableSpec => []EnableStatusTells
<1>1. EnableInv => EnableStatusTells
  BY Zenon DEF EnableInv, EnableStatus, EnableStatusTells
<1> QED
  BY <1>1, EnableInvariance, PTL

----------------------------------------------------------------------------
\* fsverity sign.

\* The signing options keys are what the first n options ask for.
KeysFrom(keys, opts, n) ==
  /\ DOMAIN keys = SigOptions
  /\ \A o \in SigOptions :
       IF keys[o] = "NULL" THEN Absent(opts, n, o)
       ELSE \E k : Once(opts, n, o, k) /\ keys[o] = opts[k].name

\* The signing options, from all of them and with the certificate's default
CertAsked == IF Arg("cert") # "NULL" THEN Arg("cert") ELSE Arg("key")

SignParsed ==
  /\ cmd \in CommandLines
  /\ pc \in {"options", "open", "stat", "compute"} =>
       i \in 1 .. Len(cmd.opts) + 1 /\ ParsedFrom(tree_params, cmd.opts, i - 1)
  /\ pc = "options" => KeysFrom(sig_params, cmd.opts, i - 1)
  /\ pc \in {"open", "stat", "compute"} => i = Len(cmd.opts) + 1
  /\ pc \in {"open", "stat", "compute", "computing"} =>
       /\ sig_params["key"] = Arg("key") /\ sig_params["cert"] = CertAsked
       /\ sig_params["pkcs11-keyid"] = Arg("pkcs11-keyid")
  /\ pc = "compute" => tree_params.file_size = size
  /\ pc = "computing" =>
       /\ ParsedFrom(call, cmd.opts, Len(cmd.opts)) /\ call.file_size = size
       /\ result = "ok" => Lib!Acceptable(call)

\* A descriptor of a file of this size, with the tree options given
DescAsked(desc) == desc.data_size = size /\ AsGiven(cmd.opts, desc)

\* signature is what was asked for.
SignedAsAsked ==
  /\ DescAsked(signature.signed.of)
  /\ signature.key = IF Arg("key") # "NULL" THEN Arg("key") ELSE Arg("pkcs11-keyid")
  /\ signature.cert = CertAsked

SignSigned ==
  /\ pc = "signing" =>
       /\ DescAsked(sign_call.digest.of)
       /\ sign_call.keyfile = Arg("key") /\ sign_call.keyid = Arg("pkcs11-keyid")
       /\ sign_call.certfile = CertAsked
       /\ sign_result = "ok" => SignedAsAsked
  /\ pc \in {"open_sig", "write", "close", "print"} => sign_result = "ok" /\ SignedAsAsked
  /\ pc \in {"out", "free", "exit"} /\ status = 0 => SignedAsAsked

\* The output files: a failure of one of them is not lost on the way.
SignFailure ==
  /\ io_failed \in BOOLEAN
  /\ pc \in {"options", "open", "stat", "compute", "signing", "open_sig", "write", "close",
             "print"} => ~io_failed
  /\ pc = "computing" /\ result # "failed" => ~io_failed
  /\ pc \in {"out", "free", "exit"} /\ status = 0 => ~io_failed

SignFile ==
  /\ pc \notin {"out", "free", "exit"} => status = 0 /\ printed = FALSE
  /\ pc \notin {"write", "close", "print", "out", "free", "exit"} => sig_out = "old"
  /\ sig_out # "old" => sign_result = "ok"
  /\ pc \notin {"close", "print", "out", "free", "exit"} => ok = TRUE
  /\ pc = "close" => ok \in BOOLEAN /\ (ok => sig_out = "whole")
  /\ pc = "print" => sig_out = "whole" /\ sig_out_fd = "closed"
  /\ pc \in {"out", "free", "exit"} =>
       /\ status = 0 => printed /\ sig_out = "whole"
       /\ sig_out \in {"empty", "torn"} => status = 1
  /\ printed => sig_out = "whole" /\ sig_out_fd = "closed"

SignInv == SignParsed /\ SignSigned /\ SignFailure /\ SignFile

ArgOf(opts, opt) ==
  LET K == {k \in DOMAIN opts : opts[k].opt = opt}
  IN  IF K = {} THEN "NULL" ELSE opts[CHOOSE k \in K : TRUE].name

LEMMA ArgKept ==
  ASSUME cmd' = cmd
  PROVE  (\A o : Arg(o)' = Arg(o)) /\ CertAsked' = CertAsked
<1>1. \A o : Arg(o)' = Arg(o)
  <2>1. \A o : Arg(o) = ArgOf(cmd.opts, o) /\ Arg(o)' = ArgOf(cmd'.opts, o)
    BY Zenon DEF Arg, ArgOf
  <2> QED
    BY Zenon, <2>1
<1> QED
  BY Zenon, <1>1 DEF CertAsked

\* The argument of an option that was parsed
LEMMA ArgParsed ==
  ASSUME NEW o \in SigOptions, cmd \in CommandLines, KeysFrom(sig_params, cmd.opts, Len(cmd.opts))
  PROVE  sig_params[o] = Arg(o)
<1> DEFINE K == {k \in DOMAIN cmd.opts : cmd.opts[k].opt = o}
<1>1. DOMAIN cmd.opts = 1 .. Len(cmd.opts)
  BY Zenon, OptionsAssumption
<1>2. CASE sig_params[o] = "NULL"
  <2>1. Absent(cmd.opts, Len(cmd.opts), o)
    BY Zenon, <1>2 DEF KeysFrom
  <2>2. K = {}
    BY Zenon, <1>1, <2>1 DEF Absent
  <2> QED
    BY Zenon, <1>2, <2>2 DEF Arg
<1>3. CASE sig_params[o] # "NULL"
  <2>1. PICK k : Once(cmd.opts, Len(cmd.opts), o, k) /\ sig_params[o] = cmd.opts[k].name
    BY Zenon, <1>3 DEF KeysFrom
  <2>2. K # {} /\ \A m \in K : m = k
    BY Zenon, <1>1, <2>1 DEF Once
  <2>3. (CHOOSE m \in K : TRUE) = k
    BY Zenon, <2>2
  <2> QED
    BY Zenon, <2>1, <2>2, <2>3 DEF Arg
<1> QED
  BY Zenon, <1>2, <1>3

\* A step on the way to the signature, before the signature file is touched
LEMMA SignFileKept ==
  ASSUME SignInv, pc \in {"options", "open", "stat", "compute", "computing", "signing"},
         pc' \in {"options", "open", "stat", "compute", "computing", "signing", "open_sig"},
         status' = status, UNCHANGED outvars
  PROVE  SignFile'
<1>1. /\ sig_out' = sig_out /\ sig_out_fd' = sig_out_fd /\ ok' = ok /\ printed' = printed
      /\ sig_out = "old" /\ ok = TRUE /\ printed = FALSE /\ status = 0
  BY Zenon DEF outvars, SignInv, SignFile
<1> QED
  BY Zenon, <1>1 DEF SignFile

LEMMA SignFailureKept ==
  ASSUME SignInv, pc \in {"options", "open", "stat", "compute", "signing"},
         pc' \in {"options", "open", "stat", "compute", "computing", "signing", "open_sig"},
         io_failed' = io_failed
  PROVE  SignFailure'
<1>1. io_failed = FALSE
  BY Zenon DEF SignInv, SignFailure
<1> QED
  BY Zenon, <1>1 DEF SignFailure

\* An early step to the label out
LEMMA SignFails ==
  ASSUME SignInv, pc \in {"options", "open", "stat", "computing", "signing", "open_sig"},
         pc' = "out", status' \in {1, 2}, cmd' = cmd, io_failed' \in BOOLEAN,
         UNCHANGED outvars
  PROVE  SignInv'
<1>1. /\ sig_out' = sig_out /\ sig_out_fd' = sig_out_fd /\ ok' = ok /\ printed' = printed
      /\ sig_out = "old" /\ printed = FALSE /\ cmd \in CommandLines
  BY Zenon DEF outvars, SignInv, SignFile, SignParsed
<1>2. status' # 0
  OBVIOUS
<1>3. SignParsed' /\ SignSigned' /\ SignFailure'
  BY Zenon, <1>1, <1>2 DEF SignParsed, SignSigned, SignFailure
<1>4. SignFile'
  BY Zenon, <1>1, <1>2 DEF SignFile
<1> QED
  BY Zenon, <1>3, <1>4 DEF SignInv

LEMMA ParamsStart ==
  ASSUME ParamsInit, cmd \in CommandLines
  PROVE  /\ 1 \in 1 .. Len(cmd.opts) + 1 /\ ParsedFrom(tree_params, cmd.opts, 1 - 1)
         /\ \A opt : Absent(cmd.opts, 1 - 1, opt)
<1>1. tree_params = [pointers |-> TRUE, version |-> 1, reserved_zero |-> TRUE,
                     hash_algorithm |-> 0, block_size |-> 0, file_size |-> 0,
                     salt_size |-> 0, salt |-> FALSE, cbs |-> {}]
  BY Zenon DEF ParamsInit
<1>2. /\ DOMAIN tree_params = ParamFields /\ tree_params.version = 1
      /\ tree_params.hash_algorithm = 0 /\ tree_params.block_size = 0
      /\ tree_params.salt = FALSE /\ tree_params.salt_size = 0
  BY <1>1 DEF ParamFields
<1>3. 1 - 1 = 0 /\ 1 .. 0 = {}
  OBVIOUS
<1>4. \A opt : Absent(cmd.opts, 1 - 1, opt)
  BY Zenon, <1>3 DEF Absent
<1>5. Len(cmd.opts) \in Nat
  BY Zenon, OptionsAssumption
<1>6. 1 \in 1 .. Len(cmd.opts) + 1
  BY <1>5
<1> QED
  BY Zenon, <1>2, <1>4, <1>6 DEF ParsedFrom

LEMMA SignInit == CmdSignInit => SignInv
<1> SUFFICES ASSUME CmdSignInit PROVE SignInv
  OBVIOUS
<1>1. /\ ParamsInit /\ cmd \in CommandLines /\ pc = "options" /\ i = 1
      /\ sig_params = [o \in SigOptions |-> "NULL"] /\ sig_out = "old" /\ ok = TRUE
      /\ printed = FALSE /\ status = 0 /\ io_failed = FALSE
  BY Zenon DEF CmdSignInit, ParamsInit
<1>2. KeysFrom(sig_params, cmd.opts, i - 1)
  BY Zenon, <1>1, ParamsStart DEF KeysFrom
<1>3. SignParsed
  BY Zenon, <1>1, <1>2, ParamsStart DEF SignParsed
<1> QED
  BY Zenon, <1>1, <1>3 DEF SignInv, SignSigned, SignFailure, SignFile

\* The next option is one of the tree's, or not.
LEMMA NextOption ==
  ASSUME cmd \in CommandLines, cmd' = cmd, i \in 1 .. Len(cmd.opts) + 1, i <= Len(cmd.opts),
         i' = i + 1
  PROVE  /\ i - 1 \in Nat /\ (i - 1) + 1 = i /\ i' - 1 = (i - 1) + 1
         /\ i \in DOMAIN cmd.opts /\ i' \in 1 .. Len(cmd'.opts) + 1
<1>1. Len(cmd.opts) \in Nat /\ DOMAIN cmd.opts = 1 .. Len(cmd.opts)
  BY Zenon, OptionsAssumption
<1>2. /\ i - 1 \in Nat /\ (i - 1) + 1 = i /\ i' - 1 = (i - 1) + 1
      /\ i \in 1 .. Len(cmd.opts) /\ i' \in 1 .. Len(cmd.opts) + 1
  BY <1>1
<1> QED
  BY Zenon, <1>1, <1>2

LEMMA NextTreeOption ==
  ASSUME cmd \in CommandLines, cmd' = cmd, i \in 1 .. Len(cmd.opts) + 1, i <= Len(cmd.opts),
         i' = i + 1, ParsedFrom(tree_params, cmd.opts, i - 1), cmd.opts[i].opt \in TreeOptions,
         ParseTreeParam(cmd.opts[i], TRUE)
  PROVE  ParsedFrom(tree_params', cmd'.opts, i' - 1)
<1> DEFINE n == i - 1
<1>1. n \in Nat /\ n + 1 = i /\ i' - 1 = n + 1 /\ ParsedFrom(tree_params, cmd.opts, n)
  BY Zenon, NextOption
<1> HIDE DEF n
<1>2. cmd.opts[n + 1].opt \in TreeOptions /\ ParseTreeParam(cmd.opts[n + 1], TRUE)
  BY Zenon, <1>1
<1>3. ParsedFrom(tree_params', cmd.opts, n + 1)
  BY Zenon, <1>1, <1>2, ParamParsed
<1> QED
  BY Zenon, <1>1, <1>3

LEMMA NextOtherOption ==
  ASSUME cmd \in CommandLines, cmd' = cmd, i \in 1 .. Len(cmd.opts) + 1, i <= Len(cmd.opts),
         i' = i + 1, ParsedFrom(tree_params, cmd.opts, i - 1), cmd.opts[i].opt \notin TreeOptions,
         tree_params' = tree_params
  PROVE  ParsedFrom(tree_params', cmd'.opts, i' - 1)
<1> DEFINE n == i - 1
<1>1. n \in Nat /\ n + 1 = i /\ i' - 1 = n + 1 /\ ParsedFrom(tree_params, cmd.opts, n)
  BY Zenon, NextOption
<1> HIDE DEF n
<1>2. /\ cmd.opts[n + 1].opt # "hash-alg" /\ cmd.opts[n + 1].opt # "block-size"
      /\ cmd.opts[n + 1].opt # "salt"
  BY Zenon, <1>1 DEF TreeOptions
<1>3. ParsedFrom(tree_params, cmd.opts, n + 1)
  BY Zenon, <1>1, <1>2, FieldsKept
<1> QED
  BY Zenon, <1>1, <1>3

LEMMA NextKey ==
  ASSUME NEW keys, NEW more, NEW opts, NEW n \in Nat, KeysFrom(keys, opts, n),
         DOMAIN more = SigOptions,
         \A o \in SigOptions :
           IF opts[n + 1].opt = o
             THEN keys[o] = "NULL" /\ more[o] = opts[n + 1].name /\ more[o] # "NULL"
             ELSE more[o] = keys[o]
  PROVE  KeysFrom(more, opts, n + 1)
<1>1. ASSUME NEW o \in SigOptions
      PROVE  IF more[o] = "NULL" THEN Absent(opts, n + 1, o)
             ELSE \E k : Once(opts, n + 1, o, k) /\ more[o] = opts[k].name
  <2>1. CASE opts[n + 1].opt # o
    <3>1. /\ more[o] = keys[o]
          /\ IF keys[o] = "NULL" THEN Absent(opts, n, o)
             ELSE \E k : Once(opts, n, o, k) /\ keys[o] = opts[k].name
      BY Zenon, <1>1, <2>1 DEF KeysFrom
    <3> QED
      BY Zenon, <2>1, <3>1, StillAbsent, StillOnce
  <2>2. CASE opts[n + 1].opt = o
    BY Zenon, <1>1, <2>2, NowOnce DEF KeysFrom
  <2> QED
    BY Zenon, <2>1, <2>2
<1> QED
  BY Zenon, <1>1 DEF KeysFrom

LEMMA ParseSignOptionStep == SignInv /\ ParseSignOption => SignInv'
<1> SUFFICES ASSUME SignInv, ParseSignOption PROVE SignInv'
  OBVIOUS
<1>1. PICK accepted \in BOOLEAN :
        ParseTreeParam(cmd.opts[i], accepted) /\ IF accepted THEN Goto("options") ELSE Usage
  BY Zenon DEF ParseSignOption
<1>2. /\ pc = "options" /\ i <= Len(cmd.opts) /\ cmd.opts[i].opt \in TreeOptions
      /\ i' = i + 1 /\ cmd' = cmd /\ sig_params' = sig_params /\ UNCHANGED outvars
      /\ cmd \in CommandLines /\ i \in 1 .. Len(cmd.opts) + 1
      /\ ParsedFrom(tree_params, cmd.opts, i - 1) /\ KeysFrom(sig_params, cmd.opts, i - 1)
  BY Zenon DEF ParseSignOption, SignInv, SignParsed
<1>3. io_failed' = io_failed /\ io_failed \in BOOLEAN
  BY Zenon, <1>1, <1>2 DEF ParseTreeParam, ParseHashAlg, ParseBlockSize, ParseSalt, ParseOut,
    TreeOptions, SignInv, SignFailure
<1>4. CASE ~accepted
  BY Zenon, <1>1, <1>2, <1>3, <1>4, SignFails DEF Usage
<1>5. CASE accepted
  <2>1. pc' = "options" /\ status' = status /\ ParseTreeParam(cmd.opts[i], TRUE)
    BY Zenon, <1>1, <1>5 DEF Goto
  <2>2. ParsedFrom(tree_params', cmd'.opts, i' - 1)
    BY Zenon, <1>2, <2>1, NextTreeOption
  <2>3. KeysFrom(sig_params', cmd'.opts, i' - 1)
    <3> DEFINE n == i - 1
    <3>1. n \in Nat /\ n + 1 = i /\ i' - 1 = n + 1 /\ KeysFrom(sig_params, cmd.opts, n)
      BY Zenon, <1>2, NextOption
    <3> HIDE DEF n
    <3>2. cmd.opts[n + 1].opt \notin SigOptions /\ DOMAIN sig_params = SigOptions
      BY Zenon, <1>2, <3>1 DEF TreeOptions, SigOptions, KeysFrom
    <3>3. KeysFrom(sig_params, cmd.opts, n + 1)
      BY Zenon, <3>1, <3>2, NextKey
    <3> QED
      BY Zenon, <1>2, <3>1, <3>3
  <2>4. SignParsed'
    BY Zenon, <1>2, <2>1, <2>2, <2>3, NextOption DEF SignParsed
  <2>5. SignSigned'
    BY Zenon, <2>1 DEF SignSigned
  <2> QED
    BY Zenon, <1>2, <1>3, <2>1, <2>4, <2>5, SignFileKept, SignFailureKept DEF SignInv
<1> QED
  BY Zenon, <1>4, <1>5

LEMMA ParseKeyOptionStep == SignInv /\ ParseKeyOption => SignInv'
<1> SUFFICES ASSUME SignInv, ParseKeyOption PROVE SignInv'
  OBVIOUS
<1> DEFINE o == cmd.opts[i]
<1>1. /\ pc = "options" /\ i <= Len(cmd.opts)
      /\ i' = i + 1 /\ cmd' = cmd /\ UNCHANGED outvars /\ tree_params' = tree_params
      /\ io_failed' = io_failed
      /\ \/ /\ o.opt \in SigOptions /\ sig_params[o.opt] = "NULL"
            /\ sig_params' = [sig_params EXCEPT ![o.opt] = o.name]
            /\ pc' = "options" /\ status' = status
         \/ pc' = "out" /\ status' = 2
  BY Zenon DEF ParseKeyOption, paramvars, Goto, Usage
<1>2. /\ cmd \in CommandLines /\ i \in 1 .. Len(cmd.opts) + 1
      /\ ParsedFrom(tree_params, cmd.opts, i - 1) /\ KeysFrom(sig_params, cmd.opts, i - 1)
      /\ io_failed \in BOOLEAN
  BY Zenon, <1>1 DEF SignInv, SignParsed, SignFailure
<1>3. CASE pc' = "out" /\ status' = 2
  BY Zenon, <1>1, <1>2, <1>3, SignFails
<1>4. CASE /\ o.opt \in SigOptions /\ sig_params[o.opt] = "NULL"
           /\ sig_params' = [sig_params EXCEPT ![o.opt] = o.name]
           /\ pc' = "options" /\ status' = status
  <2>1. ParsedFrom(tree_params', cmd'.opts, i' - 1)
    <3>1. cmd.opts[i].opt \notin TreeOptions
      BY Zenon, <1>4 DEF TreeOptions, SigOptions
    <3> QED
      BY Zenon, <1>1, <1>2, <3>1, NextOtherOption
  <2>2. KeysFrom(sig_params', cmd'.opts, i' - 1)
    <3> DEFINE n == i - 1
    <3>1. /\ n \in Nat /\ n + 1 = i /\ i' - 1 = n + 1 /\ i \in DOMAIN cmd.opts
          /\ KeysFrom(sig_params, cmd.opts, n)
      BY Zenon, <1>1, <1>2, NextOption
    <3> HIDE DEF n
    <3>2. o.name # "NULL" /\ DOMAIN sig_params = SigOptions
      BY Zenon, <1>2, <3>1, NamesAssumption DEF KeysFrom
    <3>3. /\ DOMAIN sig_params' = SigOptions
          /\ \A p \in SigOptions : sig_params'[p] = IF o.opt = p THEN o.name ELSE sig_params[p]
      BY Zenon, <1>4, <3>2
    <3>4. \A p \in SigOptions :
            IF cmd.opts[n + 1].opt = p
              THEN /\ sig_params[p] = "NULL" /\ sig_params'[p] = cmd.opts[n + 1].name
                   /\ sig_params'[p] # "NULL"
              ELSE sig_params'[p] = sig_params[p]
      BY Zenon, <1>4, <3>1, <3>2, <3>3
    <3>5. KeysFrom(sig_params', cmd.opts, n + 1)
      BY Zenon, <3>1, <3>3, <3>4, NextKey
    <3> QED
      BY Zenon, <1>1, <3>1, <3>5
  <2>3. i' \in 1 .. Len(cmd'.opts) + 1 /\ cmd' \in CommandLines
    BY Zenon, <1>1, <1>2, NextOption
  <2>4. SignParsed'
    BY Zenon, <1>4, <2>1, <2>2, <2>3 DEF SignParsed
  <2>5. SignSigned'
    BY Zenon, <1>4 DEF SignSigned
  <2> QED
    BY Zenon, <1>1, <1>4, <2>4, <2>5, SignFileKept, SignFailureKept DEF SignInv
<1> QED
  BY Zenon, <1>1, <1>3, <1>4

LEMMA SignOptionsDoneStep == SignInv /\ SignOptionsDone => SignInv'
<1> SUFFICES ASSUME SignInv, SignOptionsDone PROVE SignInv'
  OBVIOUS
<1>1. /\ pc = "options" /\ i > Len(cmd.opts)
      /\ i' = i /\ cmd' = cmd /\ UNCHANGED outvars /\ tree_params' = tree_params
      /\ io_failed' = io_failed
      /\ \/ sig_params' = DefaultCert(sig_params) /\ pc' = "open" /\ status' = status
         \/ pc' = "out" /\ status' = 2
  BY Zenon DEF SignOptionsDone, paramvars, Goto, Usage
<1>2. /\ cmd \in CommandLines /\ i \in 1 .. Len(cmd.opts) + 1
      /\ ParsedFrom(tree_params, cmd.opts, i - 1) /\ KeysFrom(sig_params, cmd.opts, i - 1)
      /\ io_failed \in BOOLEAN
  BY Zenon, <1>1 DEF SignInv, SignParsed, SignFailure
<1>3. CASE pc' = "out" /\ status' = 2
  BY Zenon, <1>1, <1>2, <1>3, SignFails
<1>4. CASE sig_params' = DefaultCert(sig_params) /\ pc' = "open" /\ status' = status
  <2>1. i = Len(cmd.opts) + 1 /\ i - 1 = Len(cmd.opts)
    <3>1. Len(cmd.opts) \in Nat
      BY Zenon, <1>2, OptionsAssumption
    <3> QED
      BY <1>1, <1>2, <3>1
  <2>2. \A o \in SigOptions : sig_params[o] = Arg(o)
    BY Zenon, <1>2, <2>1, ArgParsed
  <2>3. DOMAIN sig_params = SigOptions
    BY Zenon, <1>2 DEF KeysFrom
  <2>4. /\ sig_params'["key"] = sig_params["key"]
        /\ sig_params'["pkcs11-keyid"] = sig_params["pkcs11-keyid"]
        /\ sig_params'["cert"] = IF sig_params["cert"] = "NULL" THEN sig_params["key"]
                                 ELSE sig_params["cert"]
    BY Zenon, <1>4, <2>3 DEF DefaultCert, SigOptions
  <2>5. /\ sig_params'["key"] = Arg("key") /\ sig_params'["cert"] = CertAsked
        /\ sig_params'["pkcs11-keyid"] = Arg("pkcs11-keyid")
    BY Zenon, <2>2, <2>4 DEF SigOptions, CertAsked
  <2>6. SignParsed'
    BY Zenon, <1>1, <1>2, <1>4, <2>1, <2>5, ArgKept DEF SignParsed
  <2>7. SignSigned'
    BY Zenon, <1>4 DEF SignSigned
  <2> QED
    BY Zenon, <1>1, <1>4, <2>6, <2>7, SignFileKept, SignFailureKept DEF SignInv
<1> QED
  BY Zenon, <1>1, <1>3, <1>4

LEMMA OpenSignInputStep == SignInv /\ OpenSignInput => SignInv'
<1> SUFFICES ASSUME SignInv, OpenSignInput PROVE SignInv'
  OBVIOUS
<1>1. /\ pc = "open" /\ i' = i /\ cmd' = cmd /\ UNCHANGED outvars /\ tree_params' = tree_params
      /\ io_failed' = io_failed /\ sig_params' = sig_params
      /\ (pc' = "stat" /\ status' = status) \/ (pc' = "out" /\ status' = 1)
  BY Zenon DEF OpenSignInput, paramvars, Goto, OutErr
<1>2. SignParsed /\ io_failed \in BOOLEAN
  BY Zenon DEF SignInv, SignFailure
<1>3. CASE pc' = "out" /\ status' = 1
  BY Zenon, <1>1, <1>2, <1>3, SignFails
<1>4. CASE pc' = "stat" /\ status' = status
  <2>1. SignParsed'
    BY Zenon, <1>1, <1>2, <1>4, ArgKept DEF SignParsed
  <2>2. SignSigned'
    BY Zenon, <1>4 DEF SignSigned
  <2> QED
    BY Zenon, <1>1, <1>4, <2>1, <2>2, SignFileKept, SignFailureKept DEF SignInv
<1> QED
  BY Zenon, <1>1, <1>3, <1>4

LEMMA ParsedWithSize ==
  ASSUME NEW p, NEW opts, NEW n, ParsedFrom(p, opts, n),
         NEW s, NEW q, q = [p EXCEPT !.file_size = s]
  PROVE  ParsedFrom(q, opts, n) /\ q.file_size = s
<1>1. DOMAIN p = ParamFields
  BY Zenon DEF ParsedFrom
<1>2. /\ DOMAIN q = ParamFields /\ q.version = p.version /\ q.salt = p.salt
      /\ q.hash_algorithm = p.hash_algorithm /\ q.block_size = p.block_size
      /\ q.salt_size = p.salt_size /\ q.file_size = s
  BY Zenon, <1>1 DEF ParamFields
<1>3. ParsedFrom(q, opts, n)
  BY Zenon, <1>2 DEF ParsedFrom
<1> QED
  BY Zenon, <1>2, <1>3

LEMMA StatSignInputStep == SignInv /\ StatSignInput => SignInv'
<1> SUFFICES ASSUME SignInv, StatSignInput PROVE SignInv'
  OBVIOUS
<1>1. /\ pc = "stat" /\ i' = i /\ cmd' = cmd /\ UNCHANGED outvars
      /\ io_failed' = io_failed /\ sig_params' = sig_params
      /\ \/ /\ pc' = "compute" /\ status' = status
            /\ tree_params' = [tree_params EXCEPT !.file_size = size']
         \/ pc' = "out" /\ status' = 1
  BY Zenon DEF StatSignInput, Goto, OutErr
<1>2. SignParsed /\ io_failed \in BOOLEAN
  BY Zenon DEF SignInv, SignFailure
<1>3. CASE pc' = "out" /\ status' = 1
  BY Zenon, <1>1, <1>2, <1>3, SignFails
<1>4. CASE /\ pc' = "compute" /\ status' = status
           /\ tree_params' = [tree_params EXCEPT !.file_size = size']
  <2>1. ParsedFrom(tree_params, cmd.opts, i - 1)
    BY Zenon, <1>1, <1>2 DEF SignParsed
  <2>2. ParsedFrom(tree_params', cmd.opts, i - 1) /\ tree_params'.file_size = size'
    BY <1>4, <2>1, ParsedWithSize
  <2>3. SignParsed'
    BY Zenon, <1>1, <1>2, <1>4, <2>2, ArgKept DEF SignParsed
  <2>4. SignSigned'
    BY Zenon, <1>4 DEF SignSigned
  <2> QED
    BY Zenon, <1>1, <1>4, <2>3, <2>4, SignFileKept, SignFailureKept DEF SignInv
<1> QED
  BY Zenon, <1>1, <1>3, <1>4

LEMMA CallComputeDigestStep == SignInv /\ CallComputeDigest => SignInv'
<1> SUFFICES ASSUME SignInv, CallComputeDigest PROVE SignInv'
  OBVIOUS
<1>1. /\ pc = "compute" /\ pc' = "computing" /\ status' = status /\ cmd' = cmd
      /\ UNCHANGED outvars /\ io_failed' = io_failed /\ sig_params' = sig_params
      /\ size' = size /\ call' = tree_params /\ result' = "running"
  BY Zenon DEF CallComputeDigest, Goto, Lib!Begin
<1>2. SignParsed
  BY Zenon DEF SignInv
<1>3. /\ cmd \in CommandLines /\ i = Len(cmd.opts) + 1 /\ ParsedFrom(tree_params, cmd.opts, i - 1)
      /\ tree_params.file_size = size
      /\ sig_params["key"] = Arg("key") /\ sig_params["cert"] = CertAsked
      /\ sig_params["pkcs11-keyid"] = Arg("pkcs11-keyid")
  BY Zenon, <1>1, <1>2 DEF SignParsed
<1>4. i - 1 = Len(cmd.opts)
  <2>1. Len(cmd.opts) \in Nat
    BY Zenon, <1>3, OptionsAssumption
  <2> QED
    BY <1>3, <2>1
<1>5. SignParsed'
  BY Zenon, <1>1, <1>3, <1>4, ArgKept DEF SignParsed
<1>6. SignSigned'
  BY Zenon, <1>1 DEF SignSigned
<1> QED
  BY Zenon, <1>1, <1>5, <1>6, SignFileKept, SignFailureKept DEF SignInv

\* What a step of the library's call does to its result and to the history of
\* the output files
LEMMA LibStepResult ==
  ASSUME NEW f, LibStep(f)
  PROVE  /\ result = "running" /\ call' = call /\ tree_params' = tree_params
         /\ result' \in {"running", "ok", "failed"}
         /\ result' = "ok" => Lib!Acceptable(call)
         /\ \/ io_failed' = io_failed
            \/ io_failed' = TRUE /\ result' = "failed"
            \/ io_failed' = (io_failed \/ result' = "failed")
<1>1. CASE HandleMerkleTreeSize
  BY Zenon, <1>1 DEF HandleMerkleTreeSize, Lib!TellSize
<1>2. CASE \E b \in Lib!TreeBlocks(call) : HandleMerkleTreeBlock(f, b)
  BY Zenon, <1>2 DEF HandleMerkleTreeBlock, Lib!TellBlock
<1>3. CASE HandleDescriptor(f)
  BY Zenon, <1>3 DEF HandleDescriptor, Lib!TellDescriptor
<1>4. CASE (Lib!Succeed \/ Lib!Fail) /\ UNCHANGED <<tree_params, outputs, heap, outfiles, io_failed>>
  BY Zenon, <1>4 DEF Lib!Succeed, Lib!Fail
<1> QED
  BY Zenon, <1>1, <1>2, <1>3, <1>4 DEF LibStep

LEMMA OrFailed ==
  ASSUME NEW a \in BOOLEAN, NEW c, NEW r, c = (a \/ r = "failed")
  PROVE  c \in BOOLEAN /\ (c <=> (a \/ r = "failed"))
<1> DEFINE x == (a \/ r = "failed")
<1>1. x \in BOOLEAN
  OBVIOUS
<1>2. c = x
  BY Zenon
<1> HIDE DEF x
<1>3. c \in BOOLEAN /\ (c <=> x)
  BY <1>1, <1>2
<1> QED
  BY Zenon, <1>3 DEF x

LEMMA LibStepFailure ==
  ASSUME NEW f, LibStep(f), io_failed \in BOOLEAN, ~io_failed
  PROVE  io_failed' \in BOOLEAN /\ (result' # "failed" => ~io_failed')
<1>1. /\ result' \in {"running", "ok", "failed"}
      /\ \/ io_failed' = io_failed
         \/ io_failed' = TRUE /\ result' = "failed"
         \/ io_failed' = (io_failed \/ result' = "failed")
  BY Zenon, LibStepResult
<1>2. CASE io_failed' = io_failed
  BY <1>2
<1>3. CASE io_failed' = TRUE /\ result' = "failed"
  BY Zenon, <1>3
<1>4. CASE io_failed' = (io_failed \/ result' = "failed")
  <2>2. io_failed' \in BOOLEAN /\ (io_failed' <=> (io_failed \/ result' = "failed"))
    BY <1>4, OrFailed
  <2> QED
    BY Zenon, <2>2
<1> QED
  BY Zenon, <1>1, <1>2, <1>3, <1>4

LEMMA ComputeDigestStep == SignInv /\ ComputeDigest => SignInv'
<1> SUFFICES ASSUME SignInv, ComputeDigest PROVE SignInv'
  OBVIOUS
<1>1. /\ pc = "computing" /\ LibStep(1) /\ pc' = pc /\ cmd' = cmd /\ status' = status
      /\ sig_params' = sig_params /\ UNCHANGED outvars /\ size' = size
  BY Zenon DEF ComputeDigest
<1>2. /\ result = "running" /\ call' = call /\ (result' = "ok" => Lib!Acceptable(call))
  BY Zenon, <1>1, LibStepResult
<1>3. SignParsed /\ io_failed \in BOOLEAN /\ ~io_failed
  BY Zenon, <1>1, <1>2 DEF SignInv, SignFailure
<1>4. SignFailure'
  BY Zenon, <1>1, <1>3, LibStepFailure DEF SignFailure
<1>5. SignParsed'
  <2>1. Lib!Acceptable(call) => Lib!Acceptable(call)'
    BY Zenon, <1>2 DEF Lib!Acceptable
  <2> QED
    BY Zenon, <1>1, <1>2, <1>3, <2>1, ArgKept DEF SignParsed
<1>6. SignSigned'
  BY Zenon, <1>1 DEF SignSigned
<1> QED
  BY Zenon, <1>1, <1>4, <1>5, <1>6, SignFileKept DEF SignInv

\* The descriptor of a digest that was computed is as asked.
LEMMA DescriptorAsked ==
  ASSUME NEW c \in CommandLines, NEW p, NEW f, ParsedFrom(p, c.opts, Len(c.opts)),
         Lib!Acceptable(p)
  PROVE  /\ AsGiven(c.opts, DescriptorOf(p, f))
         /\ DescriptorOf(p, f).data_size = p.file_size /\ DescriptorOf(p, f).root_hash = f
<1>1. KnownHashAlg(HashAlgOf(p)) /\ IsPowerOf2(BlockSizeOf(p))
  BY Zenon DEF Lib!Acceptable, Lib!KnownHashAlg, Lib!HashAlgOf, Lib!BlockSizeOf, KnownHashAlg,
    HashAlgOf, BlockSizeOf, IsPowerOf2
<1> DEFINE e == DescriptorOf(p, f)
<1>2. /\ e.hash_algorithm = HashAlgOf(p) /\ e.log_blocksize = Ilog2(BlockSizeOf(p))
      /\ e.salt_size = p.salt_size /\ e.data_size = p.file_size /\ e.root_hash = f
  BY Zenon DEF DescriptorOf
<1> HIDE DEF e
<1>3. AsGiven(c.opts, e)
  BY Zenon, <1>1, <1>2, AsAsked
<1> QED
  BY Zenon, <1>2, <1>3 DEF e

LEMMA CallSignDigestStep == SignInv /\ CallSignDigest => SignInv'
<1> SUFFICES ASSUME SignInv, CallSignDigest PROVE SignInv'
  OBVIOUS
<1> DEFINE args == [pointers |-> TRUE, reserved_zero |-> TRUE, digest |-> InputDigest,
                    keyfile |-> sig_params["key"], certfile |-> sig_params["cert"],
                    engine |-> sig_params["pkcs11-engine"],
                    module |-> sig_params["pkcs11-module"],
                    keyid |-> sig_params["pkcs11-keyid"]]
<1>1. /\ pc = "computing" /\ cmd' = cmd /\ UNCHANGED outvars /\ io_failed' = io_failed
      /\ size' = size
      /\ \/ /\ result = "ok" /\ pc' = "signing" /\ status' = status
            /\ sign_call' = args /\ sign_result' = "running"
         \/ pc' = "out" /\ status' = 1
  BY Zenon DEF CallSignDigest, Goto, OutErr, Signer!SignBegin
<1>2. SignParsed /\ io_failed \in BOOLEAN
  BY Zenon DEF SignInv, SignFailure
<1>3. CASE pc' = "out" /\ status' = 1
  BY Zenon, <1>1, <1>2, <1>3, SignFails
<1>4. CASE /\ result = "ok" /\ pc' = "signing" /\ status' = status
           /\ sign_call' = args /\ sign_result' = "running"
  <2>1. /\ cmd \in CommandLines /\ ParsedFrom(call, cmd.opts, Len(cmd.opts))
        /\ call.file_size = size /\ Lib!Acceptable(call)
        /\ sig_params["key"] = Arg("key") /\ sig_params["cert"] = CertAsked
        /\ sig_params["pkcs11-keyid"] = Arg("pkcs11-keyid")
    BY Zenon, <1>1, <1>2, <1>4 DEF SignParsed
  <2>2. AsGiven(cmd.opts, DescriptorOf(call, 1)) /\ DescriptorOf(call, 1).data_size = size
    <3>1. /\ cmd \in CommandLines /\ ParsedFrom(call, cmd.opts, Len(cmd.opts))
          /\ Lib!Acceptable(call)
      BY Zenon, <2>1
    <3>2. /\ AsGiven(cmd.opts, DescriptorOf(call, 1))
          /\ DescriptorOf(call, 1).data_size = call.file_size
      BY ZenonT(30), <3>1, DescriptorAsked
    <3> QED
      BY Zenon, <2>1, <3>2
  <2>3. /\ sign_call'.digest.of = DescriptorOf(call, 1) /\ sign_call'.keyfile = Arg("key")
        /\ sign_call'.certfile = CertAsked /\ sign_call'.keyid = Arg("pkcs11-keyid")
    BY Zenon, <1>4, <2>1 DEF InputDigest
  <2>4. DescAsked(sign_call.digest.of)'
    BY Zenon, <1>1, <2>2, <2>3 DEF DescAsked
  <2>5. SignSigned'
    BY Zenon, <1>1, <1>4, <2>3, <2>4, ArgKept DEF SignSigned
  <2>6. SignParsed'
    BY Zenon, <1>1, <1>4, <2>1 DEF SignParsed
  <2>7. io_failed = FALSE
    BY Zenon, <1>1, <1>4 DEF SignInv, SignFailure
  <2>8. SignFailure'
    BY Zenon, <1>1, <1>4, <2>7 DEF SignFailure
  <2> QED
    BY Zenon, <1>1, <1>4, <2>5, <2>6, <2>8, SignFileKept DEF SignInv
<1> QED
  BY Zenon, <1>1, <1>3, <1>4

LEMMA SignDigestStep == SignInv /\ SignDigest => SignInv'
<1> SUFFICES ASSUME SignInv, SignDigest PROVE SignInv'
  OBVIOUS
<1>1. /\ pc = "signing" /\ pc' = pc /\ cmd' = cmd /\ UNCHANGED outvars /\ size' = size
      /\ io_failed' = io_failed /\ status' = status /\ sign_call' = sign_call
      /\ \/ /\ Signer!SignAcceptable(sign_call) /\ sign_result' = "ok"
            /\ signature' = Signer!SignatureOf(sign_call)
         \/ sign_result' = "failed"
  BY Zenon DEF SignDigest, paramvars, Signer!SignWork, Signer!SignSucceed, Signer!SignFail
<1>2. /\ cmd \in CommandLines /\ DescAsked(sign_call.digest.of)
      /\ sign_call.keyfile = Arg("key") /\ sign_call.keyid = Arg("pkcs11-keyid")
      /\ sign_call.certfile = CertAsked
  BY Zenon, <1>1 DEF SignInv, SignParsed, SignSigned
<1>3. DescAsked(sign_call.digest.of)'
  BY Zenon, <1>1, <1>2 DEF DescAsked
<1>4. SignParsed'
  BY Zenon, <1>1, <1>2 DEF SignParsed
<1>5. ASSUME sign_result' = "ok" PROVE SignedAsAsked'
  <2>1. Signer!SignAcceptable(sign_call) /\ signature' = Signer!SignatureOf(sign_call)
    BY Zenon, <1>1, <1>5
  <2>2. Signer!UsesToken(sign_call) <=> sign_call.keyfile = "NULL"
    BY Zenon, <2>1 DEF Signer!SignAcceptable
  <2>3. /\ signature'.signed = sign_call.digest /\ signature'.cert = sign_call.certfile
        /\ signature'.key = IF Signer!UsesToken(sign_call) THEN sign_call.keyid
                            ELSE sign_call.keyfile
    BY Zenon, <2>1 DEF Signer!SignatureOf
  <2>4. DescAsked(signature.signed.of)'
    BY Zenon, <1>1, <1>2, <2>3 DEF DescAsked
  <2> QED
    BY Zenon, <1>1, <1>2, <2>2, <2>3, <2>4, ArgKept DEF SignedAsAsked
<1>6. SignSigned'
  BY Zenon, <1>1, <1>2, <1>3, <1>5, ArgKept DEF SignSigned
<1> QED
  BY Zenon, <1>1, <1>4, <1>6, SignFileKept, SignFailureKept DEF SignInv

\* What was signed stays what was asked for.
LEMMA SignedKept ==
  ASSUME SignedAsAsked, cmd' = cmd, size' = size, signature' = signature
  PROVE  SignedAsAsked'
<1>1. DescAsked(signature.signed.of)'
  BY Zenon DEF SignedAsAsked, DescAsked
<1> QED
  BY Zenon, <1>1, ArgKept DEF SignedAsAsked

LEMMA SignReturnsStep == SignInv /\ SignReturns => SignInv'
<1> SUFFICES ASSUME SignInv, SignReturns PROVE SignInv'
  OBVIOUS
<1>1. /\ pc = "signing" /\ cmd' = cmd /\ UNCHANGED outvars /\ size' = size
      /\ io_failed' = io_failed /\ signature' = signature /\ sign_result' = sign_result
      /\ \/ sign_result = "ok" /\ pc' = "open_sig" /\ status' = status
         \/ pc' = "out" /\ status' = 1
  BY Zenon DEF SignReturns, signer, Goto, OutErr
<1>2. /\ cmd \in CommandLines /\ io_failed \in BOOLEAN
      /\ sign_result = "ok" => SignedAsAsked
  BY Zenon, <1>1 DEF SignInv, SignParsed, SignSigned, SignFailure
<1>3. CASE pc' = "out" /\ status' = 1
  BY Zenon, <1>1, <1>2, <1>3, SignFails
<1>4. CASE sign_result = "ok" /\ pc' = "open_sig" /\ status' = status
  <2>1. SignSigned'
    BY Zenon, <1>1, <1>2, <1>4, SignedKept DEF SignSigned
  <2>2. SignParsed'
    BY Zenon, <1>1, <1>2, <1>4 DEF SignParsed
  <2> QED
    BY Zenon, <1>1, <1>4, <2>1, <2>2, SignFileKept, SignFailureKept DEF SignInv
<1> QED
  BY Zenon, <1>1, <1>3, <1>4

LEMMA OpenSigFileStep == SignInv /\ OpenSigFile => SignInv'
<1> SUFFICES ASSUME SignInv, OpenSigFile PROVE SignInv'
  OBVIOUS
<1>1. /\ pc = "open_sig" /\ cmd' = cmd /\ size' = size /\ ok' = ok /\ printed' = printed
      /\ io_failed' = io_failed /\ signature' = signature /\ sign_result' = sign_result
      /\ \/ sig_out' = "empty" /\ pc' = "write" /\ status' = status
         \/ pc' = "out" /\ status' = 1 /\ sig_out' = sig_out /\ sig_out_fd' = sig_out_fd
  BY Zenon DEF OpenSigFile, signer, paramvars, Goto, OutErr
<1>2. /\ cmd \in CommandLines /\ io_failed = FALSE /\ sign_result = "ok" /\ SignedAsAsked
      /\ status = 0 /\ printed = FALSE /\ ok = TRUE
  BY Zenon, <1>1 DEF SignInv, SignParsed, SignSigned, SignFailure, SignFile
<1>3. CASE pc' = "out" /\ status' = 1 /\ sig_out' = sig_out /\ sig_out_fd' = sig_out_fd
  BY Zenon, <1>1, <1>2, <1>3, SignFails DEF outvars
<1>4. CASE sig_out' = "empty" /\ pc' = "write" /\ status' = status
  <2>1. SignSigned'
    BY Zenon, <1>1, <1>2, <1>4, SignedKept DEF SignSigned
  <2>2. SignParsed' /\ SignFailure' /\ SignFile'
    BY Zenon, <1>1, <1>2, <1>4 DEF SignParsed, SignFailure, SignFile
  <2> QED
    BY Zenon, <2>1, <2>2 DEF SignInv
<1> QED
  BY Zenon, <1>1, <1>3, <1>4

LEMMA WriteSigFileStep == SignInv /\ WriteSigFile => SignInv'
<1> SUFFICES ASSUME SignInv, WriteSigFile PROVE SignInv'
  OBVIOUS
<1>1. /\ pc = "write" /\ pc' = "close" /\ cmd' = cmd /\ size' = size /\ printed' = printed
      /\ io_failed' = io_failed /\ signature' = signature /\ sign_result' = sign_result
      /\ status' = status
      /\ (sig_out' = "whole" /\ ok' = ok) \/ ok' = FALSE
  BY Zenon DEF WriteSigFile, signer, paramvars, Goto
<1>2. /\ cmd \in CommandLines /\ io_failed = FALSE /\ sign_result = "ok" /\ SignedAsAsked
      /\ status = 0 /\ printed = FALSE /\ ok = TRUE
  BY Zenon, <1>1 DEF SignInv, SignParsed, SignSigned, SignFailure, SignFile
<1>3. SignSigned'
  BY Zenon, <1>1, <1>2, SignedKept DEF SignSigned
<1>4. SignParsed' /\ SignFailure' /\ SignFile'
  BY Zenon, <1>1, <1>2 DEF SignParsed, SignFailure, SignFile
<1> QED
  BY Zenon, <1>3, <1>4 DEF SignInv

LEMMA CloseSigFileStep == SignInv /\ CloseSigFile => SignInv'
<1> SUFFICES ASSUME SignInv, CloseSigFile PROVE SignInv'
  OBVIOUS
<1>1. PICK closed \in BOOLEAN : ok' = (ok /\ closed) /\ io_failed' = (io_failed \/ ~closed)
  BY Zenon DEF CloseSigFile, AlsoClosed
<1>2. /\ pc = "close" /\ cmd' = cmd /\ size' = size /\ printed' = printed /\ sig_out' = sig_out
      /\ sig_out_fd' = "closed" /\ signature' = signature /\ sign_result' = sign_result
      /\ IF ok' THEN pc' = "print" /\ status' = status ELSE pc' = "out" /\ status' = 1
  BY Zenon DEF CloseSigFile, signer, Goto, OutErr
<1>3. /\ cmd \in CommandLines /\ io_failed = FALSE /\ sign_result = "ok" /\ SignedAsAsked
      /\ status = 0 /\ printed = FALSE /\ ok \in BOOLEAN /\ (ok => sig_out = "whole")
  BY Zenon, <1>2 DEF SignInv, SignParsed, SignSigned, SignFailure, SignFile
<1>4. io_failed' \in BOOLEAN /\ (ok' => sig_out = "whole" /\ io_failed' = FALSE)
  <2>1. CASE closed = FALSE
    <3>1. ok' = (ok /\ FALSE) /\ io_failed' = (FALSE \/ ~FALSE)
      BY Zenon, <1>1, <1>3, <2>1
    <3>2. (ok /\ FALSE) = FALSE /\ (FALSE \/ ~FALSE) = TRUE
      OBVIOUS
    <3>3. ok' = FALSE /\ io_failed' = TRUE
      BY Zenon, <3>1, <3>2
    <3> QED
      BY Zenon, <3>3
  <2>2. CASE closed = TRUE
    <3>1. ok' = (ok /\ TRUE) /\ io_failed' = (FALSE \/ ~TRUE)
      BY Zenon, <1>1, <1>3, <2>2
    <3>2. (ok /\ TRUE) = ok /\ (FALSE \/ ~TRUE) = FALSE
      BY <1>3
    <3>3. ok' = ok /\ io_failed' = FALSE
      BY Zenon, <3>1, <3>2
    <3> QED
      BY Zenon, <1>3, <3>3
  <2> QED
    BY Zenon, <1>1, <2>1, <2>2
<1>5. 1 # 0
  OBVIOUS
<1>6. SignSigned'
  BY Zenon, <1>2, <1>3, <1>5, SignedKept DEF SignSigned
<1>7. SignParsed' /\ SignFailure' /\ SignFile'
  BY Zenon, <1>2, <1>3, <1>4, <1>5 DEF SignParsed, SignFailure, SignFile
<1> QED
  BY Zenon, <1>6, <1>7 DEF SignInv

LEMMA PrintSignedStep == SignInv /\ PrintSigned => SignInv'
<1> SUFFICES ASSUME SignInv, PrintSigned PROVE SignInv'
  OBVIOUS
<1>1. /\ pc = "print" /\ pc' = "out" /\ printed' = TRUE /\ status' = 0
      /\ cmd' = cmd /\ size' = size /\ sig_out' = sig_out /\ sig_out_fd' = sig_out_fd
      /\ io_failed' = io_failed /\ signature' = signature /\ sign_result' = sign_result
  BY Zenon DEF PrintSigned, signer, paramvars
<1>2. /\ cmd \in CommandLines /\ io_failed = FALSE /\ sign_result = "ok" /\ SignedAsAsked
      /\ sig_out = "whole" /\ sig_out_fd = "closed"
  BY Zenon, <1>1 DEF SignInv, SignParsed, SignSigned, SignFailure, SignFile
<1>3. SignSigned'
  BY Zenon, <1>1, <1>2, SignedKept DEF SignSigned
<1>4. SignParsed' /\ SignFailure' /\ SignFile'
  BY Zenon, <1>1, <1>2 DEF SignParsed, SignFailure, SignFile
<1> QED
  BY Zenon, <1>3, <1>4 DEF SignInv

LEMMA CmdSignOutStep == SignInv /\ CmdSignOut => SignInv'
<1> SUFFICES ASSUME SignInv, CmdSignOut PROVE SignInv'
  OBVIOUS
<1>1. PICK destroyed \in BOOLEAN :
        /\ io_failed' = (io_failed \/ ~destroyed)
        /\ status' = IF ~destroyed /\ status = 0 THEN 1 ELSE status
  BY Zenon DEF CmdSignOut, DestroyTreeParams
<1>2. /\ pc = "out" /\ pc' = "free" /\ printed' = printed
      /\ cmd' = cmd /\ size' = size /\ sig_out' = sig_out /\ sig_out_fd' = sig_out_fd
      /\ signature' = signature /\ sign_result' = sign_result
  BY Zenon DEF CmdSignOut, signer, outvars
<1>3. /\ cmd \in CommandLines /\ SignSigned /\ SignFailure /\ SignFile /\ io_failed \in BOOLEAN
  BY Zenon DEF SignInv, SignParsed, SignFailure
<1>4. io_failed' \in BOOLEAN /\ (destroyed = TRUE => io_failed' = io_failed)
  <2>1. CASE destroyed = TRUE
    <3>1. (io_failed \/ ~TRUE) = io_failed
      BY <1>3
    <3> QED
      BY Zenon, <1>1, <1>3, <2>1, <3>1
  <2>2. CASE destroyed = FALSE
    <3>1. (io_failed \/ ~FALSE) = TRUE
      OBVIOUS
    <3> QED
      BY Zenon, <1>1, <2>2, <3>1
  <2> QED
    BY Zenon, <1>1, <2>1, <2>2
<1>5. /\ status' = 0 => status = 0 /\ destroyed = TRUE
      /\ status = 1 => status' = 1
  <2>1. 1 # 0
    OBVIOUS
  <2> QED
    BY Zenon, <1>1, <2>1
<1>6. SignSigned'
  BY Zenon, <1>2, <1>3, <1>5, SignedKept DEF SignSigned
<1>7. SignParsed'
  BY Zenon, <1>2, <1>3 DEF SignParsed
<1>8. SignFailure'
  BY Zenon, <1>2, <1>3, <1>4, <1>5 DEF SignFailure
<1>9. SignFile'
  <2>1. printed' <=> printed
    BY <1>2
  <2> QED
    BY Zenon, <1>2, <1>3, <1>5, <2>1 DEF SignFile
<1> QED
  BY Zenon, <1>6, <1>7, <1>8, <1>9 DEF SignInv

LEMMA FreeResultsStep == SignInv /\ FreeResults => SignInv'
<1> SUFFICES ASSUME SignInv, FreeResults PROVE SignInv'
  OBVIOUS
<1>1. /\ pc = "free" /\ pc' = "exit" /\ status' = status /\ printed' = printed
      /\ cmd' = cmd /\ size' = size /\ sig_out' = sig_out /\ sig_out_fd' = sig_out_fd
      /\ signature' = signature /\ sign_result' = sign_result /\ io_failed' = io_failed
  BY Zenon DEF FreeResults, signer, outvars, Goto
<1>2. /\ cmd \in CommandLines /\ SignSigned /\ SignFailure /\ SignFile
  BY Zenon DEF SignInv, SignParsed
<1>3. SignSigned'
  BY Zenon, <1>1, <1>2, SignedKept DEF SignSigned
<1>4. SignParsed'
  BY Zenon, <1>1, <1>2 DEF SignParsed
<1>5. (printed' <=> printed) /\ (io_failed' <=> io_failed)
  BY <1>1
<1>6. SignFailure' /\ SignFile'
  BY Zenon, <1>1, <1>2, <1>5 DEF SignFailure, SignFile
<1> QED
  BY Zenon, <1>3, <1>4, <1>6 DEF SignInv

LEMMA SignStutter == SignInv /\ UNCHANGED cmdsignvars => SignInv'
<1> SUFFICES ASSUME SignInv, UNCHANGED cmdsignvars PROVE SignInv'
  OBVIOUS
<1>1. /\ pc' = pc /\ cmd' = cmd /\ i' = i /\ sig_params' = sig_params /\ sig_out' = sig_out
      /\ sig_out_fd' = sig_out_fd /\ ok' = ok /\ printed' = printed /\ status' = status
      /\ size' = size /\ sign_call' = sign_call /\ sign_result' = sign_result
      /\ signature' = signature /\ tree_params' = tree_params /\ io_failed' = io_failed
      /\ call' = call /\ result' = result
  BY Zenon DEF cmdsignvars, outvars, signer, paramvars, lib
<1>2. /\ (printed' <=> printed) /\ (io_failed' <=> io_failed) /\ (ok' <=> ok)
  BY <1>1
<1>3. Lib!Acceptable(call) => Lib!Acceptable(call)'
  BY Zenon, <1>1 DEF Lib!Acceptable
<1>4. SignParsed'
  BY Zenon, <1>1, <1>3, ArgKept DEF SignInv, SignParsed
<1>5. DescAsked(sign_call.digest.of) => DescAsked(sign_call.digest.of)'
  BY Zenon, <1>1 DEF DescAsked
<1>6. SignSigned'
  BY Zenon, <1>1, <1>5, SignedKept, ArgKept DEF SignInv, SignSigned
<1>7. SignFailure' /\ SignFile'
  BY Zenon, <1>1, <1>2 DEF SignInv, SignFailure, SignFile
<1> QED
  BY Zenon, <1>4, <1>6, <1>7 DEF SignInv

LEMMA SignNext == SignInv /\ [CmdSignStep \/ CmdSignExited]_cmdsignvars => SignInv'
BY Zenon, ParseSignOptionStep, ParseKeyOptionStep, SignOptionsDoneStep, OpenSignInputStep,
  StatSignInputStep, CallComputeDigestStep, ComputeDigestStep, CallSignDigestStep,
  SignDigestStep, SignReturnsStep, OpenSigFileStep, WriteSigFileStep, CloseSigFileStep,
  PrintSignedStep, CmdSignOutStep, FreeResultsStep, SignStutter DEF CmdSignStep, CmdSignExited

LEMMA SignInvariance == CmdSignSpec => []SignInv
BY SignInit, SignNext, PTL DEF CmdSignSpec

(***************************************************************************)
(* fsverity sign: an exit status of 0 means a whole signature file, with   *)
(* the signature of this file's digest under the options of the command    *)
(* line, by the key and for the certificate asked for.                     *)
(***************************************************************************)
THEOREM SignSucceeds == CmdSignSpec => []SignSuccess
<1>1. SignInv => SignSuccess
  BY Zenon DEF SignInv, SignSigned, SignedAsAsked, DescAsked, CertAsked, SignFailure, SignFile,
    SignSuccess
<1> QED
  BY <1>1, SignInvariance, PTL

(***************************************************************************)
(* fsverity sign replaces a signature file only by a new signature, and    *)
(* its status and its message tell whether it is complete.                 *)
(***************************************************************************)
THEOREM SignKeepsFileSafe == CmdSignSpec => []SignatureFileSafe
<1>1. SignInv => SignatureFileSafe
  BY Zenon DEF SignInv, SignFile, SignatureFileSafe
<1> QED
  BY <1>1, SignInvariance, PTL

----------------------------------------------------------------------------
\* fsverity digest.

IsSeq(s) == \E S : s \in Seq(S)

\* The lines out are the digests of the first n files, of the sizes found.
Printed(out, found, opts, n) ==
  /\ IsSeq(out) /\ Len(out) = n
  /\ \A j \in 1 .. n :
       /\ out[j].digest.root_hash = j /\ out[j].digest.data_size = found[j]
       /\ AsGiven(opts, out[j].digest)

DigestParsed ==
  /\ cmd \in CommandLines
  /\ pc = "options" => i \in 1 .. Len(cmd.opts) + 1 /\ ParsedFrom(tree_params, cmd.opts, i - 1)
  /\ pc \in {"open", "stat", "compute", "library", "print", "close"} =>
       i \in 1 .. cmd.files + 1 /\ ParsedFrom(tree_params, cmd.opts, Len(cmd.opts))
  /\ pc \in {"stat", "compute", "library", "print", "close"} => i <= cmd.files
  /\ pc = "compute" => tree_params.file_size = sizes[i]
  /\ pc \in {"library", "print"} =>
       /\ ParsedFrom(call, cmd.opts, Len(cmd.opts)) /\ call.file_size = sizes[i]
       /\ result = "ok" => Lib!Acceptable(call)
  /\ pc = "print" => result = "ok"

DigestPrinted ==
  /\ IsSeq(sizes)
  /\ pc = "options" => Len(sizes) = 0 /\ Printed(digest_lines, sizes, cmd.opts, 0)
  /\ pc \in {"open", "stat"} => Len(sizes) = i - 1
  /\ pc \in {"compute", "library", "print", "close"} => Len(sizes) = i
  /\ pc \in {"open", "stat", "compute", "library", "print"} => Printed(digest_lines, sizes, cmd.opts, i - 1)
  /\ pc = "close" => Printed(digest_lines, sizes, cmd.opts, i)
  /\ pc \in {"out", "exit"} /\ status = 0 => Printed(digest_lines, sizes, cmd.opts, cmd.files)

DigestFailure ==
  /\ io_failed \in BOOLEAN
  /\ pc \in {"options", "open", "stat", "compute", "print", "close"} => ~io_failed
  /\ pc = "library" /\ result # "failed" => ~io_failed
  /\ pc \in {"out", "exit"} /\ status = 0 => ~io_failed

PrintInv == DigestParsed /\ DigestPrinted /\ DigestFailure

LEMMA AppendToSeq ==
  ASSUME NEW s, NEW x, IsSeq(s)
  PROVE  /\ IsSeq(Append(s, x)) /\ Len(s) \in Nat /\ Len(Append(s, x)) = Len(s) + 1
         /\ \A k \in 1 .. Len(s) : Append(s, x)[k] = s[k]
         /\ Append(s, x)[Len(s) + 1] = x
<1>1. PICK S : s \in Seq(S)
  BY Zenon DEF IsSeq
<1> DEFINE T == S \cup {x}
<1>2. s \in Seq(T) /\ x \in T
  BY <1>1
<1> HIDE DEF T
<1>3. /\ Append(s, x) \in Seq(T) /\ Len(s) \in Nat /\ Len(Append(s, x)) = Len(s) + 1
      /\ \A k \in 1 .. Len(s) : Append(s, x)[k] = s[k]
      /\ Append(s, x)[Len(s) + 1] = x
  BY <1>2
<1> QED
  BY Zenon, <1>3 DEF IsSeq

LEMMA StillPrinted ==
  ASSUME NEW out, NEW found, NEW opts, NEW n, Printed(out, found, opts, n),
         IsSeq(found), Len(found) = n, NEW s
  PROVE  Printed(out, Append(found, s), opts, n)
<1>1. \A k \in 1 .. n : Append(found, s)[k] = found[k]
  BY ZenonT(30), AppendToSeq
<1> QED
  BY Zenon, <1>1 DEF Printed

LEMMA OneMorePrinted ==
  ASSUME NEW out, NEW found, NEW opts, NEW n \in Nat, Printed(out, found, opts, n), NEW line,
         line.digest.root_hash = n + 1, line.digest.data_size = found[n + 1],
         AsGiven(opts, line.digest)
  PROVE  Printed(Append(out, line), found, opts, n + 1)
<1> DEFINE more == Append(out, line)
<1>1. /\ IsSeq(more) /\ Len(more) = n + 1 /\ more[n + 1] = line
      /\ \A k \in 1 .. n : more[k] = out[k]
  <2>1. IsSeq(out) /\ Len(out) = n
    BY Zenon DEF Printed
  <2>2. /\ IsSeq(more) /\ Len(more) = Len(out) + 1
        /\ \A k \in 1 .. Len(out) : more[k] = out[k]
        /\ more[Len(out) + 1] = line
    BY Zenon, <2>1, AppendToSeq
  <2> HIDE DEF more
  <2> QED
    BY Zenon, <2>1, <2>2
<1>2. \A k \in 1 .. n + 1 : k \in 1 .. n \/ k = n + 1
  OBVIOUS
<1> HIDE DEF more
<1>3. ASSUME NEW j \in 1 .. n + 1
      PROVE  /\ more[j].digest.root_hash = j /\ more[j].digest.data_size = found[j]
             /\ AsGiven(opts, more[j].digest)
  <2>1. CASE j \in 1 .. n
    BY Zenon, <1>1, <2>1 DEF Printed
  <2>2. CASE j = n + 1
    BY Zenon, <1>1, <2>2
  <2> QED
    BY Zenon, <1>2, <1>3, <2>1, <2>2
<1>4. Printed(more, found, opts, n + 1)
  BY Zenon, <1>1, <1>3 DEF Printed
<1> QED
  BY Zenon, <1>4 DEF more

\* A step to the label out that is not the last file's
LEMMA DigestFails ==
  ASSUME PrintInv, pc' = "out", status' \in {1, 2}, cmd' = cmd, io_failed' \in BOOLEAN,
         sizes' = sizes
  PROVE  PrintInv'
<1>1. cmd \in CommandLines /\ IsSeq(sizes)
  BY Zenon DEF PrintInv, DigestParsed, DigestPrinted
<1>2. status' # 0
  OBVIOUS
<1>3. DigestParsed' /\ DigestPrinted' /\ DigestFailure'
  BY Zenon, <1>1, <1>2 DEF DigestParsed, DigestPrinted, DigestFailure, IsSeq
<1> QED
  BY Zenon, <1>3 DEF PrintInv

LEMMA DigestFailureKept ==
  ASSUME PrintInv, pc \in {"options", "open", "stat", "compute", "print", "close"},
         pc' \in {"options", "open", "stat", "compute", "library", "print", "close"},
         io_failed' = io_failed
  PROVE  DigestFailure'
<1>1. io_failed = FALSE
  BY Zenon DEF PrintInv, DigestFailure
<1> QED
  BY Zenon, <1>1 DEF DigestFailure

LEMMA DigestInit == CmdDigestInit => PrintInv
<1> SUFFICES ASSUME CmdDigestInit PROVE PrintInv
  OBVIOUS
<1>1. /\ ParamsInit /\ cmd \in CommandLines /\ pc = "options" /\ i = 1 /\ digest_lines = <<>>
      /\ sizes = <<>> /\ status = 0 /\ io_failed = FALSE
  BY Zenon DEF CmdDigestInit, ParamsInit
<1>2. DigestParsed
  BY Zenon, <1>1, ParamsStart DEF DigestParsed
<1>3. <<>> \in Seq({}) /\ Len(<<>>) = 0 /\ 1 .. 0 = {}
  OBVIOUS
<1>4. IsSeq(<<>>)
  BY Zenon, <1>3 DEF IsSeq
<1>5. Printed(digest_lines, sizes, cmd.opts, 0)
  BY Zenon, <1>1, <1>3, <1>4 DEF Printed
<1>6. DigestPrinted
  BY Zenon, <1>1, <1>3, <1>4, <1>5 DEF DigestPrinted
<1> QED
  BY Zenon, <1>1, <1>2, <1>6 DEF PrintInv, DigestFailure

LEMMA ParseDigestOptionStep == PrintInv /\ ParseDigestOption => PrintInv'
<1> SUFFICES ASSUME PrintInv, ParseDigestOption PROVE PrintInv'
  OBVIOUS
<1>1. PICK accepted \in BOOLEAN :
        /\ ParseTreeParam(cmd.opts[i], accepted)
        /\ \/ accepted /\ i' = i + 1 /\ pc' = pc /\ status' = status
           \/ ~accepted /\ pc' = "out" /\ status' = 2
  BY Zenon DEF ParseDigestOption, Usage
<1>2. /\ pc = "options" /\ i <= Len(cmd.opts) /\ cmd.opts[i].opt \in TreeOptions
      /\ cmd' = cmd /\ digest_lines' = digest_lines /\ sizes' = sizes
      /\ cmd \in CommandLines /\ i \in 1 .. Len(cmd.opts) + 1
      /\ ParsedFrom(tree_params, cmd.opts, i - 1)
  BY Zenon DEF ParseDigestOption, PrintInv, DigestParsed
<1>3. io_failed' = io_failed /\ io_failed \in BOOLEAN
  BY Zenon, <1>1, <1>2 DEF ParseTreeParam, ParseHashAlg, ParseBlockSize, ParseSalt, ParseOut,
    TreeOptions, PrintInv, DigestFailure
<1>4. CASE pc' = "out" /\ status' = 2
  BY Zenon, <1>2, <1>3, <1>4, DigestFails
<1>5. CASE accepted /\ i' = i + 1 /\ pc' = pc /\ status' = status
  <2>1. ParseTreeParam(cmd.opts[i], TRUE)
    BY Zenon, <1>1, <1>5
  <2>2. ParsedFrom(tree_params', cmd'.opts, i' - 1)
    BY Zenon, <1>2, <1>5, <2>1, NextTreeOption
  <2>3. i' \in 1 .. Len(cmd'.opts) + 1
    BY Zenon, <1>2, <1>5, NextOption
  <2>4. DigestParsed'
    BY Zenon, <1>2, <1>5, <2>2, <2>3 DEF DigestParsed
  <2>5. DigestPrinted'
    BY Zenon, <1>2, <1>5 DEF PrintInv, DigestPrinted
  <2> QED
    BY Zenon, <1>2, <1>3, <1>5, <2>4, <2>5, DigestFailureKept DEF PrintInv
<1> QED
  BY Zenon, <1>1, <1>4, <1>5

LEMMA ParseFlagStep == PrintInv /\ ParseFlag => PrintInv'
<1> SUFFICES ASSUME PrintInv, ParseFlag PROVE PrintInv'
  OBVIOUS
<1>1. /\ pc = "options" /\ i <= Len(cmd.opts) /\ cmd.opts[i].opt \notin TreeOptions
      /\ cmd' = cmd /\ digest_lines' = digest_lines /\ sizes' = sizes /\ tree_params' = tree_params
      /\ io_failed' = io_failed
      /\ \/ i' = i + 1 /\ pc' = pc /\ status' = status
         \/ pc' = "out" /\ status' = 2
  BY Zenon DEF ParseFlag, Usage, paramvars
<1>2. /\ cmd \in CommandLines /\ i \in 1 .. Len(cmd.opts) + 1
      /\ ParsedFrom(tree_params, cmd.opts, i - 1) /\ io_failed \in BOOLEAN
  BY Zenon, <1>1 DEF PrintInv, DigestParsed, DigestFailure
<1>3. CASE pc' = "out" /\ status' = 2
  BY Zenon, <1>1, <1>2, <1>3, DigestFails
<1>4. CASE i' = i + 1 /\ pc' = pc /\ status' = status
  <2>1. ParsedFrom(tree_params', cmd'.opts, i' - 1)
    BY Zenon, <1>1, <1>2, <1>4, NextOtherOption
  <2>2. i' \in 1 .. Len(cmd'.opts) + 1
    BY Zenon, <1>1, <1>2, <1>4, NextOption
  <2>3. DigestParsed'
    BY Zenon, <1>1, <1>2, <1>4, <2>1, <2>2 DEF DigestParsed
  <2>4. DigestPrinted'
    BY Zenon, <1>1, <1>4 DEF PrintInv, DigestPrinted
  <2> QED
    BY Zenon, <1>1, <1>4, <2>3, <2>4, DigestFailureKept DEF PrintInv
<1> QED
  BY Zenon, <1>1, <1>3, <1>4

LEMMA DigestOptionsDoneStep == PrintInv /\ DigestOptionsDone => PrintInv'
<1> SUFFICES ASSUME PrintInv, DigestOptionsDone PROVE PrintInv'
  OBVIOUS
<1>1. /\ pc = "options" /\ i > Len(cmd.opts)
      /\ cmd' = cmd /\ digest_lines' = digest_lines /\ sizes' = sizes /\ tree_params' = tree_params
      /\ io_failed' = io_failed
      /\ \/ cmd.files >= 1 /\ pc' = "open" /\ i' = 1
         \/ pc' = "out" /\ status' = 2
  BY Zenon DEF DigestOptionsDone, Usage, paramvars
<1>2. /\ cmd \in CommandLines /\ i \in 1 .. Len(cmd.opts) + 1
      /\ ParsedFrom(tree_params, cmd.opts, i - 1) /\ io_failed \in BOOLEAN
      /\ IsSeq(sizes) /\ Len(sizes) = 0 /\ Printed(digest_lines, sizes, cmd.opts, 0)
  BY Zenon, <1>1 DEF PrintInv, DigestParsed, DigestPrinted, DigestFailure
<1>3. CASE pc' = "out" /\ status' = 2
  BY Zenon, <1>1, <1>2, <1>3, DigestFails
<1>4. CASE cmd.files >= 1 /\ pc' = "open" /\ i' = 1
  <2>1. Len(cmd.opts) \in Nat /\ cmd.files \in Nat
    BY Zenon, <1>2, OptionsAssumption
  <2>2. i - 1 = Len(cmd.opts) /\ i' \in 1 .. cmd.files + 1 /\ i' - 1 = 0
    BY <1>1, <1>2, <1>4, <2>1
  <2>3. DigestParsed'
    BY Zenon, <1>1, <1>2, <1>4, <2>2 DEF DigestParsed
  <2>4. DigestPrinted'
    BY Zenon, <1>1, <1>2, <1>4, <2>2 DEF DigestPrinted
  <2> QED
    BY Zenon, <1>1, <1>4, <2>3, <2>4, DigestFailureKept DEF PrintInv
<1> QED
  BY Zenon, <1>1, <1>3, <1>4

LEMMA OpenInputStep == PrintInv /\ OpenInput => PrintInv'
<1> SUFFICES ASSUME PrintInv, OpenInput PROVE PrintInv'
  OBVIOUS
<1>1. /\ pc = "open" /\ i <= cmd.files /\ i' = i
      /\ cmd' = cmd /\ digest_lines' = digest_lines /\ sizes' = sizes /\ tree_params' = tree_params
      /\ io_failed' = io_failed
      /\ (pc' = "stat" /\ status' = status) \/ (pc' = "out" /\ status' = 1)
  BY Zenon DEF OpenInput, DigestOutErr, paramvars
<1>2. DigestParsed /\ DigestPrinted /\ io_failed \in BOOLEAN
  BY Zenon DEF PrintInv, DigestFailure
<1>3. CASE pc' = "out" /\ status' = 1
  BY Zenon, <1>1, <1>2, <1>3, DigestFails
<1>4. CASE pc' = "stat" /\ status' = status
  <2>1. DigestParsed'
    BY Zenon, <1>1, <1>2, <1>4 DEF DigestParsed
  <2>2. DigestPrinted'
    BY Zenon, <1>1, <1>2, <1>4 DEF DigestPrinted
  <2> QED
    BY Zenon, <1>1, <1>4, <2>1, <2>2, DigestFailureKept DEF PrintInv
<1> QED
  BY Zenon, <1>1, <1>3, <1>4

\* The size found is the size of this file from here on.
LEMMA StatInputStep == PrintInv /\ StatInput => PrintInv'
<1> SUFFICES ASSUME PrintInv, StatInput PROVE PrintInv'
  OBVIOUS
<1>1. /\ pc = "stat" /\ i' = i /\ cmd' = cmd /\ digest_lines' = digest_lines /\ io_failed' = io_failed
      /\ \/ /\ \E s \in Sizes : /\ tree_params' = [tree_params EXCEPT !.file_size = s]
                                /\ sizes' = Append(sizes, s)
            /\ pc' = "compute" /\ status' = status
         \/ pc' = "out" /\ status' = 1 /\ sizes' = sizes
  BY Zenon DEF StatInput, DigestOutErr
<1>2. /\ cmd \in CommandLines /\ i \in 1 .. cmd.files + 1 /\ i <= cmd.files
      /\ ParsedFrom(tree_params, cmd.opts, Len(cmd.opts)) /\ io_failed \in BOOLEAN
      /\ IsSeq(sizes) /\ Len(sizes) = i - 1 /\ Printed(digest_lines, sizes, cmd.opts, i - 1)
  BY Zenon, <1>1 DEF PrintInv, DigestParsed, DigestPrinted, DigestFailure
<1>3. CASE pc' = "out" /\ status' = 1 /\ sizes' = sizes
  BY Zenon, <1>1, <1>2, <1>3, DigestFails
<1>4. CASE /\ \E s \in Sizes : /\ tree_params' = [tree_params EXCEPT !.file_size = s]
                               /\ sizes' = Append(sizes, s)
           /\ pc' = "compute" /\ status' = status
  <2>1. PICK s \in Sizes : /\ tree_params' = [tree_params EXCEPT !.file_size = s]
                           /\ sizes' = Append(sizes, s)
    BY Zenon, <1>4
  <2>2. ParsedFrom(tree_params', cmd.opts, Len(cmd.opts)) /\ tree_params'.file_size = s
    <3>1. ParsedFrom(tree_params, cmd.opts, Len(cmd.opts))
      BY Zenon, <1>2
    <3>2. tree_params' = [tree_params EXCEPT !.file_size = s]
      BY Zenon, <2>1
    <3> QED
      BY <3>1, <3>2, ParsedWithSize
  <2>3. (i - 1) + 1 = i
    <3>1. cmd.files \in Nat
      BY Zenon, <1>2, OptionsAssumption
    <3> QED
      BY <1>2, <3>1
  <2>4. IsSeq(sizes') /\ Len(sizes') = Len(sizes) + 1 /\ sizes'[Len(sizes) + 1] = s
    BY Zenon, <1>2, <2>1, AppendToSeq
  <2>5. Len(sizes') = i /\ sizes'[i] = s
    BY Zenon, <1>2, <2>3, <2>4
  <2>6. Printed(digest_lines, sizes', cmd.opts, i - 1)
    BY Zenon, <1>2, <2>1, StillPrinted
  <2>7. DigestParsed'
    BY Zenon, <1>1, <1>2, <1>4, <2>2, <2>5 DEF DigestParsed
  <2>8. DigestPrinted'
    BY Zenon, <1>1, <1>4, <2>4, <2>5, <2>6 DEF DigestPrinted
  <2> QED
    BY Zenon, <1>1, <1>4, <2>7, <2>8, DigestFailureKept DEF PrintInv
<1> QED
  BY Zenon, <1>1, <1>3, <1>4

LEMMA CallLibraryStep == PrintInv /\ CallLibrary => PrintInv'
<1> SUFFICES ASSUME PrintInv, CallLibrary PROVE PrintInv'
  OBVIOUS
<1>1. /\ pc = "compute" /\ pc' = "library" /\ i' = i /\ cmd' = cmd /\ digest_lines' = digest_lines
      /\ sizes' = sizes /\ tree_params' = tree_params /\ io_failed' = io_failed
      /\ status' = status /\ call' = tree_params /\ result' = "running"
  BY Zenon DEF CallLibrary, Lib!Begin
<1>2. DigestParsed /\ DigestPrinted
  BY Zenon DEF PrintInv
<1>3. DigestParsed'
  BY Zenon, <1>1, <1>2 DEF DigestParsed
<1>4. DigestPrinted'
  BY Zenon, <1>1, <1>2 DEF DigestPrinted
<1> QED
  BY Zenon, <1>1, <1>3, <1>4, DigestFailureKept DEF PrintInv

LEMMA LibraryStep == PrintInv /\ Library => PrintInv'
<1> SUFFICES ASSUME PrintInv, Library PROVE PrintInv'
  OBVIOUS
<1>1. /\ pc = "library" /\ LibStep(i) /\ pc' = pc /\ i' = i /\ cmd' = cmd /\ digest_lines' = digest_lines
      /\ sizes' = sizes /\ status' = status
  BY Zenon DEF Library, cmdvars
<1>2. /\ result = "running" /\ call' = call /\ tree_params' = tree_params
      /\ result' = "ok" => Lib!Acceptable(call)
  BY Zenon, <1>1, LibStepResult
<1>3. DigestParsed /\ DigestPrinted /\ io_failed \in BOOLEAN /\ ~io_failed
  BY Zenon, <1>1, <1>2 DEF PrintInv, DigestFailure
<1>4. DigestFailure'
  BY Zenon, <1>1, <1>3, LibStepFailure DEF DigestFailure
<1>5. Lib!Acceptable(call) => Lib!Acceptable(call)'
  BY Zenon, <1>2 DEF Lib!Acceptable
<1>6. DigestParsed'
  BY Zenon, <1>1, <1>2, <1>3, <1>5 DEF DigestParsed
<1>7. DigestPrinted'
  BY Zenon, <1>1, <1>3 DEF DigestPrinted
<1> QED
  BY Zenon, <1>4, <1>6, <1>7 DEF PrintInv

LEMMA LibraryReturnsStep == PrintInv /\ LibraryReturns => PrintInv'
<1> SUFFICES ASSUME PrintInv, LibraryReturns PROVE PrintInv'
  OBVIOUS
<1>1. /\ pc = "library" /\ i' = i /\ cmd' = cmd /\ digest_lines' = digest_lines /\ sizes' = sizes
      /\ tree_params' = tree_params /\ io_failed' = io_failed /\ call' = call
      /\ result' = result
      /\ \/ result = "ok" /\ pc' = "print" /\ status' = status
         \/ pc' = "out" /\ status' = 1
  BY Zenon DEF LibraryReturns, DigestOutErr, lib
<1>2. DigestParsed /\ DigestPrinted /\ io_failed \in BOOLEAN
  BY Zenon DEF PrintInv, DigestFailure
<1>3. CASE pc' = "out" /\ status' = 1
  BY Zenon, <1>1, <1>2, <1>3, DigestFails
<1>4. CASE result = "ok" /\ pc' = "print" /\ status' = status
  <2>1. Lib!Acceptable(call) => Lib!Acceptable(call)'
    BY Zenon, <1>1 DEF Lib!Acceptable
  <2>2. DigestParsed'
    BY Zenon, <1>1, <1>2, <1>4, <2>1 DEF DigestParsed
  <2>3. DigestPrinted'
    BY Zenon, <1>1, <1>2, <1>4 DEF DigestPrinted
  <2>4. io_failed = FALSE
    BY Zenon, <1>1, <1>4 DEF PrintInv, DigestFailure
  <2>5. DigestFailure'
    BY Zenon, <1>1, <1>4, <2>4 DEF DigestFailure
  <2> QED
    BY Zenon, <2>2, <2>3, <2>5 DEF PrintInv
<1> QED
  BY Zenon, <1>1, <1>3, <1>4

LEMMA PrintDigestStep == PrintInv /\ PrintDigest => PrintInv'
<1> SUFFICES ASSUME PrintInv, PrintDigest PROVE PrintInv'
  OBVIOUS
<1> DEFINE line == [digest  |-> DescriptorOf(call, i), wrapped |-> for_builtin_sig,
                    alg     |-> ~compact /\ ~for_builtin_sig,
                    name    |-> IF compact THEN 0 ELSE i]
<1>1. /\ pc = "print" /\ pc' = "close" /\ i' = i /\ cmd' = cmd /\ sizes' = sizes
      /\ digest_lines' = Append(digest_lines, line)
      /\ tree_params' = tree_params /\ io_failed' = io_failed /\ status' = status
  BY Zenon DEF PrintDigest
<1>2. /\ cmd \in CommandLines /\ i \in 1 .. cmd.files + 1 /\ i <= cmd.files
      /\ ParsedFrom(tree_params, cmd.opts, Len(cmd.opts))
      /\ ParsedFrom(call, cmd.opts, Len(cmd.opts)) /\ call.file_size = sizes[i]
      /\ Lib!Acceptable(call)
      /\ IsSeq(sizes) /\ Len(sizes) = i /\ Printed(digest_lines, sizes, cmd.opts, i - 1)
  BY Zenon, <1>1 DEF PrintInv, DigestParsed, DigestPrinted
<1> DEFINE n == i - 1
<1>3. n \in Nat /\ n + 1 = i
  <2>1. cmd.files \in Nat
    BY Zenon, <1>2, OptionsAssumption
  <2> QED
    BY <1>2, <2>1
<1>4. Printed(digest_lines, sizes, cmd.opts, n)
  BY Zenon, <1>2
<1>5. line.digest = DescriptorOf(call, i)
  BY Zenon
<1> HIDE DEF n, line
<1>6. /\ cmd \in CommandLines /\ ParsedFrom(call, cmd.opts, Len(cmd.opts))
      /\ Lib!Acceptable(call)
  BY Zenon, <1>2
<1>7. /\ AsGiven(cmd.opts, DescriptorOf(call, i))
      /\ DescriptorOf(call, i).data_size = call.file_size
      /\ DescriptorOf(call, i).root_hash = i
  <2>1. AsGiven(cmd.opts, DescriptorOf(call, i))
    BY Zenon, <1>6, DescriptorAsked
  <2>2. DescriptorOf(call, i).data_size = call.file_size /\ DescriptorOf(call, i).root_hash = i
    BY Zenon DEF DescriptorOf
  <2> QED
    BY Zenon, <2>1, <2>2
<1>8. /\ line.digest.root_hash = n + 1 /\ line.digest.data_size = sizes[n + 1]
      /\ AsGiven(cmd.opts, line.digest)
  BY Zenon, <1>2, <1>3, <1>5, <1>7
<1>9. Printed(Append(digest_lines, line), sizes, cmd.opts, n + 1)
  BY Zenon, <1>3, <1>4, <1>8, OneMorePrinted
<1>10. Printed(digest_lines', sizes, cmd.opts, i)
  BY Zenon, <1>1, <1>3, <1>9
<1>11. DigestParsed'
  BY Zenon, <1>1, <1>2 DEF DigestParsed
<1>12. DigestPrinted'
  BY Zenon, <1>1, <1>2, <1>10 DEF DigestPrinted
<1> QED
  BY Zenon, <1>1, <1>11, <1>12, DigestFailureKept DEF PrintInv

LEMMA CloseInputStep == PrintInv /\ CloseInput => PrintInv'
<1> SUFFICES ASSUME PrintInv, CloseInput PROVE PrintInv'
  OBVIOUS
<1>1. /\ pc = "close" /\ pc' = "open" /\ i' = i + 1 /\ cmd' = cmd /\ sizes' = sizes
      /\ digest_lines' = digest_lines /\ tree_params' = tree_params /\ io_failed' = io_failed
  BY Zenon DEF CloseInput
<1>2. /\ cmd \in CommandLines /\ i \in 1 .. cmd.files + 1 /\ i <= cmd.files
      /\ ParsedFrom(tree_params, cmd.opts, Len(cmd.opts))
      /\ IsSeq(sizes) /\ Len(sizes) = i /\ Printed(digest_lines, sizes, cmd.opts, i)
  BY Zenon, <1>1 DEF PrintInv, DigestParsed, DigestPrinted
<1>3. i' - 1 = i /\ i' \in 1 .. cmd.files + 1
  <2>1. cmd.files \in Nat
    BY Zenon, <1>2, OptionsAssumption
  <2> QED
    BY <1>1, <1>2, <2>1
<1>4. DigestParsed'
  BY Zenon, <1>1, <1>2, <1>3 DEF DigestParsed
<1>5. DigestPrinted'
  BY Zenon, <1>1, <1>2, <1>3 DEF DigestPrinted
<1> QED
  BY Zenon, <1>1, <1>4, <1>5, DigestFailureKept DEF PrintInv

LEMMA FilesDoneStep == PrintInv /\ FilesDone => PrintInv'
<1> SUFFICES ASSUME PrintInv, FilesDone PROVE PrintInv'
  OBVIOUS
<1>1. /\ pc = "open" /\ i > cmd.files /\ pc' = "out" /\ cmd' = cmd /\ sizes' = sizes
      /\ digest_lines' = digest_lines /\ io_failed' = io_failed
  BY Zenon DEF FilesDone, paramvars
<1>2. /\ cmd \in CommandLines /\ i \in 1 .. cmd.files + 1 /\ io_failed = FALSE
      /\ IsSeq(sizes) /\ Printed(digest_lines, sizes, cmd.opts, i - 1)
  BY Zenon, <1>1 DEF PrintInv, DigestParsed, DigestPrinted, DigestFailure
<1>3. i - 1 = cmd.files
  <2>1. cmd.files \in Nat
    BY Zenon, <1>2, OptionsAssumption
  <2> QED
    BY <1>1, <1>2, <2>1
<1>4. DigestParsed' /\ DigestFailure'
  BY Zenon, <1>1, <1>2 DEF DigestParsed, DigestFailure
<1>5. DigestPrinted'
  BY Zenon, <1>1, <1>2, <1>3 DEF DigestPrinted
<1> QED
  BY Zenon, <1>4, <1>5 DEF PrintInv

LEMMA CmdDigestOutStep == PrintInv /\ CmdDigestOut => PrintInv'
<1> SUFFICES ASSUME PrintInv, CmdDigestOut PROVE PrintInv'
  OBVIOUS
<1>1. PICK destroyed \in BOOLEAN :
        /\ io_failed' = (io_failed \/ ~destroyed)
        /\ status' = IF ~destroyed /\ status = 0 THEN 1 ELSE status
  BY Zenon DEF CmdDigestOut, DestroyTreeParams
<1>2. /\ pc = "out" /\ pc' = "exit" /\ cmd' = cmd /\ sizes' = sizes /\ digest_lines' = digest_lines
  BY Zenon DEF CmdDigestOut
<1>3. /\ cmd \in CommandLines /\ DigestPrinted /\ DigestFailure /\ io_failed \in BOOLEAN
  BY Zenon DEF PrintInv, DigestParsed, DigestFailure
<1>4. io_failed' \in BOOLEAN /\ (destroyed = TRUE => io_failed' = io_failed)
  <2>1. CASE destroyed = TRUE
    <3>1. (io_failed \/ ~TRUE) = io_failed
      BY <1>3
    <3> QED
      BY Zenon, <1>1, <1>3, <2>1, <3>1
  <2>2. CASE destroyed = FALSE
    <3>1. (io_failed \/ ~FALSE) = TRUE
      OBVIOUS
    <3> QED
      BY Zenon, <1>1, <2>2, <3>1
  <2> QED
    BY Zenon, <1>1, <2>1, <2>2
<1>5. status' = 0 => status = 0 /\ destroyed = TRUE
  <2>1. 1 # 0
    OBVIOUS
  <2> QED
    BY Zenon, <1>1, <2>1
<1>6. DigestParsed'
  BY Zenon, <1>2, <1>3 DEF DigestParsed
<1>7. DigestPrinted'
  BY Zenon, <1>2, <1>3, <1>5 DEF DigestPrinted
<1>8. DigestFailure'
  BY Zenon, <1>2, <1>3, <1>4, <1>5 DEF DigestFailure
<1> QED
  BY Zenon, <1>6, <1>7, <1>8 DEF PrintInv

LEMMA DigestStutter == PrintInv /\ UNCHANGED digestvars => PrintInv'
<1> SUFFICES ASSUME PrintInv, UNCHANGED digestvars PROVE PrintInv'
  OBVIOUS
<1>1. /\ pc' = pc /\ cmd' = cmd /\ i' = i /\ digest_lines' = digest_lines /\ status' = status
      /\ sizes' = sizes /\ tree_params' = tree_params /\ io_failed' = io_failed
      /\ call' = call /\ result' = result
  BY Zenon DEF digestvars, cmdvars, paramvars, lib
<1>2. io_failed' <=> io_failed
  BY <1>1
<1>3. Lib!Acceptable(call) => Lib!Acceptable(call)'
  BY Zenon, <1>1 DEF Lib!Acceptable
<1>4. DigestParsed'
  BY Zenon, <1>1, <1>3 DEF PrintInv, DigestParsed
<1>5. DigestPrinted' /\ DigestFailure'
  BY Zenon, <1>1, <1>2 DEF PrintInv, DigestPrinted, DigestFailure
<1> QED
  BY Zenon, <1>4, <1>5 DEF PrintInv

LEMMA DigestNext == PrintInv /\ [CmdDigestNext]_digestvars => PrintInv'
BY Zenon, ParseDigestOptionStep, ParseFlagStep, DigestOptionsDoneStep, OpenInputStep,
  StatInputStep, CallLibraryStep, LibraryStep, LibraryReturnsStep, PrintDigestStep,
  CloseInputStep, FilesDoneStep, CmdDigestOutStep, DigestStutter
  DEF CmdDigestNext, CmdDigestStep, CmdDigestExited

LEMMA DigestInvariance == CmdDigestSpec => []PrintInv
BY DigestInit, DigestNext, PTL DEF CmdDigestSpec

(***************************************************************************)
(* fsverity digest: an exit status of 0 means one line for each file, in   *)
(* order, with the digest of that file under the options of the command    *)
(* line, and no failure of an output file.                                 *)
(***************************************************************************)
THEOREM DigestPrintsEveryFile == CmdDigestSpec => []SuccessPrintsEveryFile
<1>1. PrintInv => SuccessPrintsEveryFile
  BY Zenon DEF PrintInv, DigestPrinted, Printed, DigestFailure, SuccessPrintsEveryFile
<1> QED
  BY <1>1, DigestInvariance, PTL
=============================================================================
