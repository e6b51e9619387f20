---------------------------- MODULE FsverityMain ----------------------------
(***************************************************************************)
(* The entry of the fsverity program (programs/fsverity.c): main() looks   *)
(* the command up, looks for --help and --version, and runs the command.   *)
(* usage_all() also lists the hash algorithms.                             *)
(***************************************************************************)
EXTENDS Sequences, HashAlgs, Program

CONSTANTS
  Argvs,      \* the arguments after the program's name, sequences of words
  Commands    \* the names in fsverity_commands[]

\* "none" and "all" are no commands' names.  fsverity_hash_algs[] has no gap
\* behind its entry 0, which has no name.
ASSUME MainAssumption ==
  /\ Argvs \subseteq Seq(STRING)
  /\ "none" \notin Commands /\ "all" \notin Commands
  /\ \A n \in DOMAIN HashAlgTable : \A m \in 1 .. n : GetHashName(m) # "NULL"

VARIABLES
  argv,
  shown,     \* what was printed: "version", the usage of a command, or "all"
  algs,      \* the hash algorithms listed so far
  ran        \* the command that was run, or "none"

mainvars == <<pc, argv, i, shown, algs, ran, status>>

MainInit ==
  /\ argv \in Argvs
  /\ pc = "main" /\ i = 1 /\ shown = "none" /\ algs = {} /\ ran = "none" /\ status = 0

\* find_command(), "none" for a null pointer
FindCommand(name) == IF name \in Commands THEN name ELSE "none"

\* Print a usage and exit with the given status.
PrintUsage(cmd, code) ==
  /\ shown' = IF cmd = "none" THEN "all" ELSE cmd
  /\ status' = code
  /\ pc' = IF cmd = "none" THEN "algs" ELSE "exit"

Main ==
  /\ pc = "main"
  /\ IF argv = <<>> THEN PrintUsage("none", 2)
     ELSE pc' = "scan" /\ UNCHANGED <<shown, status>>
  /\ UNCHANGED <<argv, i, algs, ran>>

\* Mutant: the end of the options is not noticed.
EndsOptionsNever(word) == FALSE

EndsOptions(word) == word = "--"

\* One round of the loop of handle_common_options()
ScanArgument ==
  /\ pc = "scan" /\ i <= Len(argv)
  /\ LET word == argv[i]
     IN  CASE word = "--help" -> PrintUsage(FindCommand(argv[1]), 0)
           [] word = "--version" ->
                shown' = "version" /\ status' = 0 /\ pc' = "exit"
           [] EndsOptions(word) -> pc' = "run" /\ UNCHANGED <<shown, status>>
           [] OTHER -> UNCHANGED <<pc, shown, status>>
  /\ i' = i + 1
  /\ UNCHANGED <<argv, algs, ran>>

ScanDone ==
  /\ pc = "scan" /\ i > Len(argv)
  /\ pc' = "run"
  /\ UNCHANGED <<argv, i, shown, algs, ran, status>>

\* The command's own status is left to its module.
RunCommand ==
  /\ pc = "run"
  /\ LET cmd == FindCommand(argv[1])
     IN  \/ cmd = "none" /\ PrintUsage(cmd, 2) /\ UNCHANGED ran
         \/ cmd # "none" /\ ran' = cmd /\ pc' = "exit" /\ UNCHANGED <<shown, status>>
  /\ UNCHANGED <<argv, i, algs>>

FirstAlg == 1

\* show_all_hash_algs(): numbers from 1 on, up to the first without a name
ShowAllHashAlgs ==
  /\ pc = "algs"
  /\ algs' = {n \in DOMAIN HashAlgTable :
                \A m \in FirstAlg .. n : GetHashName(m) # "NULL"}
  /\ pc' = "exit"
  /\ UNCHANGED <<argv, i, shown, ran, status>>

MainStep == Main \/ ScanArgument \/ ScanDone \/ RunCommand \/ ShowAllHashAlgs

MainExited == pc = "exit" /\ UNCHANGED mainvars

MainSpec == MainInit /\ [][MainStep \/ MainExited]_mainvars /\ WF_mainvars(MainStep)

----------------------------------------------------------------------------
\* Position k of argv is --help or --version, and no "--" or other such option
\* comes before it.
Asks(k, word) ==
  argv[k] = word /\ \A j \in 1 .. k - 1 : argv[j] \notin {"--", "--help", "--version"}

(***************************************************************************)
(* A command runs exactly if its name comes first and neither --help nor   *)
(* --version is among the options before a "--"; otherwise usage or        *)
(* version is printed, with status 2 if it was not asked for.  The usage   *)
(* of the program lists every algorithm that --hash-alg accepts by name,   *)
(* although the loop stops at the first number without a name.             *)
(***************************************************************************)
DispatchesCommand ==
  pc = "exit" =>
    LET help    == \E k \in DOMAIN argv : Asks(k, "--help")
        version == \E k \in DOMAIN argv : Asks(k, "--version")
        known   == argv # <<>> /\ argv[1] \in Commands
    IN  /\ ran = IF known /\ ~help /\ ~version THEN argv[1] ELSE "none"
        /\ shown = CASE version -> "version"
                     [] ~version /\ ~known -> "all"
                     [] help /\ known -> argv[1]
                     [] OTHER -> "none"
        /\ ran = "none" => status = IF help \/ version THEN 0 ELSE 2
        /\ shown = "all" =>
             algs = {n \in DOMAIN HashAlgTable : FindHashAlgByName(HashAlgTable[n].name) = n}
=============================================================================
