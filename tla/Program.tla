------------------------------ MODULE Program ------------------------------
(***************************************************************************)
(* Where a run of the fsverity program is, which of its arguments or files *)
(* is next, and its exit status: shared by main() and the subcommands.     *)
(***************************************************************************)
VARIABLES pc, i, status
=============================================================================
