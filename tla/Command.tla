------------------------------ MODULE Command ------------------------------
(***************************************************************************)
(* What the subcommands of the fsverity program (programs/cmd_*.c) have in *)
(* common: the file at hand and the ways to the label "out".               *)
(***************************************************************************)
EXTENDS Program

VARIABLE file   \* its descriptor: "closed" or "open"

Usage == pc' = "out" /\ status' = 2
OutErr == pc' = "out" /\ status' = 1
Goto(next) == pc' = next /\ UNCHANGED status
=============================================================================
