--------------------------- MODULE MCFsverityMain ---------------------------
(***************************************************************************)
(* A small instance of FsverityMain: every command line of up to four      *)
(* words, with two commands.                                               *)
(***************************************************************************)
EXTENDS FsverityMain, MCParams

MCArgvs ==
  UNION {[1 .. n -> {"digest", "measure", "file", "--help", "--version", "--"}] : n \in 0 .. 4}
=============================================================================
