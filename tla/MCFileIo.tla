------------------------------ MODULE MCFileIo ------------------------------
(***************************************************************************)
(* FileIo with files, counts and offsets of up to MaxSize bytes and a      *)
(* single read() or write() limited to IntMax of them.                     *)
(***************************************************************************)
EXTENDS FileIo
=============================================================================
