------------------------- MODULE MCCmdDumpMetadata -------------------------
(***************************************************************************)
(* A small instance of CmdDumpMetadata: up to five bytes of metadata, read *)
(* at most two at a time, and ranges within, across and behind its end.    *)
(***************************************************************************)
EXTENDS CmdDumpMetadata, MCParams

Numbers(opt) == {Option(opt, n, TRUE, "") : n \in {0, 2, 4, 9}}

Opts == Numbers("offset") \cup Numbers("length") \cup
        {Option("length", 3, FALSE, "3k"), Option("offset", 1, FALSE, "1k"), Named("unknown", "")}

MCDumps ==
  [opts : {<<>>} \cup [1 .. 1 -> Opts] \cup [1 .. 2 -> Opts], args : {<<"descriptor", "f">>}] \cup
  [opts : {<<>>}, args : {<<>>, <<"descriptor">>, <<"nonsense", "f">>}] \cup
  [opts : {<<o, l, o>> : o \in Numbers("offset"), l \in Numbers("length")},
   args : {<<"descriptor", "f">>}]
=============================================================================
