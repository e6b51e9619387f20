------------------------------ MODULE HexConv ------------------------------
(***************************************************************************)
(* hex2bin() and bin2hex() of programs/utils.c.  A string is a sequence of *)
(* character codes, without its terminating zero.                          *)
(***************************************************************************)
EXTENDS Integers, Sequences

Hex2BinChar(c) ==
  CASE c \in 48 .. 57 -> c - 48           \* '0' .. '9'
    [] c \in 97 .. 102 -> 10 + (c - 97)   \* 'a' .. 'f'
    [] c \in 65 .. 70 -> 10 + (c - 65)    \* 'A' .. 'F'
    [] OTHER -> -1

\* hex2bin() returns true ...
Hex2BinOk(hex, bin_len) ==
  Len(hex) = 2 * bin_len /\ \A k \in 1 .. Len(hex) : Hex2BinChar(hex[k]) >= 0

\* ... and has stored these bytes.
Hex2Bin(hex, bin_len) ==
  [k \in 1 .. bin_len |-> 16 * Hex2BinChar(hex[2 * k - 1]) + Hex2BinChar(hex[2 * k])]

Bin2HexChar(nibble) == IF nibble < 10 THEN 48 + nibble ELSE 97 + (nibble - 10)

Bin2Hex(bin) ==
  [k \in 1 .. 2 * Len(bin) |->
     Bin2HexChar(IF k % 2 = 1 THEN bin[(k + 1) \div 2] \div 16 ELSE bin[(k + 1) \div 2] % 16)]
=============================================================================
