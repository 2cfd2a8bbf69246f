------------------------------ MODULE MCArith -------------------------------
(* Numbers for TLC: on the left words of all kinds; on the right those whose *)
(* words are at the ends of the range, where the carries are.               *)
EXTENDS Arith

MCNumbers == [Index -> {0, 1, 2, 5, 7}]
MCSeconds == [Index -> {0, 1, Word - 1}]

=============================================================================
