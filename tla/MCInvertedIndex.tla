-------------------------- MODULE MCInvertedIndex --------------------------
(***************************************************************************)
(* InvertedIndex for TLC: three words, and every hash function into a set  *)
(* large enough that homes collide, wrap and move when the table doubles.  *)
(***************************************************************************)
EXTENDS InvertedIndex, TLC

MCHashes == 0 .. 5

WordSymmetry == Permutations(Words)
=============================================================================
