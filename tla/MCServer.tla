----------------------------- MODULE MCServer -----------------------------
(***************************************************************************)
(* Server for TLC: the words of the connections.  The first request of c1  *)
(* and of c2 asks for a word of the index, a different one each; any other *)
(* request asks for a word that is in no document.                         *)
(***************************************************************************)
EXTENDS Server, TLC

CONSTANTS c1, c2, c3

MCQuery == [x \in Conns |->
              CASE x = <<c1, 1>> -> "apple"
                [] x = <<c2, 1>> -> "pear"
                [] OTHER -> "plum"]
MCIndex == {"apple", "pear"}

WorkerSymmetry == Permutations(Workers)
=============================================================================
