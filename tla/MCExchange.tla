---------------------------- MODULE MCExchange ----------------------------
(***************************************************************************)
(* Exchange for TLC: words with responses of one byte less than the packet *)
(* holds, exactly as much and one more, a word that is not in the index    *)
(* and one that is too long to be sent.  One letter is also the value of a *)
(* message type, as the space is of ERROR in the program.                  *)
(***************************************************************************)
EXTENDS Exchange

a == 4
b == ERROR

MCFound == {<<a>>, <<b>>, <<a, b>>}
MCWords == MCFound \cup {<<b, a>>, <<a, a, a>>}
MCLines == [w \in MCFound |->
              CASE w = <<a>> -> <<<<a, b>>, <<b, b>>>>
                [] w = <<b>> -> <<<<b, a>>, <<a, b, a>>>>
                [] OTHER -> <<<<a, a, a>>, <<b, b, b>>>>]
=============================================================================
