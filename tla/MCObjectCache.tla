--------------------------- MODULE MCObjectCache ---------------------------
(* Constants of ObjectCache for TLC. *)
EXTENDS ObjectCache

CONSTANTS t1, t2

MCThreads == {t1, t2}
MCSymmetry == Permutations(MCThreads)
MCObjsPerSpan == [c \in Classes |-> 3 - c]
=============================================================================
