----------------------------- MODULE BlockStore -----------------------------
(***************************************************************************)
(* What tc_malloc and tc_free promise the program: a block is handed out   *)
(* once, shares no byte with a block still in use whoever asked for it,    *)
(* and stays until it is freed.  ObjectCache is the implementation (thread *)
(* caches, central cache, spans) and is shown to refine this module.       *)
(***************************************************************************)
EXTENDS Naturals

CONSTANTS Spans,   \* the runs of pages that blocks are cut from
          MaxObjs  \* most blocks cut from one span

\* Block <<s, 0>> is the whole of span s, <<s, i>> the i-th object of it.
Blocks == Spans \X (0 .. MaxObjs)

Overlap(b, d) == b[1] = d[1] /\ (b[2] = d[2] \/ b[2] = 0 \/ d[2] = 0)

VARIABLES live,   \* blocks in use
          calls   \* how often tc_malloc has returned

vars == <<live, calls>>

Init == live = {} /\ calls = 0

\* tc_malloc returns b.
Malloc(b) ==
    /\ calls' = calls + 1
    /\ live' = live \cup {b}
    /\ \A d \in live : ~Overlap(b, d)

\* tc_free of b.
Free(b) ==
    /\ live' = live \ {b}
    /\ UNCHANGED calls

Next ==
    \/ \E b \in Blocks \ live : Malloc(b)
    \/ \E b \in live : Free(b)

Spec == Init /\ [][Next]_vars
=============================================================================
