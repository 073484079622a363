------------------------------ MODULE PageHeap ------------------------------
(***************************************************************************)
(* The lowest tier of tc_malloc.c: spans of whole pages cut from what sbrk  *)
(* yields, free lists by size, and the map from pages to spans.  Every      *)
(* operation runs under pageheap_lock from end to end and is one action.    *)
(*                                                                          *)
(* Pages are counted from pgcache.ini_brk_addr, which the kernel aligns to  *)
(* a page, so a span's start is the address of its page pageId.  The rings  *)
(* of spans are sequences, head first: they are only changed at the head.   *)
(***************************************************************************)
EXTENDS Integers, SequencesExt

CONSTANTS
    PAGEHEAPSIZE,  \* free lists: sizes 1, 2, ..., and the last for all larger ones
    SYSPAGES,      \* pages of SYSFETCHSIZE
    SPANPOOLSIZE,  \* pages for one chunk of span structures
    ChunkSpans,    \* span structures in a chunk
    PAGEINBYTES,   \* bytes of a page
    Requests,      \* bytes of the blocks asked for: by tc_malloc beyond THRESHALLOC,
                   \* and the BATCH pages of the central cache
    MaxPages, MaxSpans,  \* bounds: pages obtained from sbrk, span structures used
    NULL

ASSUME HeapAssumption ==
    /\ PAGEHEAPSIZE \in Nat \ {0} /\ SYSPAGES \in Nat /\ SYSPAGES >= PAGEHEAPSIZE
    /\ SPANPOOLSIZE \in Nat \ {0} /\ ChunkSpans \in Nat /\ ChunkSpans >= 2
    /\ PAGEINBYTES \in Nat \ {0}
    /\ Requests \subseteq Nat /\ \A n \in Requests : n >= PAGEINBYTES
    /\ MaxPages \in Nat /\ MaxSpans \in Nat
    /\ NULL \notin Nat

VARIABLES
    heap,   \* the globals pgcache, mp_obj, spanchunk and the break; see Init
    given,  \* spans handed out, each with the number of bytes asked for
    alien   \* pages that the C library took from sbrk for itself

vars == <<heap, given, alien>>

\* brk: the break; spans: the structures used so far; rem: how many more the
\* chunk holds; meta: those that stand for a chunk; list: the free lists;
\* page_mapping: defined on the pages ever mapped, NULL elsewhere.
Init ==
    /\ heap = [brk |-> 0, spans |-> <<>>, rem |-> 0, meta |-> {},
               list |-> [i \in 1 .. PAGEHEAPSIZE |-> <<>>], page_mapping |-> <<>>]
    /\ given = {} /\ alien = {}

\* The whole pages in a number of bytes: a shift, which rounds down.
bytes_to_pages(nbytes) == nbytes \div PAGEINBYTES

pages_to_bytes(npage) == npage * PAGEINBYTES

\* The pages of a span.
Pages(h, s) == h.spans[s].pageId .. (h.spans[s].pageId + h.spans[s].pageSize - 1)

\* Mutant: the last page of a span is left out.
UpdateAllButLast(h, s) ==
    LET own == Pages(h, s) \ {h.spans[s].pageId + h.spans[s].pageSize - 1}
    IN  [h EXCEPT !.page_mapping =
            [p \in DOMAIN @ \cup own |-> IF p \in own THEN s ELSE @[p]]]

update_mapping(h, s) ==
    [h EXCEPT !.page_mapping =
        [p \in DOMAIN @ \cup Pages(h, s) |-> IF p \in Pages(h, s) THEN s ELSE @[p]]]

\* The list for spans of n pages.
Bucket(n) == IF n > PAGEHEAPSIZE THEN PAGEHEAPSIZE ELSE n

spanlist_push(h, s) ==
    LET b == Bucket(h.spans[s].pageSize)
    IN  [h EXCEPT !.list = [@ EXCEPT ![b] = <<s>> \o h.list[b]]]

\* A new chunk of span structures; the first of them stands for the chunk's pages.
new_chunk(h) ==
    LET m == Len(h.spans) + 1
    IN  update_mapping(
          [h EXCEPT !.brk = @ + SPANPOOLSIZE, !.rem = ChunkSpans - 1, !.meta = @ \cup {m},
                    !.spans = Append(@, [pageId |-> h.brk, pageSize |-> SPANPOOLSIZE])], m)

\* alloc_span: the next structure, which is then the last of spans.  Without an
\* address its pageId is that of fresh memory, 0.
alloc_span(h, npages, ptr) ==
    LET g == IF h.rem = 0 THEN new_chunk(h) ELSE h
    IN  [g EXCEPT !.rem = @ - 1,
                  !.spans = Append(@, [pageId |-> IF ptr = NULL THEN 0 ELSE ptr,
                                       pageSize |-> npages])]

fetch_from_system(h) ==
    LET g == alloc_span([h EXCEPT !.brk = @ + SYSPAGES], SYSPAGES, h.brk)
        s == Len(g.spans)
    IN  update_mapping(spanlist_push(g, s), s)

\* tmp with size pages, and new from page first on.
Resized(h, tmp, size, new, first) ==
    [h EXCEPT !.spans =
        [@ EXCEPT ![tmp] = [pageId |-> h.spans[tmp].pageId, pageSize |-> size],
                  ![new] = [pageId |-> first, pageSize |-> h.spans[new].pageSize]]]

\* Mutant: the new span gets the first pages of tmp, which keeps its pageId.
SplitFromFront(h, tmp, new, npage) ==
    LET size == h.spans[tmp].pageSize - npage
        g == Resized(h, tmp, size, new, h.spans[tmp].pageId)
    IN  update_mapping(IF size > 0 THEN spanlist_push(g, tmp) ELSE g, new)

\* Mutant: tmp goes back to a list before its size is reduced.
SplitPushFirst(h, tmp, new, npage) ==
    LET size == h.spans[tmp].pageSize - npage
    IN  update_mapping(Resized(spanlist_push(h, tmp), tmp, size, new,
                               h.spans[tmp].pageId + size), new)

\* split_spans: the new span gets the last npage pages of tmp.
split_spans(h, tmp, new, npage) ==
    LET size == h.spans[tmp].pageSize - npage
        g == Resized(h, tmp, size, new, h.spans[tmp].pageId + size)
    IN  update_mapping(IF size > 0 THEN spanlist_push(g, tmp) ELSE g, new)

\* The result of fetch_span: the heap after it and the span.
Fetched(h, s) == [heap |-> h, span |-> s]

\* remove_span of the head of list i.
PopList(h, i) == [h EXCEPT !.list = [@ EXCEPT ![i] = Tail(h.list[i])]]

\* Mutant: the loop starts one list too early, from sizes that are too small.
LargerFromBelow(h, npage) ==
    {i \in (IF npage > 1 THEN npage - 1 ELSE 1) .. PAGEHEAPSIZE : h.list[i] # <<>>}

\* The lists the for loop of fetch_span finds in use, for larger spans.
Larger(h, npage) == {i \in npage + 1 .. PAGEHEAPSIZE : h.list[i] # <<>>}

\* The part of fetch_span after a structure for the result, the last of spans,
\* was allocated: cut it off a span of the first list in use.
FromLarger(h, npage) ==
    LET i == CHOOSE k \in Larger(h, npage) : \A j \in Larger(h, npage) : k <= j
        new == Len(h.spans)
    IN  Fetched(split_spans(PopList(h, i), Head(h.list[i]), new, npage), new)

\* fetch_span when a list serves the request: the head of its own list whatever
\* its size, or a part of a larger span.
FromLists(h, npage) ==
    LET b == Bucket(npage)
    IN  IF h.list[b] # <<>> THEN Fetched(PopList(h, b), Head(h.list[b]))
        ELSE FromLarger(alloc_span(h, npage, NULL), npage)

\* A request of more than PAGEHEAPSIZE pages that sbrk serves alone.
FromBreak(h, npage) ==
    LET g == alloc_span([h EXCEPT !.brk = @ + npage], npage, h.brk)
        s == Len(g.spans)
    IN  Fetched(update_mapping(g, s), s)

\* fetch_span.  Without a list to serve it the structure allocated first is lost,
\* and the request goes to sbrk or is made again after fetch_from_system.  The
\* search for a span of at least npage pages on the last list (lines 200-218) is
\* left out: it is only reached when that list is empty.
fetch_span(h, npage) ==
    LET tried == alloc_span(h, npage, NULL)
    IN  IF h.list[Bucket(npage)] # <<>> \/ Larger(h, npage) # {}
        THEN FromLists(h, npage)
        ELSE IF npage > PAGEHEAPSIZE THEN FromBreak(tried, npage)
        ELSE FromLists(fetch_from_system(tried), npage)

\* fetch_span under the lock, by tc_malloc or get_span_central.
Fetch(nbytes) ==
    LET r == fetch_span(heap, bytes_to_pages(nbytes))
    IN  /\ r.heap.brk <= MaxPages /\ Len(r.heap.spans) <= MaxSpans
        /\ heap' = r.heap
        /\ given' = given \cup {[span |-> r.span, nbytes |-> nbytes]}
        /\ UNCHANGED alien

\* return_span_to_pgcache, of the span that the map names for the block's first
\* page.  The merge with its neighbours is commented out.
Return(g) ==
    LET s == heap.page_mapping[heap.spans[g.span].pageId]
    IN  /\ heap' = update_mapping(spanlist_push(heap, s), s)
        /\ given' = given \ {g}
        /\ UNCHANGED alien

\* Another part of the process moves the break.
AlienSbrk ==
    /\ heap.brk < MaxPages
    /\ alien' = alien \cup {heap.brk}
    /\ heap' = [heap EXCEPT !.brk = @ + 1]
    /\ UNCHANGED given

Next ==
    \/ \E n \in Requests : Fetch(n)
    \/ \E g \in given : Return(g)
    \/ AlienSbrk

Spec == Init /\ [][Next]_vars

-----------------------------------------------------------------------------
(* Properties *)

\* The globals have their types.
TypeOK ==
    /\ heap.brk \in 0 .. MaxPages
    /\ heap.spans \in Seq([pageId : Nat, pageSize : Nat \ {0}])
    /\ heap.rem \in 0 .. ChunkSpans
    /\ heap.meta \subseteq DOMAIN heap.spans
    /\ heap.list \in [1 .. PAGEHEAPSIZE -> Seq(DOMAIN heap.spans)]
    /\ DOMAIN heap.page_mapping \subseteq Nat
    /\ \A p \in DOMAIN heap.page_mapping : heap.page_mapping[p] \in DOMAIN heap.spans
    /\ given \subseteq [span : DOMAIN heap.spans, nbytes : Requests]
    /\ alien \subseteq Nat

Free == UNION {ToSet(heap.list[i]) : i \in 1 .. PAGEHEAPSIZE}
Given == {g.span : g \in given}
Live == Free \cup Given \cup heap.meta

\* Every page below the break has one owner: a free span, a span handed out once, a
\* chunk of span structures, or the C library.  No page is lost and none is given
\* out twice, whatever sequence of splits and returns (tc_malloc.c:143-317).
PagesPartitioned ==
    /\ \A s, u \in Live : s # u => Pages(heap, s) \cap Pages(heap, u) = {}
    /\ UNION {Pages(heap, s) : s \in Live} = (0 .. heap.brk - 1) \ alien
    /\ Free \cap Given = {} /\ (Free \cup Given) \cap heap.meta = {}
    /\ \A g, k \in given : g # k => g.span # k.span

\* The page map names the owner of every page of a live span, so that tc_free and
\* return_objs_to_centralcache, which read it without the lock, find their span
\* (tc_malloc.c:109-114).
MapNamesOwner ==
    \A s \in Live : \A p \in Pages(heap, s) :
        p \in DOMAIN heap.page_mapping /\ heap.page_mapping[p] = s

\* The bytes by which the block of g falls short of what was asked for.
Shortfall(g) == g.nbytes - pages_to_bytes(heap.spans[g.span].pageSize)

\* A block that has a list of its own is short of what was asked for by less than
\* a page, the rest that bytes_to_pages drops: spans keep to the list of their size
\* although splitting changes it, so that the unchecked head of a list is large
\* enough (tc_malloc.c:135, 157, 169, 312, 657).
ShortByARest ==
    /\ \A g \in given :
          bytes_to_pages(g.nbytes) <= PAGEHEAPSIZE => Shortfall(g) <= g.nbytes % PAGEINBYTES
    /\ \A i \in 1 .. PAGEHEAPSIZE : \A s \in ToSet(heap.list[i]) :
          Bucket(heap.spans[s].pageSize) = i

\* "if npage is very big" a span is looked for whose pageSize >= npage
\* (tc_malloc.c:202-208): every request gets as many pages as it asked for.
EveryRequestFits ==
    \A g \in given : heap.spans[g.span].pageSize >= bytes_to_pages(g.nbytes)

\* tc_malloc(size) returns a block of size bytes, as its callers in server.c and
\* helper.c rely on.
BlockHoldsSize == \A g \in given : Shortfall(g) <= 0
=============================================================================
