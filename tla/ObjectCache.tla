---------------------------- MODULE ObjectCache ----------------------------
(***************************************************************************)
(* The two upper tiers of tc_malloc.c: the thread caches and the central    *)
(* cache, over a page heap that hands out and takes back whole spans.       *)
(*                                                                          *)
(* An object is a pair <<span, number>>, so that map_addr_to_span is the    *)
(* first component; PageHeap is the module that shows the page map right.   *)
(* Number 0 stands for a span handed out whole to a large request.          *)
(*                                                                          *)
(* centralcache_lock is the variable central.  pageheap_lock is taken and   *)
(* released within a step: nothing is acquired while it is held.            *)
(***************************************************************************)
EXTENDS SpanList, SequencesExt

CONSTANTS
    Threads,       \* threads that use the allocator
    NClasses,      \* CLASSES
    Doubling,      \* the classes of index up to 22, which start fast
    ObjsPerSpan,   \* objects that BATCH pages hold, per class
    MAXFETCHSIZE,  \* most objects moved to a thread cache at once
    MaxOps,        \* bound: calls of tc_malloc
    MaxLarge       \* bound: large blocks in use at a time

Classes == 1 .. NClasses

ASSUME CacheAssumption ==
    /\ Spans \subseteq Nat /\ IsFiniteSet(Spans)
    /\ NULL \notin Threads /\ IsFiniteSet(Threads)
    /\ NClasses \in Nat \ {0} /\ Classes \subseteq Spans /\ Doubling \subseteq Classes
    /\ ObjsPerSpan \in [Classes -> Nat \ {0}]
    /\ MAXFETCHSIZE \in Nat \ {0} /\ MaxOps \in Nat /\ MaxLarge \in Nat

VARIABLES
    next, prev,     \* links of every span
    objs,           \* free list of every span, first object first
    obj_len, obj_refcount, objs_size, loc,  \* the other fields; objs_size is a class or 0
    list, idle,     \* centralcache: head pointer per class
    pgcache,        \* spans of BATCH pages in the page heap, head first
    unused,         \* spans not cut from larger ones yet
    central,        \* who holds centralcache_lock
    tl,             \* threadlocal: objs, objlen and max_length per class
    pc,             \* where each thread is
    act,            \* its local variables in the call it is in
    held,           \* objects the program has been given, with the class asked for
    ops             \* calls of tc_malloc so far

fields == <<objs, obj_len, obj_refcount, objs_size, loc>>
rings == <<next, prev, list, idle>>
heap == <<pgcache, unused>>
vars == <<fields, rings, heap, central, tl, pc, act, held, ops>>

\* The freelist that get_span_central builds by pushing one object after another.
Carved(s, c) == [i \in 1 .. ObjsPerSpan[c] |-> <<s, ObjsPerSpan[c] + 1 - i>>]

\* The local variables of a call: the class, how many objects to fetch, whether one is
\* popped then, the objects to return and the span in hand.
Local(c, n, pop, batch, s) ==
    [cls |-> c, num |-> n, pop |-> pop, batch |-> batch, span |-> s]

Idle == Local(1, 0, FALSE, <<>>, NULL)

\* After tc_central_init: one carved span in the list of each class.
Init ==
    /\ next = Selfish /\ prev = Selfish
    /\ objs = [s \in Spans |-> IF s \in Classes THEN Carved(s, s) ELSE <<>>]
    /\ obj_len = [s \in Spans |-> Len(objs[s])]
    /\ obj_refcount = [s \in Spans |-> 0]
    /\ objs_size = [s \in Spans |-> IF s \in Classes THEN s ELSE 0]
    /\ loc = [s \in Spans |-> IF s \in Classes THEN "central_list" ELSE "pageheap"]
    /\ list = [c \in Classes |-> c] /\ idle = [c \in Classes |-> NULL]
    /\ pgcache = <<>> /\ unused = Spans \ Classes
    /\ central = NULL
    /\ tl = [t \in Threads |->
                [c \in Classes |-> [objs |-> <<>>, objlen |-> 0, max_length |-> 0]]]
    /\ pc = [t \in Threads |-> "init"]
    /\ act = [t \in Threads |-> Idle]
    /\ held = {} /\ ops = 0

-----------------------------------------------------------------------------
(* Thread cache *)

Lesser(a, b) == IF a > b THEN b ELSE a

\* Mutant: objlen does not count the objects fetched.
InsertUncounted(l, moved) == [l EXCEPT !.objs = Reverse(moved) \o @]

\* insert_to_threadcache: each object goes to the front.
insert_to_threadcache(l, moved) ==
    [l EXCEPT !.objs = Reverse(moved) \o @, !.objlen = @ + Len(moved)]

\* freelist_pop on a thread's list.
freelist_pop(l) == [l EXCEPT !.objs = Tail(@), !.objlen = @ - 1]

\* The slow start of fetch_from_centralcache, as far as the lock: how many
\* objects to ask for, and the length the list may reach from now on.
fetch_from_centralcache(t, c, l, pop) ==
    LET opt == Lesser(MAXFETCHSIZE, l.max_length)
        grown == IF opt = MAXFETCHSIZE THEN l.max_length
                 ELSE IF c \in Doubling THEN 2 * l.max_length ELSE l.max_length + 1
    IN  /\ tl' = [tl EXCEPT ![t][c] = [l EXCEPT !.max_length = grown]]
        /\ act' = [act EXCEPT ![t] = Local(c, opt, pop, <<>>, NULL)]
        /\ pc' = [pc EXCEPT ![t] = "fetch"]

\* tc_thread_init: the next class gets an empty list and its first objects.
ThreadInit(t) ==
    /\ pc[t] = "init"
    /\ fetch_from_centralcache(t, act[t].cls,
           [objs |-> <<>>, objlen |-> 0, max_length |-> 1], FALSE)
    /\ UNCHANGED <<fields, rings, heap, central, held, ops>>

\* tc_malloc of a small size, an object being at hand.
AllocateHit(t, c) ==
    /\ pc[t] = "ready" /\ ops < MaxOps /\ tl[t][c].objs # <<>>
    /\ held' = held \cup {<<Head(tl[t][c].objs), c>>}
    /\ tl' = [tl EXCEPT ![t][c] = freelist_pop(@)]
    /\ ops' = ops + 1
    /\ UNCHANGED <<fields, rings, heap, central, pc, act>>

\* tc_malloc of a small size, the thread's list being empty.
AllocateMiss(t, c) ==
    /\ pc[t] = "ready" /\ ops < MaxOps /\ tl[t][c].objs = <<>>
    /\ fetch_from_centralcache(t, c, tl[t][c], TRUE)
    /\ ops' = ops + 1
    /\ UNCHANGED <<fields, rings, heap, central, held>>

-----------------------------------------------------------------------------
(* Central cache *)

\* Positions on the ring of class c of spans that have a free object.
Usable(c) ==
    LET at == Walk(list[c], next)
    IN  IF list[c] = NULL THEN {} ELSE {k \in DOMAIN at : objs[at[k]] # <<>>}

\* The start of get_span_central, once fetch_from_centralcache has the lock.
SearchList(t) ==
    LET c == act[t].cls
        first == CHOOSE k \in Usable(c) : \A j \in Usable(c) : k <= j
    IN  /\ pc[t] = "fetch" /\ central = NULL
        /\ central' = t
        /\ \/ /\ Usable(c) = {}
              /\ pc' = [pc EXCEPT ![t] = "span"]
              /\ UNCHANGED act
           \/ /\ Usable(c) # {}
              /\ pc' = [pc EXCEPT ![t] = "take"]
              /\ act' = [act EXCEPT ![t].span = Walk(list[c], next)[first]]
        /\ UNCHANGED <<fields, rings, heap, tl, held, ops>>

\* Mutant: the span stays on the page heap's list.
FetchSpanKept(s) ==
    \/ pgcache # <<>> /\ s = Head(pgcache) /\ UNCHANGED heap
    \/ /\ pgcache = <<>> /\ s \in unused /\ \A u \in unused : s <= u
       /\ unused' = unused \ {s} /\ UNCHANGED pgcache

\* fetch_span as its callers here see it: the head of the page heap's list for
\* this size, and else a span cut off a larger one.
fetch_span(s) ==
    \/ /\ pgcache # <<>> /\ s = Head(pgcache)
       /\ pgcache' = Tail(pgcache) /\ UNCHANGED unused
    \/ /\ pgcache = <<>> /\ s \in unused /\ \A u \in unused : s <= u
       /\ unused' = unused \ {s} /\ UNCHANGED pgcache

\* The rest of get_span_central: a span from the page heap is carved into
\* objects.  Until it is on the list only this thread can reach it.
CarveSpan(t) ==
    LET c == act[t].cls
    IN  /\ pc[t] = "span"
        /\ \E s \in Spans :
             LET r == spanlist_push([head |-> list[c], next |-> next, prev |-> prev], s)
             IN  /\ fetch_span(s)
                 /\ objs_size' = [objs_size EXCEPT ![s] = c]
                 /\ objs' = [objs EXCEPT ![s] = Carved(s, c) \o @]
                 /\ obj_len' = [obj_len EXCEPT ![s] = @ + ObjsPerSpan[c]]
                 /\ loc' = [loc EXCEPT ![s] = "central_list"]
                 /\ next' = r.next /\ prev' = r.prev
                 /\ list' = [list EXCEPT ![c] = r.head]
                 /\ act' = [act EXCEPT ![t].span = s]
        /\ pc' = [pc EXCEPT ![t] = "take"]
        /\ UNCHANGED <<obj_refcount, idle, central, tl, held, ops>>

\* Where a thread is after a fetch: the next class of tc_thread_init, if any,
\* or ready for the program.
Resume(t) ==
    LET c == act[t].cls
    IN  IF ~act[t].pop /\ c < NClasses
        THEN /\ pc' = [pc EXCEPT ![t] = "init"]
             /\ act' = [act EXCEPT ![t] = Local(c + 1, 0, FALSE, <<>>, NULL)]
        ELSE /\ pc' = [pc EXCEPT ![t] = "ready"]
             /\ act' = [act EXCEPT ![t] = Idle]

\* fetch_objs, the unlock, insert_to_threadcache and, in allocate, the pop.
FetchObjs(t) ==
    LET c == act[t].cls
        s == act[t].span
        n == Lesser(act[t].num, Lesser(obj_len[s] - obj_refcount[s], Len(objs[s])))
        full == obj_refcount[s] + n = obj_len[s]
        out == remove_span([head |-> list[c], next |-> next, prev |-> prev], s)
        in == spanlist_push([out EXCEPT !.head = idle[c]], s)
        l == insert_to_threadcache(tl[t][c], SubSeq(objs[s], 1, n))
    IN  /\ pc[t] = "take"
        /\ objs' = [objs EXCEPT ![s] = SubSeq(@, n + 1, Len(@))]
        /\ obj_refcount' = [obj_refcount EXCEPT ![s] = @ + n]
        /\ \/ /\ full
              /\ list' = [list EXCEPT ![c] = out.head]
              /\ idle' = [idle EXCEPT ![c] = in.head]
              /\ next' = in.next /\ prev' = in.prev
              /\ loc' = [loc EXCEPT ![s] = "central_idle"]
           \/ ~full /\ UNCHANGED <<rings, loc>>
        /\ central' = NULL
        /\ tl' = [tl EXCEPT ![t][c] = IF act[t].pop THEN freelist_pop(l) ELSE l]
        /\ held' = IF act[t].pop THEN held \cup {<<Head(l.objs), c>>} ELSE held
        /\ Resume(t)
        /\ UNCHANGED <<obj_len, objs_size, heap, ops>>

-----------------------------------------------------------------------------
(* tc_free *)

\* Mutant: > in the place of ==.
AtLimitPassed(l) == l.objlen > l.max_length

\* The test of deallocate on the length before the freed object is counted.
AtLimit(l) == l.objlen = l.max_length

\* deallocate, the thread's list being short enough.
DeallocateLocal(t) ==
    /\ pc[t] = "ready"
    /\ \E h \in held :
         LET o == h[1]
             c == objs_size[o[1]]
         IN  /\ c # 0 /\ ~AtLimit(tl[t][c])
             /\ held' = held \ {h}
             /\ tl' = [tl EXCEPT ![t][c] = insert_to_threadcache(@, <<o>>)]
    /\ UNCHANGED <<fields, rings, heap, central, pc, act, ops>>

\* deallocate, the list being full: all of it goes to the central cache.
DeallocateFlush(t) ==
    /\ pc[t] = "ready"
    /\ \E h \in held :
         LET o == h[1]
             c == objs_size[o[1]]
         IN  /\ c # 0 /\ AtLimit(tl[t][c])
             /\ held' = held \ {h}
             /\ act' = [act EXCEPT ![t] = Local(c, 0, FALSE, <<o>> \o tl[t][c].objs, NULL)]
             /\ tl' = [tl EXCEPT ![t][c] = [@ EXCEPT !.objs = <<>>, !.objlen = 0]]
    /\ pc' = [pc EXCEPT ![t] = "return"]
    /\ UNCHANGED <<fields, rings, heap, central, ops>>

\* Mutant: the reference is not dropped.
ReturnReferenced(r, o) ==
    [r EXCEPT !.objs = [@ EXCEPT ![o[1]] = <<o>> \o @],
              !.obj_len = [@ EXCEPT ![o[1]] = @ + 1]]

\* One round of the loop: freelist_push on the span that map_addr_to_span finds,
\* which also counts obj_len, and a reference less.
ReturnObj(r, o) ==
    [objs |-> [r.objs EXCEPT ![o[1]] = <<o>> \o @],
     obj_len |-> [r.obj_len EXCEPT ![o[1]] = @ + 1],
     obj_refcount |-> [r.obj_refcount EXCEPT ![o[1]] = @ - 1]]

\* The fields of the spans after the loop over the batch.
ReturnAll(batch) ==
    LET after[k \in 0 .. Len(batch)] ==
            IF k = 0
            THEN [objs |-> objs, obj_len |-> obj_len, obj_refcount |-> obj_refcount]
            ELSE ReturnObj(after[k - 1], batch[k])
    IN  after[Len(batch)]

\* return_objs_to_centralcache up to its call of return_span_to_pgcache: each
\* object goes back to its span, then the span of the LAST one is looked at.
\* It moves from idle to list, where its loc is left as it was, and it leaves
\* the list when all its objects are back.
ReturnObjs(t) ==
    LET c == act[t].cls
        batch == act[t].batch
        s == Last(batch)[1]
        back == ReturnAll(batch)
        wasIdle == loc[s] = "central_idle" /\ back.obj_refcount[s] # back.obj_len[s]
        empty == back.obj_refcount[s] = 0
        r0 == [head |-> idle[c], next |-> next, prev |-> prev]
        out == IF wasIdle THEN remove_span(r0, s) ELSE r0
        r1 == [out EXCEPT !.head = list[c]]
        in == IF wasIdle THEN spanlist_push(r1, s) ELSE r1
        fin == IF empty THEN remove_span(in, s) ELSE in
    IN  /\ pc[t] = "return" /\ central = NULL
        /\ idle' = [idle EXCEPT ![c] = out.head]
        /\ list' = [list EXCEPT ![c] = fin.head]
        /\ obj_refcount' = back.obj_refcount
        /\ \/ /\ empty
              /\ next' = [fin.next EXCEPT ![s] = s]
              /\ prev' = [fin.prev EXCEPT ![s] = s]
              /\ objs_size' = [objs_size EXCEPT ![s] = 0]
              /\ obj_len' = [back.obj_len EXCEPT ![s] = 0]
              /\ objs' = [back.objs EXCEPT ![s] = <<>>]
              /\ central' = t
              /\ pc' = [pc EXCEPT ![t] = "giveback"]
              /\ act' = [act EXCEPT ![t] = Local(1, 0, FALSE, <<>>, s)]
           \/ /\ ~empty
              /\ next' = fin.next /\ prev' = fin.prev
              /\ obj_len' = back.obj_len /\ objs' = back.objs
              /\ pc' = [pc EXCEPT ![t] = "ready"]
              /\ act' = [act EXCEPT ![t] = Idle]
              /\ UNCHANGED <<objs_size, central>>
        /\ UNCHANGED <<loc, heap, tl, held, ops>>

\* return_span_to_pgcache: the fields are rewritten and the span is the head of
\* the page heap's list again.
return_span_to_pgcache(s) ==
    /\ objs_size' = [objs_size EXCEPT ![s] = 0]
    /\ obj_len' = [obj_len EXCEPT ![s] = 0]
    /\ objs' = [objs EXCEPT ![s] = <<>>]
    /\ loc' = [loc EXCEPT ![s] = "pageheap"]
    /\ pgcache' = <<s>> \o pgcache
    /\ UNCHANGED unused

\* The end of return_objs_to_centralcache.
GiveBackSpan(t) ==
    /\ pc[t] = "giveback"
    /\ return_span_to_pgcache(act[t].span)
    /\ central' = NULL
    /\ pc' = [pc EXCEPT ![t] = "ready"] /\ act' = [act EXCEPT ![t] = Idle]
    /\ UNCHANGED <<obj_refcount, rings, tl, held, ops>>

\* tc_malloc beyond THRESHALLOC of a block as large as the central cache's spans.
MallocLarge(t) ==
    /\ pc[t] = "ready" /\ ops < MaxOps
    /\ Cardinality({h \in held : h[2] = 0}) < MaxLarge
    /\ \E s \in Spans : fetch_span(s) /\ held' = held \cup {<<<<s, 0>>, 0>>}
    /\ ops' = ops + 1
    /\ UNCHANGED <<fields, rings, central, tl, pc, act>>

\* tc_free of an object whose span has no object size.
FreeLarge(t) ==
    /\ pc[t] = "ready"
    /\ \E h \in held :
         /\ objs_size[h[1][1]] = 0
         /\ held' = held \ {h}
         /\ return_span_to_pgcache(h[1][1])
    /\ UNCHANGED <<obj_refcount, rings, central, tl, pc, act, ops>>

\* The program has made its last call and freed everything.
Finished ==
    /\ ops = MaxOps /\ held = {} /\ \A t \in Threads : pc[t] = "ready"
    /\ UNCHANGED vars

Step(t) ==
    \/ ThreadInit(t)
    \/ \E c \in Classes : AllocateHit(t, c) \/ AllocateMiss(t, c)
    \/ SearchList(t) \/ CarveSpan(t) \/ FetchObjs(t)
    \/ DeallocateLocal(t) \/ DeallocateFlush(t)
    \/ ReturnObjs(t) \/ GiveBackSpan(t)
    \/ MallocLarge(t) \/ FreeLarge(t)

Next == (\E t \in Threads : Step(t)) \/ Finished

Spec == Init /\ [][Next]_vars

-----------------------------------------------------------------------------
(* Properties *)

ThreadPC == {"init", "ready", "fetch", "span", "take", "return", "giveback"}
Objects == Spans \X Nat

\* Every variable has its type.
TypeOK ==
    /\ next \in [Spans -> Spans] /\ prev \in [Spans -> Spans \cup {NULL}]
    /\ objs \in [Spans -> Seq(Objects)]
    /\ obj_len \in [Spans -> Nat] /\ obj_refcount \in [Spans -> Nat]
    /\ objs_size \in [Spans -> {0} \cup Classes]
    /\ loc \in [Spans -> {"pageheap", "central_list", "central_idle"}]
    /\ list \in [Classes -> Spans \cup {NULL}] /\ idle \in [Classes -> Spans \cup {NULL}]
    /\ pgcache \in Seq(Spans) /\ unused \subseteq Spans
    /\ central \in Threads \cup {NULL}
    /\ tl \in [Threads -> [Classes ->
                [objs : Seq(Objects), objlen : Nat, max_length : Nat]]]
    /\ pc \in [Threads -> ThreadPC]
    /\ act \in [Threads -> [cls : Classes, num : Nat, pop : BOOLEAN,
                            batch : Seq(Objects), span : Spans \cup {NULL}]]
    /\ held \subseteq Objects \X ({0} \cup Classes) /\ ops \in 0 .. MaxOps

\* The blocks that span s is cut into now; a span that is not carved is one block.
Cut(s) == IF objs_size[s] = 0 THEN {<<s, 0>>}
          ELSE {<<s, i>> : i \in 1 .. ObjsPerSpan[objs_size[s]]}

\* Where a block can be: on its span's free list, with the program, in the page
\* heap, not cut off yet, in a thread's cache, in the batch it is about to return,
\* or in its hand on the way back to the page heap.
Places == ({"free", "held", "heap", "unused"} \X {NULL})
              \cup ({"cache", "batch", "giveback"} \X Threads)

Holds(p, o) ==
    CASE p[1] = "free" -> o \in ToSet(objs[o[1]])
      [] p[1] = "held" -> \E h \in held : h[1] = o
      [] p[1] = "heap" -> o[2] = 0 /\ o[1] \in ToSet(pgcache)
      [] p[1] = "unused" -> o[2] = 0 /\ o[1] \in unused
      [] p[1] = "cache" -> \E c \in Classes : o \in ToSet(tl[p[2]][c].objs)
      [] p[1] = "batch" -> o \in ToSet(act[p[2]].batch)
      [] OTHER -> pc[p[2]] = "giveback" /\ o = <<act[p[2]].span, 0>>

\* Block o is one that its span is cut into now, and of class c.
Fits(o, c) == objs_size[o[1]] = c /\ o \in Cut(o[1])

\* No list has a block twice, and each has blocks of its span or of its class only.
ListsSound ==
    /\ IsInjective(pgcache)
    /\ \A s \in Spans : IsInjective(objs[s]) /\ ToSet(objs[s]) \subseteq Cut(s)
    /\ \A t \in Threads :
          /\ IsInjective(act[t].batch)
          /\ \A o \in ToSet(act[t].batch) : Fits(o, act[t].cls)
          /\ \A c \in Classes :
                /\ IsInjective(tl[t][c].objs)
                /\ \A o \in ToSet(tl[t][c].objs) : Fits(o, c)

\* No block is handed out twice or lost: each block that a span is cut into now is
\* in exactly one place, none of a former cut is left on any list
\* (tc_malloc.c:382-463, 552-584), and what the program was given is of the size
\* it asked for.
OneHolder ==
    /\ ListsSound
    /\ \A h \in held : Fits(h[1], h[2])
    /\ \A s \in unused \cup ToSet(pgcache) : objs_size[s] = 0
    /\ \A s \in Spans : \A o \in Cut(s) :
          Cardinality({p \in Places : Holds(p, o)}) = 1

\* obj_refcount is the number of a span's objects that are out, and although
\* obj_len grows with every return (tc_malloc.h:210) fetch_objs is never kept from
\* an object that is there: its limit obj_len - obj_refcount, an unsigned
\* difference, is at least the length of the free list.
RefcountExact ==
    \A s \in Spans :
        /\ obj_refcount[s] =
              IF objs_size[s] = 0 THEN 0 ELSE Cardinality(Cut(s) \ ToSet(objs[s]))
        /\ obj_len[s] >= obj_refcount[s] + Len(objs[s])

\* The rings stay rings, also when remove_span is called with the head of a list
\* the span is not on (tc_malloc.c:443-452, loc being stale), and a span on a list
\* of the central cache is carved for that class: never one of the page heap.
RingsSound ==
    /\ \A s \in Spans : prev[s] # NULL /\ next[prev[s]] = s /\ prev[next[s]] = s
    /\ \A c \in Classes :
          LET onList == Ring(list[c], next)
              onIdle == Ring(idle[c], next)
          IN  /\ onList \cap onIdle = {}
              /\ \A s \in onList \cup onIdle :
                    objs_size[s] = c /\ s \notin unused \cup ToSet(pgcache)

\* A thread's list never grows past max_length, which deallocate compares with ==
\* (tc_malloc.c:571): past it the list would grow without end.
CacheBounded ==
    \A t \in Threads, c \in Classes :
        tl[t][c].objlen = Len(tl[t][c].objs) /\ tl[t][c].objlen <= tl[t][c].max_length

\* The calls of tc_malloc that have returned.
Returned == ops - Cardinality({t \in Threads : act[t].pop})

Blocks == INSTANCE BlockStore
            WITH MaxObjs <- Max({ObjsPerSpan[c] : c \in Classes}),
                 live <- {h[1] : h \in held}, calls <- Returned

\* The three tiers together are an allocator: every return of tc_malloc, on
\* whichever path and with other threads carving, flushing and returning spans
\* meanwhile, hands out a block that overlaps none in use, and no other step
\* changes what is in use but tc_free (tc_malloc.c:648-683).
ImplementsBlockStore == Blocks!Spec

\* "after returning object check if it was in idle section; if it was return it
\* to the list" (tc_malloc.c:441-442): a free object is on a span that
\* get_span_central can find.
FreeObjectsFound ==
    central = NULL =>
        \A s \in Spans : objs_size[s] # 0 /\ objs[s] # <<>> =>
                             s \in Ring(list[objs_size[s]], next)
=============================================================================
