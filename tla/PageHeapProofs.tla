--------------------------- MODULE PageHeapProofs ---------------------------
(***************************************************************************)
(* Proofs about PageHeap for free lists, chunks, pages and requests of any *)
(* size.                                                                   *)
(***************************************************************************)
EXTENDS PageHeap, NatLemmas, SequenceTheorems, TLAPS

USE HeapAssumption

-----------------------------------------------------------------------------
(* The record of the globals. *)

Mk(b, sp, r, m, l, pm) ==
    [brk |-> b, spans |-> sp, rem |-> r, meta |-> m, list |-> l, page_mapping |-> pm]

IsHeap(h) == h = Mk(h.brk, h.spans, h.rem, h.meta, h.list, h.page_mapping)

\* The fields of a heap, and that two heaps with the same fields are the same.
LEMMA Fields ==
    ASSUME NEW b, NEW sp, NEW r, NEW m, NEW l, NEW pm
    PROVE  LET h == Mk(b, sp, r, m, l, pm) IN
           /\ h.brk = b /\ h.spans = sp /\ h.rem = r /\ h.meta = m /\ h.list = l
           /\ h.page_mapping = pm /\ IsHeap(h)
  BY DEF Mk, IsHeap

\* Assignments to one field, and the several at once of alloc_span and new_chunk.
SetBrk(h, v) == [h EXCEPT !.brk = v]
SetSpans(h, v) == [h EXCEPT !.spans = v]
SetRem(h, v) == [h EXCEPT !.rem = v]
SetMeta(h, v) == [h EXCEPT !.meta = v]
SetList(h, v) == [h EXCEPT !.list = v]
SetMap(h, v) == [h EXCEPT !.page_mapping = v]
SetTwo(h, r, sp) == [h EXCEPT !.rem = r, !.spans = sp]
SetFour(h, b, r, m, sp) == [h EXCEPT !.brk = b, !.rem = r, !.meta = m, !.spans = sp]

\* What an assignment does to a heap given by its fields.
SetMkIs(b, sp, r, m, l, pm, v) ==
    /\ SetBrk(Mk(b, sp, r, m, l, pm), v) = Mk(v, sp, r, m, l, pm)
    /\ SetSpans(Mk(b, sp, r, m, l, pm), v) = Mk(b, v, r, m, l, pm)
    /\ SetRem(Mk(b, sp, r, m, l, pm), v) = Mk(b, sp, v, m, l, pm)
    /\ SetMeta(Mk(b, sp, r, m, l, pm), v) = Mk(b, sp, r, v, l, pm)
    /\ SetList(Mk(b, sp, r, m, l, pm), v) = Mk(b, sp, r, m, v, pm)
    /\ SetMap(Mk(b, sp, r, m, l, pm), v) = Mk(b, sp, r, m, l, v)

\* Each assignment changes its own field only.
LEMMA SetMk ==
    ASSUME NEW b, NEW sp, NEW r, NEW m, NEW l, NEW pm, NEW v
    PROVE  SetMkIs(b, sp, r, m, l, pm, v)
  <1>1. SetBrk(Mk(b, sp, r, m, l, pm), v) = Mk(v, sp, r, m, l, pm)
    BY DEF Mk, SetBrk
  <1>2. SetSpans(Mk(b, sp, r, m, l, pm), v) = Mk(b, v, r, m, l, pm)
    BY DEF Mk, SetSpans
  <1>3. SetRem(Mk(b, sp, r, m, l, pm), v) = Mk(b, sp, v, m, l, pm)
    BY DEF Mk, SetRem
  <1>4. SetMeta(Mk(b, sp, r, m, l, pm), v) = Mk(b, sp, r, v, l, pm)
    BY DEF Mk, SetMeta
  <1>5. SetList(Mk(b, sp, r, m, l, pm), v) = Mk(b, sp, r, m, v, pm)
    BY DEF Mk, SetList
  <1>6. SetMap(Mk(b, sp, r, m, l, pm), v) = Mk(b, sp, r, m, l, v)
    BY DEF Mk, SetMap
  <1> QED
    BY <1>1, <1>2, <1>3, <1>4, <1>5, <1>6 DEF SetMkIs

\* The same for any heap.
LEMMA SetField ==
    ASSUME NEW h, IsHeap(h), NEW v
    PROVE  /\ SetBrk(h, v) = Mk(v, h.spans, h.rem, h.meta, h.list, h.page_mapping)
           /\ SetSpans(h, v) = Mk(h.brk, v, h.rem, h.meta, h.list, h.page_mapping)
           /\ SetRem(h, v) = Mk(h.brk, h.spans, v, h.meta, h.list, h.page_mapping)
           /\ SetMeta(h, v) = Mk(h.brk, h.spans, h.rem, v, h.list, h.page_mapping)
           /\ SetList(h, v) = Mk(h.brk, h.spans, h.rem, h.meta, v, h.page_mapping)
           /\ SetMap(h, v) = Mk(h.brk, h.spans, h.rem, h.meta, h.list, v)
  <1>1. PICK b, sp, r, m, l, pm :
            /\ h = Mk(b, sp, r, m, l, pm)
            /\ b = h.brk /\ sp = h.spans /\ r = h.rem /\ m = h.meta /\ l = h.list
            /\ pm = h.page_mapping
    BY DEF IsHeap
  <1>2. SetMkIs(b, sp, r, m, l, pm, v)
    BY SetMk
  <1> QED
    BY <1>1, <1>2 DEF SetMkIs

\* Several assignments are one after the other.
LEMMA SetFields ==
    ASSUME NEW h, IsHeap(h), NEW vb, NEW vr, NEW vm, NEW vs
    PROVE  /\ SetTwo(h, vr, vs) = Mk(h.brk, vs, vr, h.meta, h.list, h.page_mapping)
           /\ SetFour(h, vb, vr, vm, vs) = Mk(vb, vs, vr, vm, h.list, h.page_mapping)
  <1>1. PICK b, sp, r, m, l, pm :
            /\ h = Mk(b, sp, r, m, l, pm)
            /\ b = h.brk /\ sp = h.spans /\ r = h.rem /\ m = h.meta /\ l = h.list
            /\ pm = h.page_mapping
    BY DEF IsHeap
  <1> DEFINE k == Mk(b, sp, r, m, l, pm)
  <1>2. SetTwo(k, vr, vs) = SetSpans(SetRem(k, vr), vs)
    BY DEF Mk, SetTwo, SetSpans, SetRem
  <1>3. SetFour(k, vb, vr, vm, vs) = SetSpans(SetMeta(SetRem(SetBrk(k, vb), vr), vm), vs)
    BY DEF Mk, SetFour, SetSpans, SetRem, SetBrk, SetMeta
  <1>4. SetSpans(SetRem(k, vr), vs) = Mk(b, vs, vr, m, l, pm)
    <2>1. SetMkIs(b, sp, r, m, l, pm, vr) /\ SetMkIs(b, sp, vr, m, l, pm, vs)
      BY SetMk
    <2> QED
      BY <2>1 DEF SetMkIs
  <1>5. SetSpans(SetMeta(SetRem(SetBrk(k, vb), vr), vm), vs) = Mk(vb, vs, vr, vm, l, pm)
    <2>1. /\ SetMkIs(b, sp, r, m, l, pm, vb) /\ SetMkIs(vb, sp, r, m, l, pm, vr)
          /\ SetMkIs(vb, sp, vr, m, l, pm, vm) /\ SetMkIs(vb, sp, vr, vm, l, pm, vs)
      BY SetMk
    <2> QED
      BY <2>1 DEF SetMkIs
  <1>6. h = k
    BY <1>1
  <1> HIDE DEF k
  <1>7. SetTwo(h, vr, vs) = Mk(b, vs, vr, m, l, pm)
    BY <1>2, <1>4, <1>6
  <1>8. SetFour(h, vb, vr, vm, vs) = Mk(vb, vs, vr, vm, l, pm)
    BY <1>3, <1>5, <1>6
  <1> QED
    BY <1>1, <1>7, <1>8

-----------------------------------------------------------------------------
Buckets == 1 .. PAGEHEAPSIZE
SpanRec == [pageId : Nat, pageSize : Nat \ {0}]
Counts == 0 .. ChunkSpans

\* Sets and sequences with one thing more or less; the n pages from b on.
With(S, e) == S \cup {e}
Without(S, e) == S \ {e}
Plus(A, B) == A \cup B
Minus(A, B) == A \ B
Run(b, n) == b .. b + n - 1
Longer(sp, r) == Append(sp, r)
Grown(h, n) == SetBrk(h, h.brk + n)

(***************************************************************************)
(* The inductive invariant, of a heap h in the middle of an operation: G   *)
(* are the spans the callers or the operation itself hold, A the pages     *)
(* that no span stands for, the C library's and the ones the operation has *)
(* just got from sbrk.  That two spans have no page in common follows from *)
(* MapOK: the map would name both.                                         *)
(***************************************************************************)
HeapTypes(h) ==
    /\ IsHeap(h)
    /\ h.brk \in Nat /\ h.spans \in Seq(SpanRec) /\ h.rem \in Counts
    /\ h.meta \subseteq 1 .. Len(h.spans)
    /\ h.list \in [Buckets -> Seq(Nat)]
    /\ \A i \in Buckets : \A a \in 1 .. Len(h.list[i]) : h.list[i][a] \in 1 .. Len(h.spans)
    /\ DOMAIN h.page_mapping \subseteq Nat
    /\ \A p \in DOMAIN h.page_mapping : h.page_mapping[p] \in 1 .. Len(h.spans)

\* No span is twice on a list, and every span is on the list of its size.
ListsOK(h) ==
    /\ \A i \in Buckets : \A a, b \in 1 .. Len(h.list[i]) :
          h.list[i][a] = h.list[i][b] => a = b
    /\ \A i \in Buckets : \A a \in 1 .. Len(h.list[i]) :
          Bucket(h.spans[h.list[i][a]].pageSize) = i

OnList(h, s) == \E i \in Buckets : \E a \in 1 .. Len(h.list[i]) : h.list[i][a] = s
LiveIn(h, G) == {s \in 1 .. Len(h.spans) : OnList(h, s) \/ s \in G \/ s \in h.meta}

OwnersOK(h, G) ==
    /\ G \subseteq 1 .. Len(h.spans)
    /\ \A s \in G : ~OnList(h, s) /\ s \notin h.meta
    /\ \A s \in h.meta : ~OnList(h, s)

Below(b, A) == Run(0, b) \ A

CoverOK(h, G, A) ==
    /\ A \subseteq Run(0, h.brk)
    /\ \A s \in LiveIn(h, G) : Pages(h, s) \subseteq Below(h.brk, A)
    /\ \A p \in Below(h.brk, A) : \E s \in LiveIn(h, G) : p \in Pages(h, s)

MapOK(h, G) ==
    \A s \in LiveIn(h, G) : \A p \in Pages(h, s) :
        p \in DOMAIN h.page_mapping /\ h.page_mapping[p] = s

HeapOK(h, G, A) ==
    HeapTypes(h) /\ ListsOK(h) /\ OwnersOK(h, G) /\ CoverOK(h, G, A) /\ MapOK(h, G)

-----------------------------------------------------------------------------
(* What the operators do to the fields of a heap. *)

\* The pages of a span are numbers, at least one, and its list exists.
LEMMA SpanFacts ==
    ASSUME NEW h, HeapTypes(h), NEW s \in 1 .. Len(h.spans)
    PROVE  /\ h.spans[s] \in SpanRec /\ h.spans[s].pageId \in Nat
           /\ h.spans[s].pageSize \in Nat \ {0} /\ Pages(h, s) \subseteq Nat
           /\ h.spans[s].pageId \in Pages(h, s)
           /\ Bucket(h.spans[s].pageSize) \in Buckets
  <1>1. h.spans[s] \in SpanRec
    BY ElementOfSeq DEF HeapTypes
  <1> QED
    BY <1>1 DEF SpanRec, Pages, Bucket, Buckets

\* The page map after update_mapping.
Mapped(h, s) ==
    [p \in DOMAIN h.page_mapping \cup Pages(h, s) |->
        IF p \in Pages(h, s) THEN s ELSE h.page_mapping[p]]

\* Its domain and its values.
LEMMA MappedIs ==
    ASSUME NEW h, NEW s
    PROVE  /\ DOMAIN Mapped(h, s) = DOMAIN h.page_mapping \cup Pages(h, s)
           /\ \A p \in DOMAIN Mapped(h, s) :
                 Mapped(h, s)[p] = IF p \in Pages(h, s) THEN s ELSE h.page_mapping[p]
  BY DEF Mapped

\* update_mapping changes the page map only.
LEMMA UpdateIs ==
    ASSUME NEW h, IsHeap(h), NEW s, NEW g, g = update_mapping(h, s)
    PROVE  /\ g = Mk(h.brk, h.spans, h.rem, h.meta, h.list, g.page_mapping)
           /\ g.brk = h.brk /\ g.spans = h.spans /\ g.rem = h.rem /\ g.meta = h.meta
           /\ g.list = h.list /\ IsHeap(g) /\ g.page_mapping = Mapped(h, s)
  <1>1. g = SetMap(h, Mapped(h, s))
    BY DEF update_mapping, SetMap, Mapped
  <1>2. g = Mk(h.brk, h.spans, h.rem, h.meta, h.list, Mapped(h, s))
    BY <1>1, SetField
  <1> QED
    BY <1>2, Fields

\* List b of l with s as its new head, and without its head.
Pushed(l, b, s) == [l EXCEPT ![b] = <<s>> \o l[b]]
Popped(l, b) == [l EXCEPT ![b] = Tail(l[b])]

\* spanlist_push changes the list of the span's size only.
LEMMA PushIs ==
    ASSUME NEW h, IsHeap(h), NEW s, NEW g, g = spanlist_push(h, s),
           NEW b, b = Bucket(h.spans[s].pageSize)
    PROVE  /\ g = Mk(h.brk, h.spans, h.rem, h.meta, g.list, h.page_mapping)
           /\ g.brk = h.brk /\ g.spans = h.spans /\ g.rem = h.rem /\ g.meta = h.meta
           /\ g.page_mapping = h.page_mapping /\ IsHeap(g)
           /\ g.list = Pushed(h.list, b, s)
  <1> DEFINE v == Pushed(h.list, b, s)
  <1>1. g = SetList(h, v)
    BY DEF spanlist_push, SetList, Pushed
  <1> HIDE DEF v
  <1>2. g = Mk(h.brk, h.spans, h.rem, h.meta, v, h.page_mapping)
    BY <1>1, SetField
  <1> QED
    BY <1>2, Fields DEF v

\* remove_span of a head changes its list only.
LEMMA PopIs ==
    ASSUME NEW h, IsHeap(h), NEW i, NEW g, g = PopList(h, i)
    PROVE  /\ g.brk = h.brk /\ g.spans = h.spans /\ g.rem = h.rem /\ g.meta = h.meta
           /\ g.page_mapping = h.page_mapping /\ IsHeap(g)
           /\ g.list = Popped(h.list, i)
  <1> DEFINE v == Popped(h.list, i)
  <1>1. g = SetList(h, v)
    BY DEF PopList, SetList, Popped
  <1> HIDE DEF v
  <1>2. g = Mk(h.brk, h.spans, h.rem, h.meta, v, h.page_mapping)
    BY <1>1, SetField
  <1> QED
    BY <1>2, Fields DEF v

\* Page map and lists are different fields: the two can be swapped.
LEMMA PushUpdate ==
    ASSUME NEW h, IsHeap(h), NEW s, NEW u
    PROVE  update_mapping(spanlist_push(h, s), u) = spanlist_push(update_mapping(h, u), s)
  <1>1. PICK g : g = spanlist_push(h, s)
    OBVIOUS
  <1>2. PICK k : k = update_mapping(h, u)
    OBVIOUS
  <1>3. PICK b : b = Bucket(h.spans[s].pageSize)
    OBVIOUS
  <1> DEFINE v == Pushed(h.list, b, s)
             f == Mapped(h, u)
  <1>4. g.brk = h.brk /\ g.spans = h.spans /\ g.rem = h.rem /\ g.meta = h.meta
        /\ g.page_mapping = h.page_mapping /\ IsHeap(g) /\ g.list = v
    BY <1>1, <1>3, PushIs
  <1>5. k.brk = h.brk /\ k.spans = h.spans /\ k.rem = h.rem /\ k.meta = h.meta
        /\ k.list = h.list /\ IsHeap(k) /\ k.page_mapping = f
    BY <1>2, UpdateIs
  <1>6. Pages(g, u) = Pages(h, u) /\ Bucket(k.spans[s].pageSize) = b
    BY <1>3, <1>4, <1>5 DEF Pages
  <1> HIDE DEF v, f
  <1>7. PICK x : x = update_mapping(g, u)
    OBVIOUS
  <1>8. x = Mk(h.brk, h.spans, h.rem, h.meta, v, x.page_mapping) /\ x.page_mapping = f
    <2>1. x = Mk(g.brk, g.spans, g.rem, g.meta, g.list, x.page_mapping)
          /\ x.page_mapping = Mapped(g, u)
      BY <1>4, <1>7, UpdateIs
    <2>2. Mapped(g, u) = f
      BY <1>4, <1>6 DEF f, Mapped
    <2> QED
      BY <2>1, <2>2, <1>4
  <1>9. PICK y : y = spanlist_push(k, s)
    OBVIOUS
  <1>10. y = Mk(h.brk, h.spans, h.rem, h.meta, y.list, f) /\ y.list = v
    <2>1. y = Mk(k.brk, k.spans, k.rem, k.meta, y.list, k.page_mapping)
          /\ y.list = Pushed(k.list, b, s)
      BY <1>5, <1>6, <1>9, PushIs
    <2> QED
      BY <2>1, <1>5 DEF v
  <1> QED
    BY <1>1, <1>2, <1>7, <1>8, <1>9, <1>10

-----------------------------------------------------------------------------
(* The invariant through the parts of an operation. *)

\* Heaps with the same spans and owners have the same live spans and pages.
LEMMA SameLive ==
    ASSUME NEW h, NEW g, NEW G, g.spans = h.spans, g.list = h.list, g.meta = h.meta
    PROVE  /\ LiveIn(g, G) = LiveIn(h, G)
           /\ \A s : Pages(g, s) = Pages(h, s)
           /\ \A s : OnList(g, s) <=> OnList(h, s)
  BY DEF LiveIn, OnList, Pages

\* The lists are in order as long as they and the spans do not change.
LEMMA SameLists ==
    ASSUME NEW h, NEW g, g.spans = h.spans, g.list = h.list, ListsOK(h)
    PROVE  ListsOK(g)
  BY DEF ListsOK

\* It is enough that the spans on the lists are the same.
LEMMA KeptLists ==
    ASSUME NEW h, NEW g, g.list = h.list, ListsOK(h),
           \A i \in Buckets : \A a \in 1 .. Len(h.list[i]) :
              g.spans[h.list[i][a]] = h.spans[h.list[i][a]]
    PROVE  ListsOK(g)
  BY DEF ListsOK

\* The pages that sbrk adds lie after those below the break.
LEMMA NewPages ==
    ASSUME NEW b \in Nat, NEW n \in Nat, NEW A, A \subseteq Run(0, b)
    PROVE  /\ Plus(A, Run(b, n)) \subseteq Run(0, b + n)
           /\ Below(b + n, Plus(A, Run(b, n))) = Below(b, A)
           /\ A \cap Run(b, n) = {} /\ Minus(Plus(A, Run(b, n)), Run(b, n)) = A
           /\ Run(b, n) \subseteq Plus(A, Run(b, n))
  BY DEF Below, Plus, Minus, Run

\* What sbrk leaves: n pages more, in nobody's span yet.
GrownBy(h, G, A, n, g) ==
    /\ HeapOK(g, G, Plus(A, Run(h.brk, n))) /\ g.brk = h.brk + n
    /\ g.spans = h.spans /\ g.rem = h.rem /\ g.meta = h.meta /\ g.list = h.list
    /\ g.page_mapping = h.page_mapping
    /\ Minus(Plus(A, Run(h.brk, n)), Run(h.brk, n)) = A
    /\ Run(h.brk, n) \subseteq Plus(A, Run(h.brk, n))

\* sbrk leaves that.
LEMMA Grow ==
    ASSUME NEW h, NEW G, NEW A, HeapOK(h, G, A), NEW n \in Nat,
           NEW g, g = Grown(h, n)
    PROVE  GrownBy(h, G, A, n, g)
  <1>0. HeapTypes(h) /\ ListsOK(h) /\ OwnersOK(h, G) /\ CoverOK(h, G, A) /\ MapOK(h, G)
    BY DEF HeapOK
  <1>1. /\ g.brk = h.brk + n /\ g.spans = h.spans /\ g.rem = h.rem /\ g.meta = h.meta
        /\ g.list = h.list /\ g.page_mapping = h.page_mapping /\ IsHeap(g)
    <2>1. g = Mk(h.brk + n, h.spans, h.rem, h.meta, h.list, h.page_mapping)
      BY <1>0, SetField DEF HeapTypes, Grown
    <2> QED
      BY <2>1, Fields
  <1>2. /\ LiveIn(g, G) = LiveIn(h, G) /\ \A s : Pages(g, s) = Pages(h, s)
        /\ \A s : OnList(g, s) <=> OnList(h, s)
    BY <1>1, SameLive
  <1>3. h.brk \in Nat
    BY <1>0 DEF HeapTypes
  <1>4. HeapTypes(g)
    BY <1>0, <1>1, <1>3 DEF HeapTypes
  <1>5. ListsOK(g)
    BY <1>0, <1>1 DEF ListsOK
  <1>6. OwnersOK(g, G)
    BY <1>0, <1>1, <1>2 DEF OwnersOK
  <1>7. CoverOK(g, G, Plus(A, Run(h.brk, n)))
    <2>1. A \subseteq Run(0, h.brk)
      BY <1>0 DEF CoverOK
    <2>2. /\ Plus(A, Run(h.brk, n)) \subseteq Run(0, h.brk + n)
          /\ Below(h.brk + n, Plus(A, Run(h.brk, n))) = Below(h.brk, A)
      BY <1>3, <2>1, NewPages
    <2>3. g.brk = h.brk + n
      BY <1>1
    <2> QED
      BY <1>0, <1>2, <2>2, <2>3 DEF CoverOK
  <1>8. MapOK(g, G)
    BY <1>0, <1>1, <1>2 DEF MapOK
  <1>9. /\ Minus(Plus(A, Run(h.brk, n)), Run(h.brk, n)) = A
        /\ Run(h.brk, n) \subseteq Plus(A, Run(h.brk, n))
    <2>1. A \subseteq Run(0, h.brk)
      BY <1>0 DEF CoverOK
    <2> QED
      BY <1>3, <2>1, NewPages
  <1> QED
    BY <1>1, <1>4, <1>5, <1>6, <1>7, <1>8, <1>9 DEF HeapOK, GrownBy

\* g is h with one more span structure, r, that nobody has.
Structured(h, G, A, r, k, g) ==
    /\ HeapOK(g, G, A) /\ g.brk = h.brk /\ g.list = h.list /\ g.meta = h.meta
    /\ g.rem = k /\ g.page_mapping = h.page_mapping
    /\ Len(h.spans) \in Nat /\ Len(g.spans) = Len(h.spans) + 1
    /\ \A s \in 1 .. Len(h.spans) : g.spans[s] = h.spans[s]
    /\ g.spans[Len(g.spans)] = r /\ Len(g.spans) \notin LiveIn(g, G)

\* alloc_span with a structure left in the chunk: it is in no use yet.
LEMMA NewStructure ==
    ASSUME NEW h, NEW G, NEW A, HeapOK(h, G, A), NEW r \in SpanRec, NEW k \in Counts,
           NEW g, g = SetTwo(h, k, Longer(h.spans, r))
    PROVE  Structured(h, G, A, r, k, g)
  <1>0. HeapTypes(h) /\ ListsOK(h) /\ OwnersOK(h, G) /\ CoverOK(h, G, A) /\ MapOK(h, G)
    BY DEF HeapOK
  <1>1. /\ g.brk = h.brk /\ g.spans = Longer(h.spans, r) /\ g.rem = k /\ g.meta = h.meta
        /\ g.list = h.list /\ g.page_mapping = h.page_mapping /\ IsHeap(g)
    <2>2. g = Mk(h.brk, Longer(h.spans, r), k, h.meta, h.list, h.page_mapping)
      BY <1>0, SetFields DEF HeapTypes
    <2> QED
      BY <2>2, Fields
  <1>2. /\ g.spans \in Seq(SpanRec) /\ Len(h.spans) \in Nat /\ Len(g.spans) = Len(h.spans) + 1
        /\ \A s \in 1 .. Len(h.spans) : g.spans[s] = h.spans[s]
        /\ g.spans[Len(g.spans)] = r
    BY <1>0, <1>1, AppendProperties, LenProperties DEF HeapTypes, Longer
  <1>3. \A s : OnList(g, s) <=> OnList(h, s)
    BY <1>1 DEF OnList
  <1>4. \A s : OnList(h, s) => s \in 1 .. Len(h.spans)
    BY <1>0 DEF OnList, HeapTypes
  <1>5. LiveIn(g, G) = LiveIn(h, G) /\ LiveIn(h, G) \subseteq 1 .. Len(h.spans)
    BY <1>0, <1>1, <1>2, <1>3, <1>4 DEF LiveIn, OwnersOK, HeapTypes
  <1>6. \A s \in 1 .. Len(h.spans) : Pages(g, s) = Pages(h, s)
    BY <1>2 DEF Pages
  <1>7. HeapTypes(g)
    BY <1>0, <1>1, <1>2 DEF HeapTypes
  <1>8. ListsOK(g)
    <2>1. \A i \in Buckets : \A a \in 1 .. Len(h.list[i]) :
              g.spans[h.list[i][a]] = h.spans[h.list[i][a]]
      BY <1>0, <1>2 DEF HeapTypes
    <2>2. g.list = h.list
      BY <1>1
    <2> QED
      BY <1>0, <2>1, <2>2 DEF ListsOK
  <1>9. OwnersOK(g, G)
    BY <1>0, <1>1, <1>2, <1>3 DEF OwnersOK
  <1>10. CoverOK(g, G, A)
    BY <1>0, <1>1, <1>5, <1>6 DEF CoverOK
  <1>11. MapOK(g, G)
    BY <1>0, <1>1, <1>5, <1>6 DEF MapOK
  <1>12. Len(g.spans) \notin LiveIn(g, G)
    BY <1>2, <1>5
  <1> QED
    BY <1>1, <1>2, <1>7, <1>8, <1>9, <1>10, <1>11, <1>12 DEF HeapOK, Structured

\* A span for pages that were in none: update_mapping makes it known.
LEMMA Claim ==
    ASSUME NEW h, NEW G, NEW A, HeapOK(h, G, A), NEW s \in 1 .. Len(h.spans),
           s \notin LiveIn(h, G), Pages(h, s) \subseteq A, NEW g, g = update_mapping(h, s)
    PROVE  /\ HeapOK(g, With(G, s), Minus(A, Pages(h, s)))
           /\ g.brk = h.brk /\ g.spans = h.spans /\ g.rem = h.rem /\ g.meta = h.meta
           /\ g.list = h.list
  <1>0. HeapTypes(h) /\ ListsOK(h) /\ OwnersOK(h, G) /\ CoverOK(h, G, A) /\ MapOK(h, G)
    BY DEF HeapOK
  <1>1. /\ g.brk = h.brk /\ g.spans = h.spans /\ g.rem = h.rem /\ g.meta = h.meta
        /\ g.list = h.list /\ IsHeap(g)
    BY <1>0, UpdateIs DEF HeapTypes
  <1>2. /\ DOMAIN g.page_mapping = DOMAIN h.page_mapping \cup Pages(h, s)
        /\ \A p \in DOMAIN g.page_mapping :
              g.page_mapping[p] = IF p \in Pages(h, s) THEN s ELSE h.page_mapping[p]
    <2>1. g.page_mapping = Mapped(h, s)
      BY <1>0, UpdateIs DEF HeapTypes
    <2>2. /\ DOMAIN Mapped(h, s) = DOMAIN h.page_mapping \cup Pages(h, s)
          /\ \A p \in DOMAIN Mapped(h, s) :
                Mapped(h, s)[p] = IF p \in Pages(h, s) THEN s ELSE h.page_mapping[p]
      BY MappedIs
    <2> QED
      BY <2>1, <2>2
  <1>3. \A u : (Pages(g, u) = Pages(h, u)) /\ (OnList(g, u) <=> OnList(h, u))
    BY <1>1, SameLive
  <1>4. LiveIn(g, With(G, s)) = LiveIn(h, G) \cup {s}
    BY <1>1, <1>3 DEF LiveIn, With
  <1>5. Pages(h, s) \subseteq Nat
    BY <1>0, SpanFacts
  <1>6. HeapTypes(g)
    BY <1>0, <1>1, <1>2, <1>5 DEF HeapTypes
  <1>7. ListsOK(g)
    BY <1>0, <1>1 DEF ListsOK
  <1>8. OwnersOK(g, With(G, s))
    <2>1. ~OnList(h, s) /\ s \notin h.meta
      BY DEF LiveIn
    <2> QED
      BY <1>0, <1>1, <1>3, <2>1 DEF OwnersOK, With
  <1>9. CoverOK(g, With(G, s), Minus(A, Pages(h, s)))
    BY <1>0, <1>1, <1>3, <1>4 DEF CoverOK, Below, Minus
  <1>10. MapOK(g, With(G, s))
    <2> SUFFICES ASSUME NEW u \in LiveIn(h, G) \cup {s}, NEW p \in Pages(h, u)
                 PROVE  p \in DOMAIN g.page_mapping /\ g.page_mapping[p] = u
      BY <1>3, <1>4 DEF MapOK
    <2>1. CASE u = s
      BY <1>2, <2>1
    <2>2. CASE u \in LiveIn(h, G)
      <3>1. p \notin Pages(h, s)
        BY <1>0, <2>2 DEF CoverOK, Below
      <3>2. p \in DOMAIN h.page_mapping /\ h.page_mapping[p] = u
        BY <1>0, <2>2 DEF MapOK
      <3> QED
        BY <1>2, <3>1, <3>2
    <2> QED
      BY <2>1, <2>2
  <1> QED
    BY <1>1, <1>6, <1>7, <1>8, <1>9, <1>10 DEF HeapOK

\* The first structure of a chunk stands for the chunk from now on.
LEMMA ToMeta ==
    ASSUME NEW h, NEW G, NEW A, NEW s, s \notin G, HeapOK(h, With(G, s), A),
           NEW g, g = SetMeta(h, With(h.meta, s))
    PROVE  HeapOK(g, G, A)
  <1>0. /\ HeapTypes(h) /\ ListsOK(h) /\ OwnersOK(h, With(G, s)) /\ CoverOK(h, With(G, s), A)
        /\ MapOK(h, With(G, s))
    BY DEF HeapOK
  <1>1. /\ g.brk = h.brk /\ g.spans = h.spans /\ g.rem = h.rem /\ g.meta = With(h.meta, s)
        /\ g.list = h.list /\ g.page_mapping = h.page_mapping /\ IsHeap(g)
    <2>2. g = Mk(h.brk, h.spans, h.rem, With(h.meta, s), h.list, h.page_mapping)
      BY <1>0, SetField DEF HeapTypes
    <2> QED
      BY <2>2, Fields
  <1>2. \A u : (Pages(g, u) = Pages(h, u)) /\ (OnList(g, u) <=> OnList(h, u))
    BY <1>1 DEF Pages, OnList
  <1>3. LiveIn(g, G) = LiveIn(h, With(G, s))
    BY <1>1, <1>2 DEF LiveIn, With
  <1>4. HeapTypes(g)
    <2>1. s \in 1 .. Len(h.spans)
      BY <1>0 DEF OwnersOK, With
    <2> QED
      BY <1>0, <1>1, <2>1 DEF HeapTypes, With
  <1>5. ListsOK(g)
    BY <1>0, <1>1, SameLists
  <1>6. OwnersOK(g, G)
    BY <1>0, <1>1, <1>2 DEF OwnersOK, With
  <1>7. CoverOK(g, G, A)
    BY <1>0, <1>1, <1>2, <1>3 DEF CoverOK
  <1>8. MapOK(g, G)
    <2>1. g.page_mapping = h.page_mapping
      BY <1>1
    <2> QED
      BY <1>0, <1>2, <1>3, <2>1 DEF MapOK
  <1> QED
    BY <1>4, <1>5, <1>6, <1>7, <1>8 DEF HeapOK

\* update_mapping of a live span changes nothing: the map names it already.
LEMMA Remap ==
    ASSUME NEW h, NEW G, NEW A, HeapOK(h, G, A), NEW s \in G,
           NEW g, g = update_mapping(h, s)
    PROVE  /\ HeapOK(g, G, A)
           /\ g.brk = h.brk /\ g.spans = h.spans /\ g.rem = h.rem /\ g.meta = h.meta
           /\ g.list = h.list
  <1>0. HeapTypes(h) /\ ListsOK(h) /\ OwnersOK(h, G) /\ CoverOK(h, G, A) /\ MapOK(h, G)
    BY DEF HeapOK
  <1>1. /\ g.brk = h.brk /\ g.spans = h.spans /\ g.rem = h.rem /\ g.meta = h.meta
        /\ g.list = h.list /\ IsHeap(g) /\ g.page_mapping = Mapped(h, s)
    BY <1>0, UpdateIs DEF HeapTypes
  <1>2. s \in LiveIn(h, G)
    BY <1>0 DEF LiveIn, OwnersOK
  <1>3. \A p \in Pages(h, s) : p \in DOMAIN h.page_mapping /\ h.page_mapping[p] = s
    BY <1>0, <1>2 DEF MapOK
  <1>4. /\ DOMAIN g.page_mapping = DOMAIN h.page_mapping
        /\ \A p \in DOMAIN g.page_mapping : g.page_mapping[p] = h.page_mapping[p]
    <2>1. /\ DOMAIN Mapped(h, s) = DOMAIN h.page_mapping \cup Pages(h, s)
          /\ \A p \in DOMAIN Mapped(h, s) :
                Mapped(h, s)[p] = IF p \in Pages(h, s) THEN s ELSE h.page_mapping[p]
      BY MappedIs
    <2> QED
      BY <1>1, <1>3, <2>1
  <1>5. /\ LiveIn(g, G) = LiveIn(h, G) /\ \A u : Pages(g, u) = Pages(h, u)
        /\ \A u : OnList(g, u) <=> OnList(h, u)
    BY <1>1, SameLive
  <1>6. HeapTypes(g)
    BY <1>0, <1>1, <1>4 DEF HeapTypes
  <1>7. ListsOK(g)
    BY <1>0, <1>1, SameLists
  <1>8. OwnersOK(g, G)
    BY <1>0, <1>1, <1>5 DEF OwnersOK
  <1>9. CoverOK(g, G, A)
    BY <1>0, <1>1, <1>5 DEF CoverOK
  <1>10. MapOK(g, G)
    BY <1>0, <1>4, <1>5 DEF MapOK
  <1> QED
    BY <1>1, <1>6, <1>7, <1>8, <1>9, <1>10 DEF HeapOK

\* s is the first element of list b, and the rest is as before.
PushedOK(l, b, s) ==
    /\ Pushed(l, b, s) \in [Buckets -> Seq(Nat)]
    /\ \A i \in Buckets \ {b} : Pushed(l, b, s)[i] = l[i]
    /\ Len(l[b]) \in Nat /\ Len(Pushed(l, b, s)[b]) = Len(l[b]) + 1
    /\ Pushed(l, b, s)[b] # <<>> /\ Pushed(l, b, s)[b][1] = s
    /\ \A a \in 2 .. Len(l[b]) + 1 : Pushed(l, b, s)[b][a] = l[b][a - 1]

\* What pushing does to the lists as sequences.
LEMMA PushedIs ==
    ASSUME NEW l \in [Buckets -> Seq(Nat)], NEW b \in Buckets, NEW s \in Nat
    PROVE  PushedOK(l, b, s)
  <1>1. l[b] \in Seq(Nat) /\ <<s>> \in Seq(Nat) /\ Len(<<s>>) = 1 /\ <<s>>[1] = s
    OBVIOUS
  <1>2. PICK q : q = <<s>> \o l[b]
    OBVIOUS
  <1>3. /\ q \in Seq(Nat) /\ Len(q) = Len(l[b]) + 1 /\ Len(l[b]) \in Nat /\ q[1] = s
        /\ \A a \in 2 .. Len(l[b]) + 1 : q[a] = l[b][a - 1]
    BY <1>1, <1>2
  <1>4. /\ Pushed(l, b, s) \in [Buckets -> Seq(Nat)] /\ Pushed(l, b, s)[b] = q
        /\ \A i \in Buckets \ {b} : Pushed(l, b, s)[i] = l[i]
    BY <1>2, <1>3 DEF Pushed
  <1>5. q # <<>>
    BY <1>3
  <1> QED
    BY <1>3, <1>4, <1>5 DEF PushedOK

\* What removing the head does.
LEMMA PoppedIs ==
    ASSUME NEW l \in [Buckets -> Seq(Nat)], NEW b \in Buckets, l[b] # <<>>
    PROVE  /\ Popped(l, b) \in [Buckets -> Seq(Nat)]
           /\ \A i \in Buckets \ {b} : Popped(l, b)[i] = l[i]
           /\ Len(l[b]) \in Nat \ {0} /\ Len(Popped(l, b)[b]) = Len(l[b]) - 1
           /\ Head(l[b]) = l[b][1]
           /\ \A a \in 1 .. Len(l[b]) - 1 : Popped(l, b)[b][a] = l[b][a + 1]
  <1>1. l[b] \in Seq(Nat)
    OBVIOUS
  <1>2. PICK q : q = Tail(l[b])
    OBVIOUS
  <1>3. /\ q \in Seq(Nat) /\ Len(q) = Len(l[b]) - 1 /\ Len(l[b]) \in Nat \ {0}
        /\ \A a \in 1 .. Len(l[b]) - 1 : q[a] = l[b][a + 1]
    BY <1>1, <1>2
  <1>4. /\ Popped(l, b) \in [Buckets -> Seq(Nat)] /\ Popped(l, b)[b] = q
        /\ \A i \in Buckets \ {b} : Popped(l, b)[i] = l[i]
    BY <1>2, <1>3 DEF Popped
  <1>5. Head(l[b]) = l[b][1]
    BY <1>1
  <1> QED
    BY <1>3, <1>4, <1>5

\* A span goes from its holder to its list.
LEMMA Push ==
    ASSUME NEW h, NEW G, NEW A, HeapOK(h, G, A), NEW s \in G,
           NEW g, g = spanlist_push(h, s)
    PROVE  /\ HeapOK(g, Without(G, s), A)
           /\ g.brk = h.brk /\ g.spans = h.spans /\ g.rem = h.rem /\ g.meta = h.meta
           /\ g.page_mapping = h.page_mapping
           /\ g.list[Bucket(h.spans[s].pageSize)] # <<>>
  <1>0. HeapTypes(h) /\ ListsOK(h) /\ OwnersOK(h, G) /\ CoverOK(h, G, A) /\ MapOK(h, G)
    BY DEF HeapOK
  <1>1. PICK b : b = Bucket(h.spans[s].pageSize)
    OBVIOUS
  <1>2. /\ g.brk = h.brk /\ g.spans = h.spans /\ g.rem = h.rem /\ g.meta = h.meta
        /\ g.page_mapping = h.page_mapping /\ IsHeap(g) /\ g.list = Pushed(h.list, b, s)
    BY <1>0, <1>1, PushIs DEF HeapTypes
  <1>3. s \in 1 .. Len(h.spans) /\ Len(h.spans) \in Nat /\ ~OnList(h, s) /\ s \notin h.meta
    BY <1>0, LenProperties DEF OwnersOK, HeapTypes
  <1>4. b \in Buckets
    BY <1>0, <1>1, <1>3, SpanFacts
  <1>5. /\ g.list \in [Buckets -> Seq(Nat)]
        /\ \A i \in Buckets \ {b} : g.list[i] = h.list[i]
        /\ Len(h.list[b]) \in Nat /\ Len(g.list[b]) = Len(h.list[b]) + 1
        /\ g.list[b] # <<>> /\ g.list[b][1] = s
        /\ \A a \in 2 .. Len(h.list[b]) + 1 : g.list[b][a] = h.list[b][a - 1]
    <2>1. s \in Nat /\ h.list \in [Buckets -> Seq(Nat)]
      BY <1>0, <1>3 DEF HeapTypes
    <2>2. /\ Pushed(h.list, b, s) \in [Buckets -> Seq(Nat)]
          /\ \A i \in Buckets \ {b} : Pushed(h.list, b, s)[i] = h.list[i]
          /\ Len(h.list[b]) \in Nat /\ Len(Pushed(h.list, b, s)[b]) = Len(h.list[b]) + 1
          /\ Pushed(h.list, b, s)[b] # <<>> /\ Pushed(h.list, b, s)[b][1] = s
          /\ \A a \in 2 .. Len(h.list[b]) + 1 :
                Pushed(h.list, b, s)[b][a] = h.list[b][a - 1]
      <3>1. PushedOK(h.list, b, s)
        BY <1>4, <2>1, PushedIs
      <3> QED
        BY <3>1 DEF PushedOK
    <2> QED
      BY <1>2, <2>2
  <1>6. \A i \in Buckets : \A a \in 1 .. Len(g.list[i]) :
            \/ i = b /\ a = 1 /\ g.list[i][a] = s
            \/ i = b /\ a - 1 \in 1 .. Len(h.list[i]) /\ g.list[i][a] = h.list[i][a - 1]
            \/ i # b /\ a \in 1 .. Len(h.list[i]) /\ g.list[i][a] = h.list[i][a]
    <2> SUFFICES ASSUME NEW i \in Buckets, NEW a \in 1 .. Len(g.list[i])
                 PROVE  \/ i = b /\ a = 1 /\ g.list[i][a] = s
                        \/ i = b /\ a - 1 \in 1 .. Len(h.list[i])
                           /\ g.list[i][a] = h.list[i][a - 1]
                        \/ i # b /\ a \in 1 .. Len(h.list[i]) /\ g.list[i][a] = h.list[i][a]
      OBVIOUS
    <2>1. CASE i # b
      BY <1>5, <2>1
    <2>2. CASE i = b /\ a = 1
      BY <1>5, <2>2
    <2>3. CASE i = b /\ a # 1
      <3>1. a \in 2 .. Len(h.list[b]) + 1 /\ a - 1 \in 1 .. Len(h.list[b])
        BY <1>5, <2>3
      <3> QED
        BY <1>5, <2>3, <3>1
    <2> QED
      BY <2>1, <2>2, <2>3
  <1>7. \A u : OnList(g, u) <=> (OnList(h, u) \/ u = s)
    <2>1. ASSUME NEW u, OnList(g, u)
          PROVE  OnList(h, u) \/ u = s
      <3>1. PICK i \in Buckets : \E a \in 1 .. Len(g.list[i]) : g.list[i][a] = u
        BY <2>1 DEF OnList
      <3>2. PICK a \in 1 .. Len(g.list[i]) : g.list[i][a] = u
        BY <3>1
      <3> QED
        BY <1>6, <3>2 DEF OnList
    <2>2. OnList(g, s)
      BY <1>4, <1>5 DEF OnList
    <2>3. ASSUME NEW u, OnList(h, u)
          PROVE  OnList(g, u)
      <3>1. PICK i \in Buckets : \E a \in 1 .. Len(h.list[i]) : h.list[i][a] = u
        BY <2>3 DEF OnList
      <3>0. PICK a \in 1 .. Len(h.list[i]) : h.list[i][a] = u
        BY <3>1
      <3>2. CASE i # b
        BY <1>5, <3>0, <3>2 DEF OnList
      <3>3. CASE i = b
        <4>1. a + 1 \in 2 .. Len(h.list[b]) + 1 /\ a + 1 \in 1 .. Len(g.list[b])
              /\ (a + 1) - 1 = a
          BY <1>5, <3>3
        <4>2. g.list[b][a + 1] = u
          BY <1>5, <3>0, <3>3, <4>1
        <4> QED
          BY <1>4, <4>1, <4>2 DEF OnList
      <3> QED
        BY <3>2, <3>3
    <2> QED
      BY <2>1, <2>2, <2>3
  <1>8. LiveIn(g, Without(G, s)) = LiveIn(h, G) /\ \A u : Pages(g, u) = Pages(h, u)
    BY <1>2, <1>3, <1>7 DEF LiveIn, Pages, Without
  <1>9. HeapTypes(g)
    <2>1. ASSUME NEW i \in Buckets, NEW a \in 1 .. Len(g.list[i])
          PROVE  g.list[i][a] \in 1 .. Len(h.spans)
      <3>1. \A k \in 1 .. Len(h.list[i]) : h.list[i][k] \in 1 .. Len(h.spans)
        BY <1>0 DEF HeapTypes
      <3> QED
        BY <1>3, <1>6, <3>1
    <2> QED
      BY <1>0, <1>2, <1>5, <2>1 DEF HeapTypes
  <1>10. ListsOK(g)
    <2>1. ASSUME NEW i \in Buckets, NEW a \in 1 .. Len(g.list[i]), NEW c \in 1 .. Len(g.list[i]),
                 g.list[i][a] = g.list[i][c]
          PROVE  a = c
      <3>1. CASE i # b
        BY <1>0, <1>5, <2>1, <3>1 DEF ListsOK
      <3>2. CASE i = b
        <4>1. \A d \in 1 .. Len(h.list[b]) : h.list[b][d] # s
          BY <1>3, <1>4 DEF OnList
        <4>2. CASE a = 1 \/ c = 1
          <5>1. g.list[i][a] = s /\ g.list[i][c] = s
            BY <1>5, <2>1, <3>2, <4>2
          <5>2. \A d \in 1 .. Len(g.list[b]) :
                    \/ d = 1
                    \/ d - 1 \in 1 .. Len(h.list[b]) /\ g.list[b][d] = h.list[b][d - 1]
            BY <1>4, <1>6
          <5> QED
            BY <3>2, <4>1, <5>1, <5>2
        <4>3. CASE a # 1 /\ c # 1
          <5>1. /\ a - 1 \in 1 .. Len(h.list[b]) /\ c - 1 \in 1 .. Len(h.list[b])
                /\ h.list[b][a - 1] = h.list[b][c - 1]
            BY <1>6, <2>1, <3>2, <4>3
          <5>2. a - 1 = c - 1
            BY <1>0, <1>4, <5>1 DEF ListsOK
          <5> QED
            BY <5>2
        <4> QED
          BY <4>2, <4>3
      <3> QED
        BY <3>1, <3>2
    <2>2. ASSUME NEW i \in Buckets, NEW a \in 1 .. Len(g.list[i])
          PROVE  Bucket(h.spans[g.list[i][a]].pageSize) = i
      <3>1. \A k \in 1 .. Len(h.list[i]) : Bucket(h.spans[h.list[i][k]].pageSize) = i
        BY <1>0 DEF ListsOK
      <3>2. CASE i = b /\ g.list[i][a] = s
        BY <1>1, <3>2
      <3>3. CASE \E k \in 1 .. Len(h.list[i]) : g.list[i][a] = h.list[i][k]
        BY <3>1, <3>3
      <3> QED
        BY <1>6, <3>2, <3>3
    <2>3. g.spans = h.spans
      BY <1>2
    <2> QED
      BY <2>1, <2>2, <2>3 DEF ListsOK
  <1>11. OwnersOK(g, Without(G, s))
    BY <1>0, <1>2, <1>3, <1>7 DEF OwnersOK, Without
  <1>12. CoverOK(g, Without(G, s), A)
    BY <1>0, <1>2, <1>8 DEF CoverOK
  <1>13. MapOK(g, Without(G, s))
    BY <1>0, <1>2, <1>8 DEF MapOK
  <1> QED
    BY <1>1, <1>2, <1>5, <1>9, <1>10, <1>11, <1>12, <1>13 DEF HeapOK

\* g is h with span s taken out of list b.
TakenFrom(h, G, A, b, s, g) ==
    /\ HeapOK(g, With(G, s), A)
    /\ g.brk = h.brk /\ g.spans = h.spans /\ g.rem = h.rem /\ g.meta = h.meta
    /\ s \in 1 .. Len(h.spans) /\ s \notin G /\ Bucket(h.spans[s].pageSize) = b
    /\ LiveIn(g, With(G, s)) = LiveIn(h, G)

\* The head of a list goes to the operation.
LEMMA Pop ==
    ASSUME NEW h, NEW G, NEW A, HeapOK(h, G, A), NEW b \in Buckets, h.list[b] # <<>>,
           NEW s, s = Head(h.list[b]), NEW g, g = PopList(h, b)
    PROVE  TakenFrom(h, G, A, b, s, g)
  <1>0. HeapTypes(h) /\ ListsOK(h) /\ OwnersOK(h, G) /\ CoverOK(h, G, A) /\ MapOK(h, G)
    BY DEF HeapOK
  <1>1. /\ g.brk = h.brk /\ g.spans = h.spans /\ g.rem = h.rem /\ g.meta = h.meta
        /\ g.page_mapping = h.page_mapping /\ IsHeap(g) /\ g.list = Popped(h.list, b)
    BY <1>0, PopIs DEF HeapTypes
  <1>2. /\ g.list \in [Buckets -> Seq(Nat)]
        /\ \A i \in Buckets \ {b} : g.list[i] = h.list[i]
        /\ Len(h.list[b]) \in Nat \ {0} /\ Len(g.list[b]) = Len(h.list[b]) - 1
        /\ s = h.list[b][1]
        /\ \A a \in 1 .. Len(h.list[b]) - 1 : g.list[b][a] = h.list[b][a + 1]
    <2>1. h.list \in [Buckets -> Seq(Nat)]
      BY <1>0 DEF HeapTypes
    <2>2. /\ Popped(h.list, b) \in [Buckets -> Seq(Nat)]
          /\ \A i \in Buckets \ {b} : Popped(h.list, b)[i] = h.list[i]
          /\ Len(h.list[b]) \in Nat \ {0} /\ Len(Popped(h.list, b)[b]) = Len(h.list[b]) - 1
          /\ Head(h.list[b]) = h.list[b][1]
          /\ \A a \in 1 .. Len(h.list[b]) - 1 : Popped(h.list, b)[b][a] = h.list[b][a + 1]
      BY <2>1, PoppedIs
    <2> QED
      BY <1>1, <2>2
  <1>3. \A i \in Buckets : \A a \in 1 .. Len(g.list[i]) :
            \/ i = b /\ a + 1 \in 2 .. Len(h.list[i]) /\ g.list[i][a] = h.list[i][a + 1]
            \/ i # b /\ a \in 1 .. Len(h.list[i]) /\ g.list[i][a] = h.list[i][a]
    <2> SUFFICES ASSUME NEW i \in Buckets, NEW a \in 1 .. Len(g.list[i])
                 PROVE  \/ i = b /\ a + 1 \in 2 .. Len(h.list[i])
                           /\ g.list[i][a] = h.list[i][a + 1]
                        \/ i # b /\ a \in 1 .. Len(h.list[i]) /\ g.list[i][a] = h.list[i][a]
      OBVIOUS
    <2>1. CASE i # b
      BY <1>2, <2>1
    <2>2. CASE i = b
      BY <1>2, <2>2
    <2> QED
      BY <2>1, <2>2
  <1>4. \A i \in Buckets : \A a \in 1 .. Len(g.list[i]) :
            \E k \in 1 .. Len(h.list[i]) : g.list[i][a] = h.list[i][k]
    <2> SUFFICES ASSUME NEW i \in Buckets, NEW a \in 1 .. Len(g.list[i])
                 PROVE  \E k \in 1 .. Len(h.list[i]) : g.list[i][a] = h.list[i][k]
      OBVIOUS
    <2> QED
      BY <1>2, <1>3
  <1>5. /\ s \in 1 .. Len(h.spans) /\ Bucket(h.spans[s].pageSize) = b
        /\ OnList(h, s)
    BY <1>0, <1>2 DEF HeapTypes, ListsOK, OnList
  <1>6. ~OnList(g, s)
    <2> SUFFICES ASSUME NEW i \in Buckets, NEW a \in 1 .. Len(g.list[i]), g.list[i][a] = s
                 PROVE  FALSE
      BY DEF OnList
    <2>1. CASE i = b
      <3>1. a + 1 \in 2 .. Len(h.list[b]) /\ h.list[b][a + 1] = h.list[b][1]
        BY <1>2, <1>3, <2>1
      <3>2. a + 1 \in 1 .. Len(h.list[b]) /\ 1 \in 1 .. Len(h.list[b]) /\ a + 1 # 1
        BY <1>2, <3>1
      <3> QED
        BY <1>0, <3>1, <3>2 DEF ListsOK
    <2>2. CASE i # b
      <3>1. Bucket(h.spans[s].pageSize) = i
        BY <1>0, <1>3, <2>2 DEF ListsOK
      <3> QED
        BY <1>5, <2>2, <3>1
    <2> QED
      BY <2>1, <2>2
  <1>7. \A u : OnList(h, u) <=> (OnList(g, u) \/ u = s)
    <2>1. ASSUME NEW u, OnList(g, u)
          PROVE  OnList(h, u)
      <3>1. PICK i \in Buckets : \E a \in 1 .. Len(g.list[i]) : g.list[i][a] = u
        BY <2>1 DEF OnList
      <3>2. PICK a \in 1 .. Len(g.list[i]) : g.list[i][a] = u
        BY <3>1
      <3>3. \E k \in 1 .. Len(h.list[i]) : h.list[i][k] = u
        BY <1>4, <3>2
      <3> QED
        BY <3>3 DEF OnList
    <2>2. ASSUME NEW u, OnList(h, u), u # s
          PROVE  OnList(g, u)
      <3>1. PICK i \in Buckets : \E a \in 1 .. Len(h.list[i]) : h.list[i][a] = u
        BY <2>2 DEF OnList
      <3>0. PICK a \in 1 .. Len(h.list[i]) : h.list[i][a] = u
        BY <3>1
      <3>2. CASE i # b
        BY <1>2, <3>0, <3>2 DEF OnList
      <3>3. CASE i = b
        <4>1. a - 1 \in 1 .. Len(h.list[b]) - 1 /\ a - 1 \in 1 .. Len(g.list[b])
              /\ (a - 1) + 1 = a
          BY <1>2, <2>2, <3>0, <3>3
        <4>2. g.list[b][a - 1] = u
          BY <1>2, <3>0, <3>3, <4>1
        <4> QED
          BY <4>1, <4>2 DEF OnList
      <3> QED
        BY <3>2, <3>3
    <2> QED
      BY <1>5, <2>1, <2>2
  <1>8. LiveIn(g, With(G, s)) = LiveIn(h, G) /\ \A u : Pages(g, u) = Pages(h, u)
    BY <1>1, <1>5, <1>7 DEF LiveIn, Pages, With
  <1>9. s \notin G /\ s \notin h.meta
    BY <1>0, <1>5 DEF OwnersOK
  <1>10. HeapTypes(g)
    <2>1. ASSUME NEW i \in Buckets, NEW a \in 1 .. Len(g.list[i])
          PROVE  g.list[i][a] \in 1 .. Len(h.spans)
      <3>1. \A k \in 1 .. Len(h.list[i]) : h.list[i][k] \in 1 .. Len(h.spans)
        BY <1>0 DEF HeapTypes
      <3> QED
        BY <1>4, <3>1
    <2> QED
      BY <1>0, <1>1, <1>2, <2>1 DEF HeapTypes
  <1>11. ListsOK(g)
    <2>1. ASSUME NEW i \in Buckets, NEW a \in 1 .. Len(g.list[i]), NEW c \in 1 .. Len(g.list[i]),
                 g.list[i][a] = g.list[i][c]
          PROVE  a = c
      <3>1. CASE i # b
        <4>1. g.list[i] = h.list[i]
          BY <1>2, <3>1
        <4> QED
          BY <1>0, <2>1, <4>1 DEF ListsOK
      <3>2. CASE i = b
        <4>1. /\ a + 1 \in 1 .. Len(h.list[b]) /\ c + 1 \in 1 .. Len(h.list[b])
              /\ h.list[b][a + 1] = h.list[b][c + 1]
          BY <1>2, <1>3, <2>1, <3>2
        <4>2. a + 1 = c + 1
          BY <1>0, <4>1 DEF ListsOK
        <4> QED
          BY <4>2
      <3> QED
        BY <3>1, <3>2
    <2>2. ASSUME NEW i \in Buckets, NEW a \in 1 .. Len(g.list[i])
          PROVE  Bucket(h.spans[g.list[i][a]].pageSize) = i
      <3>1. \A k \in 1 .. Len(h.list[i]) : Bucket(h.spans[h.list[i][k]].pageSize) = i
        BY <1>0 DEF ListsOK
      <3>2. \E k \in 1 .. Len(h.list[i]) : g.list[i][a] = h.list[i][k]
        BY <1>4
      <3> QED
        BY <3>1, <3>2
    <2>3. g.spans = h.spans
      BY <1>1
    <2> QED
      BY <2>1, <2>2, <2>3 DEF ListsOK
  <1>12. OwnersOK(g, With(G, s))
    BY <1>0, <1>1, <1>5, <1>6, <1>7, <1>9 DEF OwnersOK, With
  <1>13. CoverOK(g, With(G, s), A)
    BY <1>0, <1>1, <1>8 DEF CoverOK
  <1>14. MapOK(g, With(G, s))
    BY <1>0, <1>1, <1>8 DEF MapOK
  <1> QED
    BY <1>1, <1>5, <1>8, <1>9, <1>10, <1>11, <1>12, <1>13, <1>14 DEF HeapOK, TakenFrom

\* Two structures changed.
Changed(sp, t, r, u, q) == [sp EXCEPT ![t] = r, ![u] = q]

\* The others stay, and there are as many.
LEMMA ChangedIs ==
    ASSUME NEW sp \in Seq(SpanRec), NEW t \in 1 .. Len(sp), NEW u \in 1 .. Len(sp), t # u,
           NEW r \in SpanRec, NEW q \in SpanRec
    PROVE  /\ Changed(sp, t, r, u, q) \in Seq(SpanRec)
           /\ Len(Changed(sp, t, r, u, q)) = Len(sp)
           /\ Changed(sp, t, r, u, q)[t] = r /\ Changed(sp, t, r, u, q)[u] = q
           /\ \A v \in 1 .. Len(sp) : v # t /\ v # u => Changed(sp, t, r, u, q)[v] = sp[v]
  <1>1. PICK s1 : s1 = [sp EXCEPT ![t] = r]
    OBVIOUS
  <1>2. /\ s1 \in Seq(SpanRec) /\ Len(s1) = Len(sp) /\ s1[t] = r
        /\ \A v \in 1 .. Len(sp) : v # t => s1[v] = sp[v]
    BY <1>1, ExceptSeq
  <1>3. PICK s2 : s2 = [s1 EXCEPT ![u] = q]
    OBVIOUS
  <1>4. /\ s2 \in Seq(SpanRec) /\ Len(s2) = Len(sp) /\ s2[u] = q
        /\ \A v \in 1 .. Len(sp) : v # u => s2[v] = s1[v]
    BY <1>2, <1>3, ExceptSeq
  <1>5. s2 = Changed(sp, t, r, u, q)
    BY <1>1, <1>3 DEF Changed
  <1> QED
    BY <1>2, <1>4, <1>5

\* The pages of a span from its two fields.
LEMMA PagesAre ==
    ASSUME NEW h, NEW s, NEW a, NEW n, h.spans[s].pageId = a, h.spans[s].pageSize = n
    PROVE  Pages(h, s) = Run(a, n)
  BY DEF Pages, Run

\* A run of pages is its first m and its last n.
CutInTwo(a, m, n) ==
    /\ Run(a, m + n) = Plus(Run(a, m), Run(a + m, n))
    /\ \A p : ~(p \in Run(a, m) /\ p \in Run(a + m, n))

\* An interval of pages cut in two.
LEMMA CutPages ==
    ASSUME NEW a \in Nat, NEW m \in Nat, NEW n \in Nat
    PROVE  CutInTwo(a, m, n)
  <1>1. Run(a, m + n) = Plus(Run(a, m), Run(a + m, n))
    <2>1. ASSUME NEW p
          PROVE  p \in Run(a, m + n) <=> p \in Run(a, m) \/ p \in Run(a + m, n)
      <3>1. CASE p \in Int
        BY <3>1 DEF Run
      <3>2. CASE p \notin Int
        BY <3>2 DEF Run
      <3> QED
        BY <3>1, <3>2
    <2> QED
      BY <2>1, Zenon DEF Plus
  <1>2. \A p : ~(p \in Run(a, m) /\ p \in Run(a + m, n))
    BY DEF Run
  <1> QED
    BY <1>1, <1>2 DEF CutInTwo

\* split_spans gives the last n pages of tmp up for the structure new.
LEMMA Resize ==
    ASSUME NEW h, NEW G, NEW A, HeapOK(h, G, A), NEW tmp \in G, NEW new \in 1 .. Len(h.spans),
           new \notin LiveIn(h, G), NEW n \in Nat \ {0}, h.spans[new].pageSize = n,
           NEW size \in Nat \ {0}, h.spans[tmp].pageSize = size + n,
           NEW first, first = h.spans[tmp].pageId + size,
           NEW g, g = Resized(h, tmp, size, new, first)
    PROVE  /\ HeapOK(g, G, Plus(A, Pages(g, new)))
           /\ Minus(Plus(A, Pages(g, new)), Pages(g, new)) = A
           /\ g.brk = h.brk /\ g.rem = h.rem /\ g.meta = h.meta /\ g.list = h.list
           /\ Len(g.spans) = Len(h.spans) /\ g.spans[new].pageSize = n
           /\ g.spans[tmp].pageSize = size
           /\ \A s \in 1 .. Len(h.spans) : s # tmp /\ s # new => g.spans[s] = h.spans[s]
           /\ new \notin LiveIn(g, G)
  <1>0. HeapTypes(h) /\ ListsOK(h) /\ OwnersOK(h, G) /\ CoverOK(h, G, A) /\ MapOK(h, G)
    BY DEF HeapOK
  <1>1. /\ tmp \in 1 .. Len(h.spans) /\ tmp \in LiveIn(h, G) /\ tmp # new
        /\ ~OnList(h, tmp) /\ tmp \notin h.meta
        /\ ~OnList(h, new) /\ new \notin h.meta /\ new \notin G
    BY <1>0 DEF OwnersOK, LiveIn
  <1>2. h.spans[tmp].pageId \in Nat /\ first \in Nat
    BY <1>0, <1>1, SpanFacts
  <1>3. PICK r : r = [pageId |-> h.spans[tmp].pageId, pageSize |-> size]
    OBVIOUS
  <1>4. PICK q : q = [pageId |-> first, pageSize |-> n]
    OBVIOUS
  <1>5. r \in SpanRec /\ q \in SpanRec
    BY <1>2, <1>3, <1>4 DEF SpanRec
  <1>6. /\ g.brk = h.brk /\ g.rem = h.rem /\ g.meta = h.meta /\ g.list = h.list
        /\ g.page_mapping = h.page_mapping /\ IsHeap(g)
        /\ g.spans = Changed(h.spans, tmp, r, new, q)
    <2>1. PICK v : v = Changed(h.spans, tmp, r, new, q)
      OBVIOUS
    <2>2. g = SetSpans(h, v)
      BY <1>3, <1>4, <2>1 DEF Resized, SetSpans, Changed
    <2>3. g = Mk(h.brk, v, h.rem, h.meta, h.list, h.page_mapping)
      BY <1>0, <2>2, SetField DEF HeapTypes
    <2>4. /\ g.brk = h.brk /\ g.rem = h.rem /\ g.meta = h.meta /\ g.list = h.list
          /\ g.page_mapping = h.page_mapping /\ IsHeap(g) /\ g.spans = v
      BY <2>3, Fields
    <2> QED
      BY <2>1, <2>4
  <1>7. /\ g.spans \in Seq(SpanRec) /\ Len(g.spans) = Len(h.spans)
        /\ g.spans[tmp] = r /\ g.spans[new] = q
        /\ \A s \in 1 .. Len(h.spans) : s # tmp /\ s # new => g.spans[s] = h.spans[s]
    <2>1. h.spans \in Seq(SpanRec)
      BY <1>0 DEF HeapTypes
    <2>2. /\ Changed(h.spans, tmp, r, new, q) \in Seq(SpanRec)
          /\ Len(Changed(h.spans, tmp, r, new, q)) = Len(h.spans)
          /\ Changed(h.spans, tmp, r, new, q)[tmp] = r
          /\ Changed(h.spans, tmp, r, new, q)[new] = q
          /\ \A v \in 1 .. Len(h.spans) :
                v # tmp /\ v # new => Changed(h.spans, tmp, r, new, q)[v] = h.spans[v]
      <3>1. PICK sp : sp = h.spans
        OBVIOUS
      <3>2. sp \in Seq(SpanRec) /\ tmp \in 1 .. Len(sp) /\ new \in 1 .. Len(sp)
        BY <1>1, <2>1, <3>1
      <3>3. /\ Changed(sp, tmp, r, new, q) \in Seq(SpanRec)
            /\ Len(Changed(sp, tmp, r, new, q)) = Len(sp)
            /\ Changed(sp, tmp, r, new, q)[tmp] = r
            /\ Changed(sp, tmp, r, new, q)[new] = q
            /\ \A v \in 1 .. Len(sp) :
                  v # tmp /\ v # new => Changed(sp, tmp, r, new, q)[v] = sp[v]
        BY <1>1, <1>5, <3>2, ChangedIs
      <3> QED
        BY <3>1, <3>3
    <2> QED
      BY <1>6, <2>2
  <1>8. \A s : OnList(g, s) <=> OnList(h, s)
    <2>1. g.list = h.list
      BY <1>6
    <2> QED
      BY <2>1 DEF OnList
  <1>9. LiveIn(g, G) = LiveIn(h, G)
    BY <1>6, <1>7, <1>8 DEF LiveIn
  <1>10. /\ Pages(g, new) = Run(first, n)
         /\ Pages(g, tmp) = Run(h.spans[tmp].pageId, size)
         /\ Pages(h, tmp) = Run(h.spans[tmp].pageId, size + n)
         /\ \A s \in 1 .. Len(h.spans) : s # tmp /\ s # new => Pages(g, s) = Pages(h, s)
    <2>1. r.pageId = h.spans[tmp].pageId /\ r.pageSize = size /\ q.pageId = first
          /\ q.pageSize = n
      BY <1>3, <1>4
    <2>2. Pages(g, new) = Run(first, n)
      BY <1>7, <2>1, PagesAre
    <2>3. Pages(g, tmp) = Run(h.spans[tmp].pageId, size)
      BY <1>7, <2>1, PagesAre
    <2>4. Pages(h, tmp) = Run(h.spans[tmp].pageId, size + n)
      BY PagesAre
    <2>5. \A s \in 1 .. Len(h.spans) : s # tmp /\ s # new => Pages(g, s) = Pages(h, s)
      BY <1>7 DEF Pages
    <2> QED
      BY <2>2, <2>3, <2>4, <2>5
  <1>11. /\ Pages(h, tmp) = Pages(g, tmp) \cup Pages(g, new)
         /\ Pages(g, tmp) \cap Pages(g, new) = {}
    <2>1. PICK a : a = h.spans[tmp].pageId
      OBVIOUS
    <2>2. a \in Nat /\ first = a + size /\ size \in Nat /\ n \in Nat
      BY <1>2, <2>1
    <2>3. /\ Run(a, size + n) = Plus(Run(a, size), Run(a + size, n))
          /\ \A p : ~(p \in Run(a, size) /\ p \in Run(a + size, n))
      <3>1. CutInTwo(a, size, n)
        BY <2>2, CutPages, Zenon
      <3> QED
        BY <3>1 DEF CutInTwo
    <2> QED
      BY <1>10, <2>1, <2>2, <2>3 DEF Plus
  <1>12. HeapTypes(g)
    BY <1>0, <1>6, <1>7 DEF HeapTypes
  <1>13. ListsOK(g)
    <2>1. ASSUME NEW i \in Buckets, NEW a \in 1 .. Len(h.list[i])
          PROVE  g.spans[h.list[i][a]] = h.spans[h.list[i][a]]
      <3>1. h.list[i][a] # tmp /\ h.list[i][a] # new /\ h.list[i][a] \in 1 .. Len(h.spans)
        BY <1>0, <1>1 DEF OnList, HeapTypes
      <3> QED
        BY <1>7, <3>1
    <2>2. g.list = h.list
      BY <1>6
    <2> QED
      BY <1>0, <2>1, <2>2, KeptLists
  <1>14. OwnersOK(g, G)
    BY <1>0, <1>6, <1>7, <1>8 DEF OwnersOK
  <1>15. \A s \in LiveIn(h, G) : s # tmp => Pages(g, s) = Pages(h, s) /\ s # new
    BY <1>10 DEF LiveIn
  <1>16. Pages(h, tmp) \subseteq Below(h.brk, A)
    BY <1>0, <1>1 DEF CoverOK
  <1>17. \A s \in LiveIn(h, G) : s # tmp => Pages(h, s) \cap Pages(h, tmp) = {}
    BY <1>0, <1>1 DEF MapOK
  <1>18. CoverOK(g, G, Plus(A, Pages(g, new)))
    <2>1. Plus(A, Pages(g, new)) \subseteq Run(0, h.brk)
      BY <1>0, <1>11, <1>16 DEF CoverOK, Below, Plus
    <2>2. ASSUME NEW s \in LiveIn(h, G)
          PROVE  Pages(g, s) \subseteq Below(h.brk, Plus(A, Pages(g, new)))
      <3>1. CASE s = tmp
        BY <1>11, <1>16, <3>1 DEF Below, Plus
      <3>2. CASE s # tmp
        <4>1. Pages(h, s) \subseteq Below(h.brk, A)
          BY <1>0 DEF CoverOK
        <4> QED
          BY <1>11, <1>15, <1>17, <3>2, <4>1 DEF Below, Plus
      <3> QED
        BY <3>1, <3>2
    <2>3. ASSUME NEW p \in Below(h.brk, Plus(A, Pages(g, new)))
          PROVE  \E s \in LiveIn(h, G) : p \in Pages(g, s)
      <3>1. p \in Below(h.brk, A) /\ p \notin Pages(g, new)
        BY DEF Below, Plus
      <3>2. PICK s \in LiveIn(h, G) : p \in Pages(h, s)
        BY <1>0, <3>1 DEF CoverOK
      <3> QED
        BY <1>11, <1>15, <3>1, <3>2
    <2>4. g.brk = h.brk
      BY <1>6
    <2> QED
      BY <1>9, <2>1, <2>2, <2>3, <2>4 DEF CoverOK
  <1>19. MapOK(g, G)
    <2>1. \A s \in LiveIn(h, G) : Pages(g, s) \subseteq Pages(h, s)
      BY <1>11, <1>15
    <2>2. g.page_mapping = h.page_mapping
      BY <1>6
    <2> QED
      BY <1>0, <1>9, <2>1, <2>2 DEF MapOK
  <1>20. Minus(Plus(A, Pages(g, new)), Pages(g, new)) = A
    BY <1>11, <1>16 DEF Below, Plus, Minus
  <1>21. g.spans[new].pageSize = n /\ g.spans[tmp].pageSize = size
    BY <1>3, <1>4, <1>7
  <1> QED
    BY <1>6, <1>7, <1>9, <1>12, <1>13, <1>14, <1>18, <1>19, <1>20, <1>21 DEF HeapOK

\* g is h with the last n pages of tmp in new and the rest of tmp on its list.
CutFrom(h, G, A, tmp, new, n, g) ==
    /\ HeapOK(g, Without(With(G, new), tmp), A)
    /\ Len(g.spans) = Len(h.spans) /\ g.spans[new].pageSize = n
    /\ \A s \in 1 .. Len(h.spans) : s # tmp /\ s # new => g.spans[s] = h.spans[s]

\* split_spans: the structure new stands for the last n pages, the rest is on a list.
LEMMA Split ==
    ASSUME NEW h, NEW G, NEW A, HeapOK(h, G, A), NEW tmp \in G, NEW new \in 1 .. Len(h.spans),
           new \notin LiveIn(h, G), NEW n \in Nat \ {0}, h.spans[new].pageSize = n,
           h.spans[tmp].pageSize > n, NEW g, g = split_spans(h, tmp, new, n)
    PROVE  CutFrom(h, G, A, tmp, new, n, g)
  <1>1. tmp \in 1 .. Len(h.spans) /\ tmp \in LiveIn(h, G) /\ tmp # new
    BY DEF HeapOK, OwnersOK, LiveIn
  <1>2. h.spans[tmp].pageSize \in Nat \ {0}
    BY <1>1, SpanFacts DEF HeapOK
  <1>3. PICK size : size = h.spans[tmp].pageSize - n
    OBVIOUS
  <1>4. size \in Nat \ {0} /\ size > 0 /\ h.spans[tmp].pageSize = size + n
    <2>1. PICK p : p = h.spans[tmp].pageSize
      OBVIOUS
    <2>2. p \in Nat /\ p > n /\ size = p - n
      BY <1>2, <1>3, <2>1
    <2>3. size \in Nat \ {0} /\ size > 0 /\ p = size + n
      BY <2>2
    <2> QED
      BY <2>1, <2>3
  <1>5. PICK first : first = h.spans[tmp].pageId + size
    OBVIOUS
  <1>6. PICK f : f = Resized(h, tmp, size, new, first)
    OBVIOUS
  <1>7. /\ HeapOK(f, G, Plus(A, Pages(f, new)))
        /\ Minus(Plus(A, Pages(f, new)), Pages(f, new)) = A
        /\ Len(f.spans) = Len(h.spans) /\ f.spans[new].pageSize = n
        /\ \A s \in 1 .. Len(h.spans) : s # tmp /\ s # new => f.spans[s] = h.spans[s]
        /\ new \notin LiveIn(f, G)
    BY <1>4, <1>5, <1>6, Resize
  <1>8. g = update_mapping(spanlist_push(f, tmp), new)
    BY <1>3, <1>4, <1>5, <1>6 DEF split_spans
  <1>9. PICK k : k = update_mapping(f, new)
    OBVIOUS
  <1>10. g = spanlist_push(k, tmp)
    BY <1>7, <1>8, <1>9, PushUpdate DEF HeapOK, HeapTypes
  <1>11. HeapOK(k, With(G, new), A) /\ k.spans = f.spans
    <2>1. Pages(f, new) \subseteq Plus(A, Pages(f, new)) /\ new \in 1 .. Len(f.spans)
      BY <1>7 DEF Plus
    <2>2. HeapOK(k, With(G, new), Minus(Plus(A, Pages(f, new)), Pages(f, new)))
          /\ k.spans = f.spans
      BY <1>7, <1>9, <2>1, Claim
    <2> QED
      BY <1>7, <2>2
  <1>12. tmp \in With(G, new)
    BY DEF With
  <1>13. HeapOK(g, Without(With(G, new), tmp), A) /\ g.spans = k.spans
    BY <1>10, <1>11, <1>12, Push
  <1> QED
    BY <1>7, <1>11, <1>13 DEF CutFrom

\* new_chunk: its pages belong to the chunk, and no span is in use yet.
LEMMA NewChunk ==
    ASSUME NEW h, NEW G, NEW A, HeapOK(h, G, A), NEW g, g = new_chunk(h)
    PROVE  /\ HeapOK(g, G, A) /\ g.list = h.list /\ g.rem = ChunkSpans - 1
           /\ Len(h.spans) \in Nat /\ Len(g.spans) = Len(h.spans) + 1
           /\ \A s \in 1 .. Len(h.spans) : g.spans[s] = h.spans[s]
  <1>1. HeapTypes(h) /\ IsHeap(h) /\ h.brk \in Nat
    BY DEF HeapOK, HeapTypes
  <1>2. PICK r : r = [pageId |-> h.brk, pageSize |-> SPANPOOLSIZE]
    OBVIOUS
  <1>3. r \in SpanRec /\ r.pageId = h.brk /\ r.pageSize = SPANPOOLSIZE
    BY <1>1, <1>2 DEF SpanRec
  <1>4. PICK c \in Counts : c = ChunkSpans - 1
    BY DEF Counts
  <1>5. PICK b : b = h.brk + SPANPOOLSIZE
    OBVIOUS
  <1>6. PICK I : I = Run(h.brk, SPANPOOLSIZE)
    OBVIOUS
  <1>7. PICK h1 : h1 = Grown(h, SPANPOOLSIZE)
    OBVIOUS
  <1>8. /\ HeapOK(h1, G, Plus(A, I)) /\ h1.brk = b /\ Minus(Plus(A, I), I) = A
        /\ I \subseteq Plus(A, I)
        /\ h1.spans = h.spans /\ h1.rem = h.rem /\ h1.meta = h.meta /\ h1.list = h.list
        /\ h1.page_mapping = h.page_mapping
    <2>1. SPANPOOLSIZE \in Nat
      OBVIOUS
    <2>2. /\ HeapOK(h1, G, Plus(A, Run(h.brk, SPANPOOLSIZE))) /\ h1.brk = h.brk + SPANPOOLSIZE
          /\ Minus(Plus(A, Run(h.brk, SPANPOOLSIZE)), Run(h.brk, SPANPOOLSIZE)) = A
          /\ Run(h.brk, SPANPOOLSIZE) \subseteq Plus(A, Run(h.brk, SPANPOOLSIZE))
          /\ h1.spans = h.spans /\ h1.rem = h.rem /\ h1.meta = h.meta /\ h1.list = h.list
          /\ h1.page_mapping = h.page_mapping
      <3>1. GrownBy(h, G, A, SPANPOOLSIZE, h1)
        BY <1>7, <2>1, Grow
      <3> QED
        BY <3>1 DEF GrownBy
    <2> QED
      BY <1>5, <1>6, <2>2
  <1>9. PICK h2 : h2 = SetTwo(h1, c, Longer(h1.spans, r))
    OBVIOUS
  <1>10. PICK m : m = Len(h2.spans)
    OBVIOUS
  <1>11. /\ HeapOK(h2, G, Plus(A, I)) /\ h2.brk = h1.brk /\ h2.list = h1.list
         /\ h2.meta = h1.meta /\ h2.rem = c /\ h2.page_mapping = h1.page_mapping
         /\ Len(h1.spans) \in Nat /\ Len(h2.spans) = Len(h1.spans) + 1
         /\ \A s \in 1 .. Len(h1.spans) : h2.spans[s] = h1.spans[s]
         /\ h2.spans[Len(h2.spans)] = r /\ Len(h2.spans) \notin LiveIn(h2, G)
    <2>1. Structured(h1, G, Plus(A, I), r, c, h2)
      BY <1>3, <1>8, <1>9, NewStructure
    <2> QED
      BY <2>1 DEF Structured
  <1>12. h2.spans = Longer(h.spans, r)
    <2>1. IsHeap(h1)
      BY <1>8 DEF HeapOK, HeapTypes
    <2>2. h2 = Mk(h1.brk, Longer(h1.spans, r), c, h1.meta, h1.list, h1.page_mapping)
      BY <1>9, <2>1, SetFields
    <2>3. h2.spans = Longer(h1.spans, r)
      BY <2>2, Fields
    <2> QED
      BY <1>8, <2>3
  <1>13. PICK h3 : h3 = update_mapping(h2, m)
    OBVIOUS
  <1>14. Pages(h2, m) = I
    BY <1>3, <1>6, <1>10, <1>11, PagesAre
  <1>15. /\ HeapOK(h3, With(G, m), A) /\ h3.brk = h2.brk /\ h3.spans = h2.spans
         /\ h3.rem = h2.rem /\ h3.meta = h2.meta /\ h3.list = h2.list
    <2>1. m \in 1 .. Len(h2.spans) /\ m \notin LiveIn(h2, G) /\ Pages(h2, m) \subseteq Plus(A, I)
      BY <1>8, <1>10, <1>11, <1>14
    <2>2. /\ HeapOK(h3, With(G, m), Minus(Plus(A, I), Pages(h2, m))) /\ h3.brk = h2.brk
          /\ h3.spans = h2.spans /\ h3.rem = h2.rem /\ h3.meta = h2.meta /\ h3.list = h2.list
      BY <1>11, <1>13, <2>1, Claim
    <2> QED
      BY <1>8, <1>14, <2>2
  <1>16. PICK h4 : h4 = SetMeta(h3, With(h3.meta, m))
    OBVIOUS
  <1>17. m \notin G
    BY <1>10, <1>11 DEF HeapOK, OwnersOK, LiveIn
  <1>18. HeapOK(h4, G, A)
    BY <1>15, <1>16, <1>17, ToMeta
  <1>19. h4 = Mk(b, h2.spans, c, With(h.meta, m), h.list, h3.page_mapping)
    <2>1. IsHeap(h3)
      BY <1>15 DEF HeapOK, HeapTypes
    <2>2. h4 = Mk(h3.brk, h3.spans, h3.rem, With(h3.meta, m), h3.list, h3.page_mapping)
      BY <1>16, <2>1, SetField
    <2> QED
      BY <1>8, <1>11, <1>15, <2>2
  <1>20. g = h4
    <2>1. PICK f : f = SetFour(h, b, c, With(h.meta, m), Longer(h.spans, r))
      OBVIOUS
    <2>2. g = update_mapping(f, m)
      <3>1. m = Len(h.spans) + 1
        BY <1>8, <1>10, <1>11
      <3> QED
        BY <1>2, <1>4, <1>5, <2>1, <3>1 DEF new_chunk, SetFour, With, Longer
    <2>3. f = Mk(b, Longer(h.spans, r), c, With(h.meta, m), h.list, h.page_mapping)
      BY <1>1, <2>1, SetFields
    <2>4. /\ f.brk = b /\ f.spans = Longer(h.spans, r) /\ f.rem = c
          /\ f.meta = With(h.meta, m) /\ f.list = h.list
          /\ f.page_mapping = h.page_mapping /\ IsHeap(f)
      BY <2>3, Fields
    <2>5. Mapped(f, m) = Mapped(h2, m)
      <3>1. f.spans = h2.spans /\ f.page_mapping = h2.page_mapping
        BY <1>8, <1>11, <1>12, <2>4
      <3> QED
        BY <3>1 DEF Mapped, Pages
    <2>6. g = Mk(f.brk, f.spans, f.rem, f.meta, f.list, Mapped(f, m))
      BY <2>2, <2>4, UpdateIs
    <2>7. IsHeap(h2)
      BY <1>11 DEF HeapOK, HeapTypes
    <2>8. h3.page_mapping = Mapped(h2, m)
      BY <1>13, <2>7, UpdateIs
    <2> QED
      BY <1>12, <1>19, <2>4, <2>5, <2>6, <2>8
  <1>21. g.list = h.list /\ g.rem = c /\ g.spans = h2.spans
    BY <1>19, <1>20, Fields
  <1> QED
    BY <1>4, <1>8, <1>11, <1>18, <1>20, <1>21

\* The structures of h that g has unchanged.
Kept(h, g) ==
    /\ Len(h.spans) \in Nat /\ Len(g.spans) \in Nat /\ Len(h.spans) <= Len(g.spans)
    /\ \A s \in 1 .. Len(h.spans) : g.spans[s] = h.spans[s]

\* What two operations keep, the two together keep.
LEMMA KeptTwice ==
    ASSUME NEW f, NEW g, NEW h, Kept(f, g), Kept(g, h)
    PROVE  Kept(f, h)
  BY DEF Kept

\* g is h with a span structure for n pages that nobody has.
Allocated(h, G, A, n, ptr, g) ==
    /\ HeapOK(g, G, A) /\ g.list = h.list /\ Kept(h, g)
    /\ Len(g.spans) \in 1 .. Len(g.spans) /\ Len(g.spans) \notin LiveIn(g, G)
    /\ g.spans[Len(g.spans)].pageSize = n
    /\ ptr # NULL => g.spans[Len(g.spans)].pageId = ptr

\* alloc_span, with a new chunk where the last is used up.
LEMMA Alloc ==
    ASSUME NEW h, NEW G, NEW A, HeapOK(h, G, A), NEW n \in Nat \ {0},
           NEW ptr, ptr \in Nat \/ ptr = NULL, NEW g, g = alloc_span(h, n, ptr)
    PROVE  Allocated(h, G, A, n, ptr, g)
  <1>1. PICK f : f = IF h.rem = 0 THEN new_chunk(h) ELSE h
    OBVIOUS
  <1>2. HeapOK(f, G, A) /\ f.list = h.list /\ Kept(h, f) /\ f.rem \in Nat \ {0} /\ f.rem \in Counts
    <2>1. CASE h.rem = 0
      <3>1. f = new_chunk(h)
        BY <1>1, <2>1
      <3>2. /\ HeapOK(f, G, A) /\ f.list = h.list /\ f.rem = ChunkSpans - 1
            /\ Len(h.spans) \in Nat /\ Len(f.spans) = Len(h.spans) + 1
            /\ \A s \in 1 .. Len(h.spans) : f.spans[s] = h.spans[s]
        BY <3>1, NewChunk
      <3> QED
        BY <3>2 DEF Kept, Counts
    <2>2. CASE h.rem # 0
      <3>1. f = h
        BY <1>1, <2>2
      <3>2. h.rem \in Counts /\ h.spans \in Seq(SpanRec)
        BY DEF HeapOK, HeapTypes
      <3>3. Len(h.spans) \in Nat
        BY <3>2, LenProperties
      <3> QED
        BY <2>2, <3>1, <3>2, <3>3 DEF Kept, Counts
    <2> QED
      BY <2>1, <2>2
  <1>3. PICK r : r = [pageId |-> IF ptr = NULL THEN 0 ELSE ptr, pageSize |-> n]
    OBVIOUS
  <1>4. r \in SpanRec /\ r.pageSize = n /\ (ptr # NULL => r.pageId = ptr)
    BY <1>3 DEF SpanRec
  <1>5. PICK k : k = f.rem - 1
    OBVIOUS
  <1>6. k \in Counts
    BY <1>2, <1>5 DEF Counts
  <1>7. g = SetTwo(f, k, Longer(f.spans, r))
    BY <1>1, <1>3, <1>5 DEF alloc_span, SetTwo, Longer
  <1>8. /\ HeapOK(g, G, A) /\ g.list = f.list
        /\ Len(f.spans) \in Nat /\ Len(g.spans) = Len(f.spans) + 1
        /\ \A s \in 1 .. Len(f.spans) : g.spans[s] = f.spans[s]
        /\ g.spans[Len(g.spans)] = r /\ Len(g.spans) \notin LiveIn(g, G)
    <2>1. Structured(f, G, A, r, k, g)
      BY <1>2, <1>4, <1>6, <1>7, NewStructure
    <2> QED
      BY <2>1 DEF Structured
  <1>9. Kept(f, g) /\ Len(g.spans) \in 1 .. Len(g.spans)
    BY <1>8 DEF Kept
  <1>10. Kept(h, g)
    BY <1>2, <1>9, KeptTwice
  <1> QED
    BY <1>2, <1>4, <1>8, <1>9, <1>10 DEF Allocated

\* A span for the n pages just obtained from sbrk.
LEMMA FromSbrk ==
    ASSUME NEW h, NEW G, NEW A, HeapOK(h, G, A), NEW n \in Nat \ {0},
           NEW f, f = alloc_span(Grown(h, n), n, h.brk),
           NEW s, s = Len(f.spans), NEW g, g = update_mapping(f, s)
    PROVE  /\ HeapOK(g, With(G, s), A) /\ g.list = h.list /\ g.spans = f.spans /\ IsHeap(f)
           /\ Kept(h, g) /\ s \in 1 .. Len(g.spans) /\ s \notin G /\ g.spans[s].pageSize = n
  <1>1. h.brk \in Nat /\ n \in Nat /\ h.brk # NULL
    BY DEF HeapOK, HeapTypes
  <1>2. PICK k : k = Grown(h, n)
    OBVIOUS
  <1>3. PICK I : I = Run(h.brk, n)
    OBVIOUS
  <1>4. /\ HeapOK(k, G, Plus(A, I)) /\ k.spans = h.spans /\ k.list = h.list
        /\ Minus(Plus(A, I), I) = A /\ I \subseteq Plus(A, I)
    <2>1. /\ HeapOK(k, G, Plus(A, Run(h.brk, n))) /\ k.spans = h.spans /\ k.list = h.list
          /\ Minus(Plus(A, Run(h.brk, n)), Run(h.brk, n)) = A
          /\ Run(h.brk, n) \subseteq Plus(A, Run(h.brk, n))
      <3>1. GrownBy(h, G, A, n, k)
        BY <1>1, <1>2, Grow
      <3> QED
        BY <3>1 DEF GrownBy
    <2> QED
      BY <1>3, <2>1
  <1>5. f = alloc_span(k, n, h.brk)
    BY <1>2
  <1>6. /\ HeapOK(f, G, Plus(A, I)) /\ f.list = k.list /\ Kept(k, f)
        /\ Len(f.spans) \in 1 .. Len(f.spans) /\ Len(f.spans) \notin LiveIn(f, G)
        /\ f.spans[Len(f.spans)].pageSize = n
        /\ f.spans[Len(f.spans)].pageId = h.brk
    <2>1. Allocated(k, G, Plus(A, I), n, h.brk, f)
      BY <1>1, <1>4, <1>5, Alloc
    <2> QED
      BY <1>1, <2>1 DEF Allocated
  <1>7. Pages(f, s) = I
    BY <1>3, <1>6, PagesAre
  <1>8. /\ HeapOK(g, With(G, s), Minus(Plus(A, I), Pages(f, s))) /\ g.spans = f.spans
        /\ g.list = f.list
    BY <1>4, <1>6, <1>7, Claim
  <1>9. s \notin G
    BY <1>6 DEF LiveIn
  <1>10. Kept(h, g)
    BY <1>4, <1>6, <1>8 DEF Kept
  <1>11. IsHeap(f)
    BY <1>6 DEF HeapOK, HeapTypes
  <1> QED
    BY <1>4, <1>6, <1>7, <1>8, <1>9, <1>10, <1>11

\* fetch_from_system: the last list has a span of the new pages.
LEMMA FetchFromSystem ==
    ASSUME NEW h, NEW G, NEW A, HeapOK(h, G, A), NEW g, g = fetch_from_system(h)
    PROVE  HeapOK(g, G, A) /\ Kept(h, g) /\ g.list[PAGEHEAPSIZE] # <<>>
  <1>1. SYSPAGES \in Nat \ {0} /\ Bucket(SYSPAGES) = PAGEHEAPSIZE
    BY DEF Bucket
  <1>2. PICK f : f = alloc_span(Grown(h, SYSPAGES), SYSPAGES, h.brk)
    OBVIOUS
  <1>3. PICK s : s = Len(f.spans)
    OBVIOUS
  <1>4. PICK k : k = update_mapping(f, s)
    OBVIOUS
  <1>5. /\ HeapOK(k, With(G, s), A) /\ k.list = h.list /\ k.spans = f.spans /\ IsHeap(f)
        /\ Kept(h, k) /\ s \notin G /\ k.spans[s].pageSize = SYSPAGES
    BY <1>1, <1>2, <1>3, <1>4, FromSbrk
  <1>6. g = update_mapping(spanlist_push(f, s), s)
    BY <1>2, <1>3 DEF fetch_from_system, SetBrk, Grown
  <1>7. g = spanlist_push(k, s)
    BY <1>4, <1>5, <1>6, PushUpdate
  <1>8. s \in With(G, s) /\ Without(With(G, s), s) = G
    BY <1>5 DEF With, Without
  <1>9. /\ HeapOK(g, Without(With(G, s), s), A) /\ g.spans = k.spans
        /\ g.list[Bucket(k.spans[s].pageSize)] # <<>>
    BY <1>5, <1>7, <1>8, Push
  <1>10. Kept(h, g)
    BY <1>5, <1>9 DEF Kept
  <1> QED
    BY <1>1, <1>5, <1>8, <1>9, <1>10

\* What a fetch of n pages must give: a span that nobody had, with the pages, and
\* the spans handed out before as they were.
Fetches(h, G, A, n, r) ==
    /\ HeapOK(r.heap, With(G, r.span), A) /\ r.span \notin G
    /\ n <= PAGEHEAPSIZE => r.heap.spans[r.span].pageSize >= n
    /\ \A s \in G : r.heap.spans[s] = h.spans[s]

\* The sizes on a list are those the list is for.
LEMMA ListSizes ==
    ASSUME NEW n \in Nat \ {0}, NEW m \in Nat \ {0}
    PROVE  /\ n <= PAGEHEAPSIZE /\ Bucket(m) = Bucket(n) => m >= n
           /\ \A i \in n + 1 .. PAGEHEAPSIZE : Bucket(m) = i => m > n
           /\ Bucket(n) \in Buckets /\ n + 1 .. PAGEHEAPSIZE \subseteq Buckets
  BY DEF Bucket, Buckets

\* The head of a list serves the request.
LEMMA ServedByHead ==
    ASSUME NEW h, NEW G, NEW A, HeapOK(h, G, A), NEW n \in Nat \ {0},
           h.list[Bucket(n)] # <<>>
    PROVE  Fetches(h, G, A, n, FromLists(h, n))
  <1>1. PICK b \in Buckets : b = Bucket(n)
    BY ListSizes
  <1>2. PICK s : s = Head(h.list[b])
    OBVIOUS
  <1>3. PICK g : g = PopList(h, b)
    OBVIOUS
  <1>4. /\ HeapOK(g, With(G, s), A) /\ g.spans = h.spans
        /\ s \in 1 .. Len(h.spans) /\ s \notin G /\ Bucket(h.spans[s].pageSize) = b
    <2>1. TakenFrom(h, G, A, b, s, g)
      BY <1>1, <1>2, <1>3, Pop
    <2> QED
      BY <2>1 DEF TakenFrom
  <1>5. h.spans[s].pageSize \in Nat \ {0}
    BY <1>4, SpanFacts DEF HeapOK
  <1>6. n <= PAGEHEAPSIZE => h.spans[s].pageSize >= n
    BY <1>1, <1>4, <1>5, ListSizes
  <1>7. FromLists(h, n) = Fetched(g, s)
    BY <1>1, <1>2, <1>3 DEF FromLists
  <1> QED
    BY <1>4, <1>6, <1>7 DEF Fetches, Fetched

\* A larger span is cut.
LEMMA ServedByLarger ==
    ASSUME NEW h, NEW G, NEW A, HeapOK(h, G, A), NEW n \in Nat \ {0},
           h.list[Bucket(n)] = <<>>, Larger(h, n) # {}
    PROVE  Fetches(h, G, A, n, FromLists(h, n))
  <1>1. PICK f : f = alloc_span(h, n, NULL)
    OBVIOUS
  <1>2. PICK new : new = Len(f.spans)
    OBVIOUS
  <1>3. /\ HeapOK(f, G, A) /\ f.list = h.list /\ Kept(h, f)
        /\ new \in 1 .. Len(f.spans) /\ new \notin LiveIn(f, G)
        /\ f.spans[new].pageSize = n
    <2>1. /\ HeapOK(f, G, A) /\ f.list = h.list /\ Kept(h, f)
          /\ Len(f.spans) \in 1 .. Len(f.spans) /\ Len(f.spans) \notin LiveIn(f, G)
          /\ f.spans[Len(f.spans)].pageSize = n
      <3>1. Allocated(h, G, A, n, NULL, f)
        BY <1>1, Alloc
      <3> QED
        BY <3>1 DEF Allocated
    <2> QED
      BY <1>2, <2>1
  <1>4. Larger(f, n) = Larger(h, n)
    BY <1>3 DEF Larger
  <1>5. PICK i : i = CHOOSE k \in Larger(f, n) : \A j \in Larger(f, n) : k <= j
    OBVIOUS
  <1>6. i \in Larger(f, n)
    <2>1. Larger(f, n) # {} /\ Larger(f, n) \subseteq Nat
      BY <1>4 DEF Larger
    <2>2. PICK k \in Larger(f, n) : \A j \in Larger(f, n) : k <= j
      BY <2>1, LeastNat
    <2> QED
      BY <1>5, <2>2
  <1>7. i \in n + 1 .. PAGEHEAPSIZE /\ i \in Buckets /\ f.list[i] # <<>>
    BY <1>6, ListSizes DEF Larger
  <1>8. PICK s : s = Head(f.list[i])
    OBVIOUS
  <1>9. PICK p : p = PopList(f, i)
    OBVIOUS
  <1>10. /\ HeapOK(p, With(G, s), A) /\ p.spans = f.spans /\ LiveIn(p, With(G, s)) = LiveIn(f, G)
         /\ s \in 1 .. Len(f.spans) /\ s \notin G /\ Bucket(f.spans[s].pageSize) = i
    <2>1. TakenFrom(f, G, A, i, s, p)
      BY <1>3, <1>7, <1>8, <1>9, Pop
    <2> QED
      BY <2>1 DEF TakenFrom
  <1>11. p.spans[s].pageSize > n
    <2>1. f.spans[s].pageSize \in Nat \ {0}
      BY <1>3, <1>10, SpanFacts DEF HeapOK
    <2>2. f.spans[s].pageSize > n
      BY <1>7, <1>10, <2>1, ListSizes
    <2> QED
      BY <1>10, <2>2
  <1>12. PICK g : g = split_spans(p, s, new, n)
    OBVIOUS
  <1>13. /\ HeapOK(g, Without(With(With(G, s), new), s), A)
         /\ Len(g.spans) = Len(p.spans) /\ g.spans[new].pageSize = n
         /\ \A u \in 1 .. Len(p.spans) : u # s /\ u # new => g.spans[u] = p.spans[u]
    <2>1. s \in With(G, s) /\ new \in 1 .. Len(p.spans) /\ new \notin LiveIn(p, With(G, s))
          /\ p.spans[new].pageSize = n
      BY <1>3, <1>10 DEF With
    <2>2. CutFrom(p, With(G, s), A, s, new, n, g)
      BY <1>10, <1>11, <1>12, <2>1, Split
    <2> QED
      BY <2>2 DEF CutFrom
  <1>14. FromLists(h, n) = Fetched(g, new)
    <2>1. FromLists(h, n) = FromLarger(f, n)
      BY <1>1 DEF FromLists
    <2> QED
      BY <1>2, <1>5, <1>8, <1>9, <1>12, <2>1 DEF FromLarger
  <1>15. G \subseteq 1 .. Len(h.spans) /\ G \subseteq 1 .. Len(f.spans)
    BY <1>3 DEF HeapOK, OwnersOK
  <1>16. new \notin G
    BY <1>3, <1>15 DEF LiveIn
  <1>17. s # new /\ Without(With(With(G, s), new), s) = With(G, new)
    <2>1. s \in LiveIn(p, With(G, s))
      BY <1>10 DEF LiveIn, With
    <2>2. s # new
      BY <1>3, <1>10, <2>1
    <2> QED
      BY <1>10, <2>2 DEF With, Without
  <1>18. \A u \in G : g.spans[u] = h.spans[u]
    <2> SUFFICES ASSUME NEW u \in G
                 PROVE  g.spans[u] = h.spans[u]
      OBVIOUS
    <2>1. g.spans[u] = f.spans[u]
      BY <1>10, <1>13, <1>15, <1>16
    <2> QED
      BY <1>3, <1>15, <2>1 DEF Kept
  <1>19. g.spans[new].pageSize >= n
    BY <1>13
  <1> QED
    BY <1>13, <1>14, <1>16, <1>17, <1>18, <1>19 DEF Fetches, Fetched

\* A list serves the request.
LEMMA ServedByLists ==
    ASSUME NEW h, NEW G, NEW A, HeapOK(h, G, A), NEW n \in Nat \ {0},
           h.list[Bucket(n)] # <<>> \/ Larger(h, n) # {}
    PROVE  Fetches(h, G, A, n, FromLists(h, n))
  BY ServedByHead, ServedByLarger

\* fetch_span gives what it must, wherever the pages come from.
LEMMA FetchSpan ==
    ASSUME NEW h, NEW G, NEW A, HeapOK(h, G, A), NEW n \in Nat \ {0}
    PROVE  Fetches(h, G, A, n, fetch_span(h, n))
  <1>1. CASE h.list[Bucket(n)] # <<>> \/ Larger(h, n) # {}
    <2>1. fetch_span(h, n) = FromLists(h, n)
      BY <1>1 DEF fetch_span
    <2> QED
      BY <1>1, <2>1, ServedByLists
  <1>2. CASE ~(h.list[Bucket(n)] # <<>> \/ Larger(h, n) # {})
    <2>1. PICK t : t = alloc_span(h, n, NULL)
      OBVIOUS
    <2>2. HeapOK(t, G, A) /\ Kept(h, t)
      <3>1. Allocated(h, G, A, n, NULL, t)
        BY <2>1, Alloc
      <3> QED
        BY <3>1 DEF Allocated
    <2>3. G \subseteq 1 .. Len(h.spans)
      BY DEF HeapOK, OwnersOK
    <2>4. CASE n > PAGEHEAPSIZE
      <3>1. PICK f : f = alloc_span(Grown(t, n), n, t.brk)
        OBVIOUS
      <3>2. PICK s : s = Len(f.spans)
        OBVIOUS
      <3>3. PICK g : g = update_mapping(f, s)
        OBVIOUS
      <3>4. HeapOK(g, With(G, s), A) /\ Kept(t, g) /\ s \notin G
        BY <2>2, <3>1, <3>2, <3>3, FromSbrk
      <3>5. fetch_span(h, n) = Fetched(g, s)
        <4>1. fetch_span(h, n) = FromBreak(t, n)
          BY <1>2, <2>1, <2>4 DEF fetch_span
        <4> QED
          BY <3>1, <3>2, <3>3, <4>1 DEF FromBreak, SetBrk, Grown
      <3>6. \A u \in G : g.spans[u] = h.spans[u]
        <4>1. Kept(h, g)
          BY <2>2, <3>4, KeptTwice
        <4> QED
          BY <2>3, <4>1 DEF Kept
      <3> QED
        BY <2>4, <3>4, <3>5, <3>6 DEF Fetches, Fetched
    <2>5. CASE ~(n > PAGEHEAPSIZE)
      <3>1. PICK k : k = fetch_from_system(t)
        OBVIOUS
      <3>2. HeapOK(k, G, A) /\ Kept(t, k) /\ k.list[PAGEHEAPSIZE] # <<>>
        BY <2>2, <3>1, FetchFromSystem
      <3>3. k.list[Bucket(n)] # <<>> \/ Larger(k, n) # {}
        BY <2>5, <3>2 DEF Bucket, Larger
      <3>4. Fetches(k, G, A, n, FromLists(k, n))
        BY <3>2, <3>3, ServedByLists
      <3>5. fetch_span(h, n) = FromLists(k, n)
        BY <1>2, <2>1, <2>5, <3>1 DEF fetch_span
      <3>6. \A u \in G : k.spans[u] = h.spans[u]
        <4>1. Kept(h, k)
          BY <2>2, <3>2, KeptTwice
        <4> QED
          BY <2>3, <4>1 DEF Kept
      <3> QED
        BY <3>4, <3>5, <3>6 DEF Fetches
    <2> QED
      BY <2>4, <2>5
  <1> QED
    BY <1>1, <1>2

-----------------------------------------------------------------------------
(* The specification. *)

\* The inductive invariant: the heap is as HeapOK says for the spans handed out and
\* the C library's pages; no span is handed out twice; one for which there is a list
\* has the pages asked for.
HeapInv ==
    /\ HeapOK(heap, Given, alien) /\ heap.brk <= MaxPages
    /\ given \subseteq [span : Nat, nbytes : Requests]
    /\ \A g, k \in given : g.span = k.span => g = k
    /\ \A g \in given : bytes_to_pages(g.nbytes) <= PAGEHEAPSIZE =>
          heap.spans[g.span].pageSize >= bytes_to_pages(g.nbytes)

\* Every block asked for is of at least one page.
LEMMA AtLeastAPage ==
    ASSUME NEW n \in Requests
    PROVE  n \in Nat /\ bytes_to_pages(n) \in Nat \ {0}
  <1>1. n \in Nat /\ n >= PAGEINBYTES
    OBVIOUS
  <1> QED
    BY <1>1 DEF bytes_to_pages

\* The invariant holds of the empty heap.
LEMMA InitHeap == Init => HeapInv
  <1> SUFFICES ASSUME Init
               PROVE  HeapInv
    OBVIOUS
  <1>1. PICK l : l = [i \in Buckets |-> <<>>]
    OBVIOUS
  <1>2. heap = Mk(0, <<>>, 0, {}, l, <<>>)
    BY <1>1 DEF Init, Mk, Buckets
  <1>3. /\ heap.brk = 0 /\ heap.spans = <<>> /\ heap.rem = 0 /\ heap.meta = {}
        /\ heap.list = l /\ heap.page_mapping = <<>> /\ IsHeap(heap)
    BY <1>2, Fields
  <1>4. given = {} /\ alien = {} /\ Given = {}
    BY DEF Init, Given
  <1>5. l \in [Buckets -> Seq(Nat)] /\ \A i \in Buckets : Len(l[i]) = 0
    BY <1>1
  <1>6. \A s : ~OnList(heap, s)
    BY <1>3, <1>5 DEF OnList
  <1>7. Len(heap.spans) = 0 /\ heap.spans \in Seq(SpanRec) /\ DOMAIN heap.page_mapping = {}
    BY <1>3
  <1>8. LiveIn(heap, Given) = {}
    BY <1>7 DEF LiveIn
  <1>9. HeapTypes(heap)
    BY <1>3, <1>5, <1>7 DEF HeapTypes, Counts
  <1>10. ListsOK(heap)
    BY <1>3, <1>5 DEF ListsOK
  <1>11. OwnersOK(heap, Given)
    BY <1>3, <1>4 DEF OwnersOK
  <1>12. CoverOK(heap, Given, alien)
    BY <1>3, <1>4, <1>8 DEF CoverOK, Below, Run
  <1>13. MapOK(heap, Given)
    BY <1>8 DEF MapOK
  <1> QED
    BY <1>3, <1>4, <1>9, <1>10, <1>11, <1>12, <1>13 DEF HeapInv, HeapOK

\* Fetch keeps the invariant: the span it gives was nobody's.
LEMMA FetchKeeps ==
    ASSUME HeapInv, NEW n \in Requests, Fetch(n)
    PROVE  HeapInv'
  <1>1. PICK r : r = fetch_span(heap, bytes_to_pages(n))
    OBVIOUS
  <1>2. n \in Nat /\ bytes_to_pages(n) \in Nat \ {0}
    BY AtLeastAPage
  <1>3. PICK e : e = [span |-> r.span, nbytes |-> n]
    OBVIOUS
  <1>4. /\ heap' = r.heap /\ alien' = alien /\ r.heap.brk <= MaxPages
        /\ given' = given \cup {e}
    BY <1>1, <1>3 DEF Fetch
  <1>5. e.span = r.span /\ e.nbytes = n
    BY <1>3
  <1>6. Fetches(heap, Given, alien, bytes_to_pages(n), r)
    BY <1>1, <1>2, FetchSpan DEF HeapInv
  <1>7. /\ HeapOK(heap', With(Given, r.span), alien') /\ r.span \notin Given
        /\ bytes_to_pages(n) <= PAGEHEAPSIZE =>
              heap'.spans[r.span].pageSize >= bytes_to_pages(n)
        /\ \A s \in Given : heap'.spans[s] = heap.spans[s]
    BY <1>4, <1>6 DEF Fetches
  <1>8. Given' = With(Given, r.span)
    BY <1>4, <1>5 DEF Given, With
  <1>9. r.span \in Nat
    BY <1>7 DEF HeapOK, OwnersOK, With
  <1>10. \A g \in given : g.span \in Given
    BY DEF Given
  <1>11. given' \subseteq [span : Nat, nbytes : Requests]
    BY <1>3, <1>4, <1>9 DEF HeapInv
  <1>12. \A g, k \in given' : g.span = k.span => g = k
    BY <1>4, <1>5, <1>7, <1>10 DEF HeapInv
  <1>13. \A g \in given' : bytes_to_pages(g.nbytes) <= PAGEHEAPSIZE =>
             heap'.spans[g.span].pageSize >= bytes_to_pages(g.nbytes)
    <2> SUFFICES ASSUME NEW g \in given'
                 PROVE  bytes_to_pages(g.nbytes) <= PAGEHEAPSIZE =>
                            heap'.spans[g.span].pageSize >= bytes_to_pages(g.nbytes)
      OBVIOUS
    <2>1. CASE g = e
      BY <1>5, <1>7, <2>1
    <2>2. CASE g \in given
      BY <1>7, <1>10, <2>2 DEF HeapInv
    <2> QED
      BY <1>4, <2>1, <2>2
  <1> QED
    BY <1>4, <1>7, <1>8, <1>11, <1>12, <1>13 DEF HeapInv, bytes_to_pages

\* Return keeps it: the map names the span of the block.
LEMMA ReturnKeeps ==
    ASSUME HeapInv, NEW g \in given, Return(g)
    PROVE  HeapInv'
  <1>1. PICK s : s = g.span
    OBVIOUS
  <1>2. s \in Given /\ HeapOK(heap, Given, alien)
    BY <1>1 DEF HeapInv, Given
  <1>3. heap.page_mapping[heap.spans[s].pageId] = s
    <2>1. HeapTypes(heap) /\ OwnersOK(heap, Given) /\ MapOK(heap, Given)
      BY <1>2 DEF HeapOK
    <2>2. s \in 1 .. Len(heap.spans) /\ s \in LiveIn(heap, Given)
      BY <1>2, <2>1 DEF OwnersOK, LiveIn
    <2>3. heap.spans[s].pageId \in Pages(heap, s)
      BY <2>1, <2>2, SpanFacts
    <2> QED
      BY <2>1, <2>2, <2>3 DEF MapOK
  <1>4. /\ heap' = update_mapping(spanlist_push(heap, s), s)
        /\ given' = given \ {g} /\ alien' = alien
    BY <1>1, <1>3 DEF Return
  <1>5. PICK k : k = update_mapping(heap, s)
    OBVIOUS
  <1>6. heap' = spanlist_push(k, s)
    BY <1>2, <1>4, <1>5, PushUpdate DEF HeapOK, HeapTypes
  <1>7. HeapOK(k, Given, alien) /\ k.brk = heap.brk /\ k.spans = heap.spans
    BY <1>2, <1>5, Remap
  <1>8. PICK f : f = spanlist_push(k, s)
    OBVIOUS
  <1>9. HeapOK(f, Without(Given, s), alien) /\ f.brk = heap.brk /\ f.spans = heap.spans
    <2>1. HeapOK(f, Without(Given, s), alien) /\ f.brk = k.brk /\ f.spans = k.spans
      BY <1>2, <1>7, <1>8, Push
    <2> QED
      BY <1>7, <2>1
  <1>10. HeapOK(heap', Without(Given, s), alien') /\ heap'.brk = heap.brk
         /\ heap'.spans = heap.spans
    BY <1>4, <1>6, <1>8, <1>9
  <1>11. Given' = Without(Given, s)
    BY <1>1, <1>4 DEF Given, Without, HeapInv
  <1> QED
    BY <1>4, <1>10, <1>11 DEF HeapInv, bytes_to_pages

\* AlienSbrk keeps it: the page is the C library's.
LEMMA AlienKeeps ==
    ASSUME HeapInv, AlienSbrk
    PROVE  HeapInv'
  <1>1. HeapOK(heap, Given, alien) /\ heap.brk \in Nat
    BY DEF HeapInv, HeapOK, HeapTypes
  <1>2. PICK f : f = Grown(heap, 1)
    OBVIOUS
  <1>3. heap' = f /\ given' = given
    BY <1>2 DEF AlienSbrk, Grown, SetBrk
  <1>4. alien' = Plus(alien, Run(heap.brk, 1))
    BY <1>1 DEF AlienSbrk, Plus, Run
  <1>5. GrownBy(heap, Given, alien, 1, f)
    BY <1>1, <1>2, Grow
  <1>6. HeapOK(heap', Given, alien') /\ heap'.brk = heap.brk + 1 /\ heap'.spans = heap.spans
    BY <1>3, <1>4, <1>5 DEF GrownBy
  <1>7. Given' = Given
    BY <1>3 DEF Given
  <1>8. heap'.brk <= MaxPages
    BY <1>1, <1>6 DEF AlienSbrk
  <1> QED
    BY <1>3, <1>6, <1>7, <1>8 DEF HeapInv, bytes_to_pages

\* Every step keeps the invariant.
LEMMA NextHeap == HeapInv /\ [Next]_vars => HeapInv'
  <1> SUFFICES ASSUME HeapInv, [Next]_vars
               PROVE  HeapInv'
    OBVIOUS
  <1>1. CASE \E n \in Requests : Fetch(n)
    BY <1>1, FetchKeeps
  <1>2. CASE \E g \in given : Return(g)
    BY <1>2, ReturnKeeps
  <1>3. CASE AlienSbrk
    BY <1>3, AlienKeeps
  <1>4. CASE UNCHANGED vars
    BY <1>4 DEF vars, HeapInv, Given, bytes_to_pages
  <1> QED
    BY <1>1, <1>2, <1>3, <1>4 DEF Next

\* The page heap keeps HeapInv, whatever the sizes of lists, chunks, pages and
\* requests and whatever sequence of fetches, returns and foreign sbrk calls.
THEOREM HeapCorrect == Spec => []HeapInv
  BY InitHeap, NextHeap, PTL DEF Spec

\* What the invariant says of the sets of PageHeap.
LEMMA FreeIs ==
    ASSUME HeapInv
    PROVE  /\ \A s : s \in Free <=> OnList(heap, s)
           /\ Live = LiveIn(heap, Given)
           /\ DOMAIN heap.spans = 1 .. Len(heap.spans)
  <1>1. /\ HeapTypes(heap) /\ OwnersOK(heap, Given)
    BY DEF HeapInv, HeapOK
  <1>2. heap.list \in [Buckets -> Seq(Nat)]
    BY <1>1 DEF HeapTypes
  <1>3. \A i \in Buckets : \A s :
            s \in ToSet(heap.list[i]) <=> \E a \in 1 .. Len(heap.list[i]) : heap.list[i][a] = s
    <2> SUFFICES ASSUME NEW i \in Buckets, NEW s
                 PROVE  s \in ToSet(heap.list[i]) <=>
                            \E a \in 1 .. Len(heap.list[i]) : heap.list[i][a] = s
      OBVIOUS
    <2>1. heap.list[i] \in Seq(Nat)
      BY <1>2
    <2>2. DOMAIN heap.list[i] = 1 .. Len(heap.list[i])
      BY <2>1, LenProperties
    <2> QED
      BY <2>2 DEF ToSet
  <1>4. \A s : s \in Free <=> OnList(heap, s)
    <2>1. \A s : s \in Free <=> \E i \in Buckets : s \in ToSet(heap.list[i])
      BY DEF Free, Buckets
    <2> QED
      BY <1>3, <2>1 DEF OnList
  <1>5. \A s : OnList(heap, s) => s \in 1 .. Len(heap.spans)
    BY <1>1 DEF OnList, HeapTypes
  <1>6. Live = LiveIn(heap, Given)
    <2>1. Given \subseteq 1 .. Len(heap.spans) /\ heap.meta \subseteq 1 .. Len(heap.spans)
      BY <1>1 DEF HeapTypes, OwnersOK
    <2> QED
      BY <1>4, <1>5, <2>1 DEF Live, LiveIn
  <1>7. DOMAIN heap.spans = 1 .. Len(heap.spans)
    BY <1>1, LenProperties DEF HeapTypes
  <1> QED
    BY <1>4, <1>6, <1>7

\* The page heap's globals keep their types.
THEOREM HeapTyped == Spec => []TypeOK
  <1>1. HeapInv => TypeOK
    <2> SUFFICES ASSUME HeapInv
                 PROVE  TypeOK
      OBVIOUS
    <2>1. /\ HeapTypes(heap) /\ OwnersOK(heap, Given) /\ CoverOK(heap, Given, alien)
          /\ DOMAIN heap.spans = 1 .. Len(heap.spans)
      BY FreeIs DEF HeapInv, HeapOK
    <2>2. heap.brk \in 0 .. MaxPages
      BY <2>1 DEF HeapInv, HeapTypes
    <2>3. heap.spans \in Seq([pageId : Nat, pageSize : Nat \ {0}])
      BY <2>1 DEF HeapTypes, SpanRec
    <2>4. heap.rem \in 0 .. ChunkSpans /\ heap.meta \subseteq DOMAIN heap.spans
      BY <2>1 DEF HeapTypes, Counts
    <2>5. heap.list \in [1 .. PAGEHEAPSIZE -> Seq(DOMAIN heap.spans)]
      <3>1. heap.list \in [Buckets -> Seq(Nat)]
        BY <2>1 DEF HeapTypes
      <3>2. ASSUME NEW i \in Buckets
            PROVE  heap.list[i] \in Seq(DOMAIN heap.spans)
        <4>1. \A a \in 1 .. Len(heap.list[i]) : heap.list[i][a] \in DOMAIN heap.spans
          BY <2>1 DEF HeapTypes
        <4>2. heap.list[i] \in Seq(Nat)
          BY <3>1
        <4>3. Len(heap.list[i]) \in Nat /\ heap.list[i] \in [1 .. Len(heap.list[i]) -> Nat]
          BY <4>2, LenProperties
        <4>4. heap.list[i] \in [1 .. Len(heap.list[i]) -> DOMAIN heap.spans]
          BY <4>1, <4>3
        <4> QED
          BY <4>3, <4>4
      <3> QED
        BY <3>1, <3>2 DEF Buckets
    <2>6. /\ DOMAIN heap.page_mapping \subseteq Nat
          /\ \A p \in DOMAIN heap.page_mapping : heap.page_mapping[p] \in DOMAIN heap.spans
      BY <2>1 DEF HeapTypes
    <2>7. given \subseteq [span : DOMAIN heap.spans, nbytes : Requests]
      <3>1. \A g \in given : g.span \in DOMAIN heap.spans
        BY <2>1 DEF Given, OwnersOK
      <3> QED
        BY <3>1 DEF HeapInv
    <2>8. alien \subseteq Nat
      <3>1. heap.brk \in Nat
        BY <2>2
      <3> QED
        BY <2>1, <3>1 DEF CoverOK, Run
    <2> QED
      BY <2>2, <2>3, <2>4, <2>5, <2>6, <2>7, <2>8 DEF TypeOK
  <1> QED
    BY <1>1, HeapCorrect, PTL

\* Every page below the break has one owner, for any sequence of fetches, splits,
\* returns and foreign sbrk calls: no page is lost, none given out twice.
THEOREM OneOwnerPerPage == Spec => []PagesPartitioned
  <1>1. HeapInv => PagesPartitioned
    <2> SUFFICES ASSUME HeapInv
                 PROVE  PagesPartitioned
      OBVIOUS
    <2>1. /\ HeapTypes(heap) /\ OwnersOK(heap, Given) /\ CoverOK(heap, Given, alien)
          /\ MapOK(heap, Given)
      BY DEF HeapInv, HeapOK
    <2>2. (\A s : s \in Free <=> OnList(heap, s)) /\ Live = LiveIn(heap, Given)
      BY FreeIs
    <2>3. \A s, u \in Live : s # u => Pages(heap, s) \cap Pages(heap, u) = {}
      BY <2>1, <2>2 DEF MapOK
    <2>4. UNION {Pages(heap, s) : s \in Live} = (0 .. heap.brk - 1) \ alien
      <3>1. Below(heap.brk, alien) = (0 .. heap.brk - 1) \ alien
        <4>1. heap.brk \in Nat
          BY <2>1 DEF HeapTypes
        <4> QED
          BY <4>1 DEF Below, Run
      <3>2. \A p : p \in UNION {Pages(heap, s) : s \in Live} <=> p \in Below(heap.brk, alien)
        BY <2>1, <2>2 DEF CoverOK
      <3> QED
        BY <3>1, <3>2
    <2>5. Free \cap Given = {} /\ (Free \cup Given) \cap heap.meta = {}
      BY <2>1, <2>2 DEF OwnersOK
    <2>6. \A g, k \in given : g # k => g.span # k.span
      BY DEF HeapInv
    <2> QED
      BY <2>3, <2>4, <2>5, <2>6 DEF PagesPartitioned
  <1> QED
    BY <1>1, HeapCorrect, PTL

\* The page map names the owner of every page of a live span, which tc_free and
\* return_objs_to_centralcache rely on without the lock.
THEOREM MapIsRight == Spec => []MapNamesOwner
  <1>1. HeapInv => MapNamesOwner
    BY FreeIs DEF HeapInv, HeapOK, MapOK, MapNamesOwner
  <1> QED
    BY <1>1, HeapCorrect, PTL

\* A block with a list of its own is short of what was asked for by the rest that
\* bytes_to_pages drops and no more, and spans keep to the list of their size.
THEOREM ShortByNoMore == Spec => []ShortByARest
  <1>1. HeapInv => ShortByARest
    <2> SUFFICES ASSUME HeapInv
                 PROVE  ShortByARest
      OBVIOUS
    <2>1. HeapTypes(heap) /\ ListsOK(heap) /\ OwnersOK(heap, Given)
      BY DEF HeapInv, HeapOK
    <2>2. ASSUME NEW g \in given, bytes_to_pages(g.nbytes) <= PAGEHEAPSIZE
          PROVE  Shortfall(g) <= g.nbytes % PAGEINBYTES
      <3>1. PICK n : n = g.nbytes
        OBVIOUS
      <3>2. PICK p : p = heap.spans[g.span].pageSize
        OBVIOUS
      <3>3. n \in Nat /\ PAGEINBYTES \in Nat \ {0}
        BY <3>1 DEF HeapInv
      <3>4. p \in Nat
        <4>1. g.span \in 1 .. Len(heap.spans)
          BY <2>1 DEF Given, OwnersOK
        <4> QED
          BY <2>1, <3>2, <4>1, SpanFacts
      <3>5. PICK q : q = n \div PAGEINBYTES
        OBVIOUS
      <3>6. PICK r : r = n % PAGEINBYTES
        OBVIOUS
      <3>7. q \in Nat /\ r \in Nat /\ n = q * PAGEINBYTES + r
        <4>1. /\ n \div PAGEINBYTES \in Nat /\ n % PAGEINBYTES \in 0 .. PAGEINBYTES - 1
              /\ n = (n \div PAGEINBYTES) * PAGEINBYTES + (n % PAGEINBYTES)
          BY <3>3, DivMod
        <4> QED
          BY <3>3, <3>5, <3>6, <4>1
      <3>8. q <= p
        BY <2>2, <3>1, <3>2, <3>4, <3>5, <3>7 DEF HeapInv, bytes_to_pages
      <3>9. q * PAGEINBYTES <= p * PAGEINBYTES
        BY <3>3, <3>4, <3>7, <3>8, TimesMono
      <3>10. n - p * PAGEINBYTES <= r
        <4>1. q * PAGEINBYTES \in Nat /\ p * PAGEINBYTES \in Nat
          BY <3>3, <3>4, <3>7
        <4> QED
          BY <3>7, <3>9, <4>1
      <3> QED
        BY <3>1, <3>2, <3>6, <3>10 DEF Shortfall, pages_to_bytes
    <2>3. ASSUME NEW i \in 1 .. PAGEHEAPSIZE, NEW s \in ToSet(heap.list[i])
          PROVE  Bucket(heap.spans[s].pageSize) = i
      <3>1. heap.list[i] \in Seq(Nat)
        BY <2>1 DEF HeapTypes, Buckets
      <3>2. DOMAIN heap.list[i] = 1 .. Len(heap.list[i])
        BY <3>1, LenProperties
      <3>3. PICK a \in 1 .. Len(heap.list[i]) : heap.list[i][a] = s
        BY <3>2 DEF ToSet
      <3> QED
        BY <2>1, <3>3 DEF ListsOK, Buckets
    <2> QED
      BY <2>2, <2>3 DEF ShortByARest
  <1> QED
    BY <1>1, HeapCorrect, PTL
=============================================================================
