------------------------ MODULE InvertedIndexProofs ------------------------
(***************************************************************************)
(* Proofs about InvertedIndex: its type invariant, that searches are exact *)
(* until the table grows, and that answers are never wrong.                *)
(***************************************************************************)
EXTENDS InvertedIndex, NatLemmas, SequenceTheorems, TLAPS

USE IndexAssumption

-----------------------------------------------------------------------------
(* The hash table t of the words hp. *)

Slots(t) == 0 .. t.phys_len - 1

\* A table whose items are among the first n words.
TableTypes(t, n) ==
    /\ t.phys_len \in Nat \ {0} /\ t.last_index \in Nat
    /\ t.dyn_list \in [Slots(t) -> (1 .. n) \cup {NULL}]

HomeOf(t, hp, p) == hp[p].hash % t.phys_len

\* Linear probing: between the home of a word and its slot no slot is free.  A
\* slot below the home, as a word has whose home moved, is never looked at.
Chained(t, hp) ==
    \A k \in Slots(t) : t.dyn_list[k] # NULL =>
        \A j \in Slots(t) : HomeOf(t, hp, t.dyn_list[k]) <= j /\ j <= k => t.dyn_list[j] # NULL

\* p is the last Word_T with its string.
Latest(hp, p) == \A q \in 1 .. Len(hp) : hp[q].str = hp[p].str => q <= p

\* What lookup can find is the latest Word_T of its string.
FindsLatest(t, hp) ==
    \A k \in Slots(t) :
        t.dyn_list[k] # NULL /\ HomeOf(t, hp, t.dyn_list[k]) <= k => Latest(hp, t.dyn_list[k])

TableOK(t, hp) == TableTypes(t, Len(hp)) /\ Chained(t, hp) /\ FindsLatest(t, hp)

-----------------------------------------------------------------------------
(* The lists of a word, against the lines s[d] on which it was seen. *)

\* The numbers of node n are those of all that end with the one at to.
EndsAt(n, all, to) ==
    /\ 1 <= n.last_index /\ n.last_index <= to /\ to <= Len(all)
    /\ \A i \in 1 .. n.last_index : n.list[i - 1] = all[to - n.last_index + i]

\* Newest document first, none beyond d.
Sorted(list, d) ==
    \A k \in 1 .. Len(list) :
        list[k].val <= d /\ (k > 1 => list[k].val < list[k - 1].val)

Sound(list, s, d) ==
    /\ Sorted(list, d)
    /\ \A k \in 1 .. Len(list) : \E to \in 1 .. Len(s[list[k].val]) : EndsAt(list[k], s[list[k].val], to)

UpToDate(list, s) ==
    \A k \in 1 .. Len(list) : EndsAt(list[k], s[list[k].val], Len(s[list[k].val]))

Complete(list, s) ==
    /\ \A k \in 1 .. Len(list) : list[k].last_index = Len(s[list[k].val])
    /\ \A d \in Docs : s[d] # <<>> => \E k \in 1 .. Len(list) : list[k].val = d

Numbers == Nat \cup {NULL}
Lines == UNION {[0 .. m - 1 -> Numbers] : m \in Nat}
Nodes == [val : Docs, list : Lines, list_len : Nat, last_index : Nat]
Entries == [str : Words, hash : Nat, list : Seq(Nodes)]

\* A List_T has list_len numbers, of which last_index are in use.
NodeOK(n) ==
    /\ n \in Nodes /\ n.last_index <= n.list_len
    /\ n.list \in [0 .. n.list_len - 1 -> Numbers]

PostingsOK(hp, s, d) ==
    \A p \in 1 .. Len(hp) :
        /\ \A k \in 1 .. Len(hp[p].list) : NodeOK(hp[p].list[k])
        /\ Sound(hp[p].list, s[hp[p].str], d)
        /\ Latest(hp, p) => UpToDate(hp[p].list, s[hp[p].str])

\* One Word_T per word seen, in a slot where lookup finds it, with all its lines.
AllExact(t, hp, s) ==
    /\ \A p, q \in 1 .. Len(hp) : hp[p].str = hp[q].str => p = q
    /\ \A p \in 1 .. Len(hp) : \E k \in Slots(t) : t.dyn_list[k] = p /\ HomeOf(t, hp, p) <= k
    /\ \A p \in 1 .. Len(hp) : Complete(hp[p].list, s[hp[p].str])
    /\ \A w \in Words : (\A p \in 1 .. Len(hp) : hp[p].str # w) => \A d \in Docs : s[w][d] = <<>>

Small(t) == t.phys_len = TableSize /\ t.last_index <= TableSize

IndexInv ==
    /\ TypeOK /\ heap \in Seq(Entries) /\ TableSize <= Dynlist.phys_len
    /\ \A w \in Words, d \in Docs : docId < d => seen[w][d] = <<>>
    /\ TableOK(Dynlist, heap)
    /\ PostingsOK(heap, seen, docId)
    /\ Small(Dynlist) => AllExact(Dynlist, heap, seen)

-----------------------------------------------------------------------------
(* The loops of insert and lookup. *)

\* insert stops at a free slot or at the end, and all before it are taken.
LEMMA FreeSlotIs ==
    ASSUME NEW t, t.phys_len \in Nat, NEW index \in 0 .. t.phys_len,
           NEW m, m = FreeSlot(t, index)
    PROVE  /\ m \in index .. t.phys_len
           /\ m < t.phys_len => t.dyn_list[m] = NULL
           /\ \A k \in index .. m - 1 : t.dyn_list[k] # NULL
  <1> DEFINE S == {k \in index .. t.phys_len : k = t.phys_len \/ t.dyn_list[k] = NULL}
  <1>1. S \in SUBSET Nat /\ t.phys_len \in S
    OBVIOUS
  <1>2. m = Min(S)
    BY DEF FreeSlot
  <1>3. \A k \in index .. t.phys_len : t.dyn_list[k] = NULL => k \in S
    OBVIOUS
  <1>4. \A k \in S : k \in index .. t.phys_len /\ (k = t.phys_len \/ t.dyn_list[k] = NULL)
    OBVIOUS
  <1> HIDE DEF S
  <1>5. m \in S /\ \A x \in S : m <= x
    BY <1>1, <1>2, MinIn
  <1>6. m \in index .. t.phys_len /\ (m < t.phys_len => t.dyn_list[m] = NULL)
    BY <1>4, <1>5
  <1>7. ASSUME NEW k \in index .. m - 1, t.dyn_list[k] = NULL
        PROVE  FALSE
    BY <1>3, <1>5, <1>6, <1>7
  <1> QED
    BY <1>6, <1>7

\* The rest of a division by the length of a table is a slot.
LEMMA HomeIsSlot ==
    ASSUME NEW t, t.phys_len \in Nat \ {0}, NEW h \in Nat
    PROVE  h % t.phys_len \in Slots(t) /\ h % t.phys_len \in 0 .. t.phys_len
  <1>1. PICK p \in Nat \ {0} : p = t.phys_len
    OBVIOUS
  <1>2. h % p \in 0 .. p - 1
    BY DivMod
  <1>3. h % p \in 0 .. p
    BY <1>2
  <1> QED
    BY <1>1, <1>2, <1>3 DEF Slots

-----------------------------------------------------------------------------
(* A new word in the table: t is t0, perhaps of twice the length, with item n of
   hash h in one or more slots that were free, each reached from its home. *)

WithNew(t0, t, n, h) ==
    /\ t.phys_len \in {t0.phys_len, 2 * t0.phys_len} /\ t.last_index \in Nat
    /\ t.dyn_list \in [Slots(t) -> (1 .. n) \cup {NULL}]
    /\ \A k \in Slots(t) :
           \/ k \in Slots(t0) /\ t.dyn_list[k] = t0.dyn_list[k]
           \/ k \notin Slots(t0) /\ t.dyn_list[k] = NULL
           \/ t.dyn_list[k] = n /\ (k \in Slots(t0) => t0.dyn_list[k] = NULL)
    /\ \A k \in Slots(t) : t.dyn_list[k] = n =>
           \A j \in Slots(t) : h % t.phys_len <= j /\ j <= k => t.dyn_list[j] # NULL

\* Putting n into the first free slot from its home, or from before it, keeps this.
LEMMA OneMore ==
    ASSUME NEW t0, t0.phys_len \in Nat \ {0}, NEW t, NEW n \in Nat \ {0}, NEW h \in Nat,
           WithNew(t0, t, n, h), NEW u, u.phys_len = t.phys_len, u.last_index \in Nat,
           NEW index \in Nat, index <= h % t.phys_len,
           NEW m, m = FreeSlot(t, index), m < t.phys_len,
           u.dyn_list = [t.dyn_list EXCEPT ![m] = n]
    PROVE  WithNew(t0, u, n, h)
  <1>1. t.phys_len \in Nat \ {0}
    BY DEF WithNew
  <1>2. index \in 0 .. t.phys_len /\ h % t.phys_len \in 0 .. t.phys_len
    <2>1. h % t.phys_len \in 0 .. t.phys_len
      BY <1>1, HomeIsSlot
    <2> QED
      BY <1>1, <2>1
  <1>3. /\ m \in index .. t.phys_len /\ t.dyn_list[m] = NULL
        /\ \A k \in index .. m - 1 : t.dyn_list[k] # NULL
    BY <1>1, <1>2, FreeSlotIs
  <1>4. m \in Slots(t) /\ Slots(u) = Slots(t)
    BY <1>1, <1>2, <1>3 DEF Slots
  <1>5. /\ u.dyn_list \in [Slots(t) -> (1 .. n) \cup {NULL}] /\ u.dyn_list[m] = n
        /\ \A k \in Slots(t) : k # m => u.dyn_list[k] = t.dyn_list[k]
    BY <1>4 DEF WithNew
  <1>6. n # NULL
    OBVIOUS
  <1>7. ASSUME NEW k \in Slots(t)
        PROVE  \/ k \in Slots(t0) /\ u.dyn_list[k] = t0.dyn_list[k]
               \/ k \notin Slots(t0) /\ u.dyn_list[k] = NULL
               \/ u.dyn_list[k] = n /\ (k \in Slots(t0) => t0.dyn_list[k] = NULL)
    BY <1>3, <1>5, <1>6 DEF WithNew
  <1>8. ASSUME NEW k \in Slots(t), u.dyn_list[k] = n,
               NEW j \in Slots(t), h % t.phys_len <= j, j <= k
        PROVE  u.dyn_list[j] # NULL
    <2>1. CASE j = m
      BY <1>5, <1>6, <2>1
    <2>2. CASE j # m /\ k = m
      <3>1. j \in index .. m - 1
        BY <1>1, <1>2, <1>3, <1>8, <2>2 DEF Slots
      <3> QED
        BY <1>3, <1>5, <2>2, <3>1
    <2>3. CASE j # m /\ k # m
      BY <1>5, <1>8, <2>3 DEF WithNew
    <2> QED
      BY <2>1, <2>2, <2>3
  <1> QED
    BY <1>1, <1>4, <1>5, <1>7, <1>8 DEF WithNew

\* The table before a new word is stored, resized or not.
LEMMA Untouched ==
    ASSUME NEW t0, NEW n \in Nat \ {0}, TableTypes(t0, n - 1), NEW h \in Nat,
           NEW t, t = IF Full(t0) THEN resize(t0) ELSE t0
    PROVE  /\ WithNew(t0, t, n, h) /\ t.last_index = t0.last_index
           /\ t.phys_len = IF Full(t0) THEN 2 * t0.phys_len ELSE t0.phys_len
           /\ \A k \in Slots(t) : t.dyn_list[k] # n
  <1>1. /\ t0.phys_len \in Nat \ {0} /\ t0.last_index \in Nat
        /\ t0.dyn_list \in [Slots(t0) -> (1 .. n - 1) \cup {NULL}]
    BY DEF TableTypes
  <1>2. n # NULL /\ \A k \in Slots(t0) : t0.dyn_list[k] # n
    BY <1>1
  <1>3. CASE ~Full(t0)
    <2>1. t0.dyn_list \in [Slots(t0) -> (1 .. n) \cup {NULL}]
      BY <1>1
    <2> QED
      BY <1>1, <1>2, <1>3, <2>1 DEF WithNew
  <1>4. CASE Full(t0)
    <2>1. /\ t.phys_len = 2 * t0.phys_len /\ t.last_index = t0.last_index
          /\ t.dyn_list = [k \in 0 .. 2 * t0.phys_len - 1 |->
                              IF k < t0.phys_len THEN t0.dyn_list[k] ELSE NULL]
      BY <1>4 DEF resize
    <2>2. Slots(t) = 0 .. 2 * t0.phys_len - 1
      BY <2>1 DEF Slots
    <2>3. ASSUME NEW k \in Slots(t)
          PROVE  /\ k \in Slots(t0) => t.dyn_list[k] = t0.dyn_list[k]
                 /\ k \notin Slots(t0) => t.dyn_list[k] = NULL
                 /\ t.dyn_list[k] \in (1 .. n) \cup {NULL} /\ t.dyn_list[k] # n
      <3>1. k \in Nat /\ t.dyn_list[k] = IF k < t0.phys_len THEN t0.dyn_list[k] ELSE NULL
        BY <1>1, <2>1, <2>2
      <3>2. k < t0.phys_len <=> k \in Slots(t0)
        BY <1>1, <3>1 DEF Slots
      <3>3. CASE k \in Slots(t0)
        <4>1. t0.dyn_list[k] \in (1 .. n - 1) \cup {NULL}
          BY <1>1, <3>3
        <4> QED
          BY <1>2, <3>1, <3>2, <3>3, <4>1
      <3>4. CASE k \notin Slots(t0)
        BY <1>2, <3>1, <3>2, <3>4
      <3> QED
        BY <3>3, <3>4
    <2>4. t.dyn_list \in [Slots(t) -> (1 .. n) \cup {NULL}]
      BY <2>1, <2>2, <2>3
    <2> QED
      BY <1>1, <1>2, <1>4, <2>1, <2>3, <2>4 DEF WithNew
  <1> QED
    BY <1>3, <1>4

\* insert(dynlist, word, 0, hash, DYNLIST) in parse.  While the table is not resized
\* and no slot past its end is used, the word is where lookup finds it.
Inserts(t0, n, h, l) ==
    /\ WithNew(t0, l, n, h) /\ t0.last_index <= l.last_index
    /\ l.phys_len = IF Full(t0) THEN 2 * t0.phys_len ELSE t0.phys_len
    /\ ~Full(t0) /\ l.last_index <= l.phys_len =>
          \E k \in Slots(l) : l.dyn_list[k] = n /\ h % l.phys_len <= k

\* insert is that.
LEMMA Inserted ==
    ASSUME NEW t0, NEW n \in Nat \ {0}, TableTypes(t0, n - 1), NEW h \in Nat,
           NEW l, l = insert(t0, n, h % t0.phys_len)
    PROVE  Inserts(t0, n, h, l)
  <1>1. t0.phys_len \in Nat \ {0} /\ t0.last_index \in Nat
    BY DEF TableTypes
  <1>2. PICK t : t = IF Full(t0) THEN resize(t0) ELSE t0
    OBVIOUS
  <1>3. /\ WithNew(t0, t, n, h) /\ t.last_index = t0.last_index
        /\ t.phys_len = IF Full(t0) THEN 2 * t0.phys_len ELSE t0.phys_len
        /\ \A k \in Slots(t) : t.dyn_list[k] # n
    BY <1>2, Untouched
  <1>4. t.phys_len \in Nat \ {0}
    BY <1>1, <1>3
  <1>5. PICK index \in Nat : index = h % t0.phys_len /\ index \in 0 .. t.phys_len /\ index <= h % t.phys_len
                             /\ (~Full(t0) => index = h % t.phys_len)
    <2>1. PICK d \in Nat \ {0} : d = t0.phys_len
      BY <1>1
    <2>2. h % d \in 0 .. d - 1
      BY DivMod
    <2>3. CASE ~Full(t0)
      BY <1>3, <2>1, <2>2, <2>3
    <2>4. CASE Full(t0)
      <3>1. h % (2 * d) = h % d \/ h % (2 * d) = (h % d) + d
        BY RestOfDouble
      <3> QED
        BY <1>3, <2>1, <2>2, <2>4, <3>1
    <2> QED
      BY <2>3, <2>4
  <1>6. PICK m : m = FreeSlot(t, index)
    OBVIOUS
  <1>7. m \in index .. t.phys_len
    BY <1>4, <1>5, <1>6, FreeSlotIs
  <1>8. /\ l.phys_len = t.phys_len
        /\ l.last_index = IF m > t.last_index THEN m + 1 ELSE t.last_index
        /\ l.dyn_list = IF m < t.phys_len THEN [t.dyn_list EXCEPT ![m] = n] ELSE t.dyn_list
    BY <1>2, <1>5, <1>6 DEF insert, Place
  <1>9. l.last_index \in Nat /\ t0.last_index <= l.last_index
    BY <1>1, <1>3, <1>4, <1>5, <1>7, <1>8
  <1>10. CASE m < t.phys_len
    <2>1. WithNew(t0, l, n, h)
      BY <1>1, <1>3, <1>5, <1>6, <1>8, <1>9, <1>10, OneMore
    <2>2. m \in Slots(t) /\ Slots(l) = Slots(t)
      BY <1>4, <1>5, <1>7, <1>8, <1>10 DEF Slots
    <2>3. l.dyn_list[m] = n
      BY <1>3, <1>8, <1>10, <2>2 DEF WithNew
    <2>4. ~Full(t0) => h % l.phys_len <= m
      BY <1>4, <1>5, <1>7, <1>8
    <2> QED
      BY <1>3, <1>8, <1>9, <2>1, <2>2, <2>3, <2>4 DEF Inserts
  <1>11. CASE ~(m < t.phys_len)
    <2>1. m = t.phys_len
      BY <1>4, <1>5, <1>7, <1>11
    <2>2. WithNew(t0, l, n, h)
      <3>1. Slots(l) = Slots(t) /\ l.dyn_list = t.dyn_list
        BY <1>8, <1>11 DEF Slots
      <3> QED
        BY <1>3, <1>8, <1>9, <3>1 DEF WithNew
    <2>3. ~Full(t0) => l.last_index > l.phys_len
      BY <1>1, <1>3, <1>4, <1>8, <2>1 DEF Full
    <2>4. ~(~Full(t0) /\ l.last_index <= l.phys_len)
      BY <1>4, <1>8, <1>9, <2>3
    <2> QED
      BY <1>3, <1>8, <1>9, <2>2, <2>4 DEF Inserts
  <1> QED
    BY <1>10, <1>11

-----------------------------------------------------------------------------
(* The loop of disperse_keys. *)

\* A round on an index of the upper half, which holds nothing but the new word.
LEMMA DisperseRound ==
    ASSUME NEW t0, t0.phys_len \in Nat \ {0}, NEW n \in Nat \ {0}, NEW h \in Nat,
           NEW l, l.phys_len = 2 * t0.phys_len, l.last_index \in Nat,
           NEW m, WithNew(t0, m, n, h), m.phys_len = l.phys_len,
           NEW index \in t0.phys_len .. l.phys_len - 1, NEW words, words[n].hash = h,
           NEW u, u = disperse_key(l, m, index, words)
    PROVE  WithNew(t0, u, n, h) /\ u.phys_len = l.phys_len
  <1>1. index \in Slots(m) /\ index \notin Slots(t0) /\ l.phys_len \in Nat \ {0}
    BY DEF Slots
  <1>2. m.dyn_list[index] \in {NULL, n}
    BY <1>1 DEF WithNew
  <1>3. PICK d : d = l.phys_len
    OBVIOUS
  <1>4. PICK w : w = m.dyn_list[index]
    OBVIOUS
  <1>5. PICK slot : slot = FreeSlot(m, words[w].hash % d)
    OBVIOUS
  <1>6. u = IF w # NULL /\ words[w].hash >= d \div 2 /\ slot < d
            THEN [last_index |-> IF slot > l.last_index THEN slot + 1 ELSE l.last_index,
                  phys_len |-> d, dyn_list |-> [m.dyn_list EXCEPT ![slot] = w]]
            ELSE m
    BY <1>3, <1>4, <1>5 DEF disperse_key
  <1>7. CASE ~(w # NULL /\ words[w].hash >= d \div 2 /\ slot < d)
    BY <1>6, <1>7
  <1>8. CASE w # NULL /\ words[w].hash >= d \div 2 /\ slot < d
    <2>1. w = n /\ slot = FreeSlot(m, h % m.phys_len) /\ slot < m.phys_len
      BY <1>2, <1>3, <1>4, <1>5, <1>8
    <2>2. /\ u.phys_len = m.phys_len /\ u.dyn_list = [m.dyn_list EXCEPT ![slot] = n]
          /\ u.last_index = IF slot > l.last_index THEN slot + 1 ELSE l.last_index
      BY <1>3, <1>6, <1>8, <2>1
    <2>3. h % m.phys_len \in 0 .. m.phys_len
      BY <1>1, HomeIsSlot
    <2>4. slot \in h % m.phys_len .. m.phys_len
      BY <1>1, <2>1, <2>3, FreeSlotIs
    <2>5. h % m.phys_len \in Nat /\ h % m.phys_len <= h % m.phys_len /\ slot \in Nat
      BY <1>1, <2>3, <2>4
    <2>6. u.last_index \in Nat
      BY <2>2, <2>5
    <2>7. WithNew(t0, u, n, h)
      BY <2>1, <2>2, <2>5, <2>6, OneMore
    <2> QED
      BY <2>2, <2>7
  <1> QED
    BY <1>7, <1>8

\* f are the tables of the rounds a to b.
Rounds(l, words, a, b, f) ==
    f = [k \in a .. b |-> IF k = a THEN l ELSE disperse_key(l, f[k - 1], k - 1, words)]

\* There are such tables, by induction over the number of rounds.
LEMMA RoundsExist ==
    ASSUME NEW l, NEW words, NEW a \in Nat, NEW b \in Nat, a <= b
    PROVE  \E f : Rounds(l, words, a, b, f)
  <1> DEFINE S == {c \in Nat : \E f : Rounds(l, words, a, a + c, f)}
  <1>1. 0 \in S
    <2> DEFINE f == [k \in a .. a + 0 |-> l]
    <2>1. f = [k \in a .. a + 0 |-> IF k = a THEN l ELSE disperse_key(l, f[k - 1], k - 1, words)]
      OBVIOUS
    <2> HIDE DEF f
    <2>2. Rounds(l, words, a, a + 0, f)
      BY <2>1 DEF Rounds
    <2> QED
      BY <2>2
  <1>2. ASSUME NEW c \in Nat, c \in S
        PROVE  c + 1 \in S
    <2>1. PICK f : Rounds(l, words, a, a + c, f)
      BY <1>2
    <2> DEFINE g == [k \in a .. a + (c + 1) |->
                        IF k <= a + c THEN f[k] ELSE disperse_key(l, f[k - 1], k - 1, words)]
    <2>2. ASSUME NEW k \in a .. a + (c + 1)
          PROVE  g[k] = IF k = a THEN l ELSE disperse_key(l, g[k - 1], k - 1, words)
      <3>1. CASE k = a
        BY <2>1, <3>1 DEF Rounds
      <3>2. CASE k # a
        <4>1. k - 1 \in a .. a + c /\ k - 1 \in a .. a + (c + 1) /\ k - 1 <= a + c
          BY <3>2
        <4>2. g[k - 1] = f[k - 1]
          BY <4>1
        <4>3. k <= a + c => f[k] = disperse_key(l, f[k - 1], k - 1, words)
          BY <2>1, <3>2 DEF Rounds
        <4>4. g[k] = disperse_key(l, f[k - 1], k - 1, words)
          BY <4>3
        <4> QED
          BY <3>2, <4>2, <4>4
      <3> QED
        BY <3>1, <3>2
    <2>3. g = [k \in a .. a + (c + 1) |->
                  IF k = a THEN l ELSE disperse_key(l, g[k - 1], k - 1, words)]
      BY <2>2
    <2> HIDE DEF g
    <2>4. Rounds(l, words, a, a + (c + 1), g)
      BY <2>3 DEF Rounds
    <2> QED
      BY <2>4
  <1> HIDE DEF S
  <1>3. Nat \subseteq S
    BY <1>1, <1>2, NatSetInduction
  <1>4. b - a \in Nat /\ a + (b - a) = b
    OBVIOUS
  <1>5. b - a \in S
    BY <1>3, <1>4
  <1> QED
    BY <1>4, <1>5 DEF S

\* disperse_keys is the last of them.
LEMMA DisperseIs ==
    ASSUME NEW l, NEW words, l.phys_len \in Nat
    PROVE  \E f : /\ Rounds(l, words, l.phys_len \div 2, l.phys_len, f)
                  /\ disperse_keys(l, words) = f[l.phys_len]
  <1> DEFINE a == l.phys_len \div 2
             b == l.phys_len
  <1> DEFINE f == CHOOSE g : g = [k \in a .. b |->
                      IF k = a THEN l ELSE disperse_key(l, g[k - 1], k - 1, words)]
  <1>1. a \in Nat /\ a <= b
    OBVIOUS
  <1>2. \E g : Rounds(l, words, a, b, g)
    BY <1>1, RoundsExist
  <1>3. f = [k \in a .. b |-> IF k = a THEN l ELSE disperse_key(l, f[k - 1], k - 1, words)]
    BY <1>2 DEF Rounds
  <1>4. disperse_keys(l, words) = f[b]
    BY DEF disperse_keys
  <1> HIDE DEF f
  <1>5. Rounds(l, words, a, b, f)
    BY <1>3 DEF Rounds
  <1> QED
    BY <1>4, <1>5

\* disperse_keys only puts the new word into more slots.
LEMMA Dispersed ==
    ASSUME NEW t0, t0.phys_len \in Nat \ {0}, NEW n \in Nat \ {0}, NEW h \in Nat,
           NEW l, l.phys_len = 2 * t0.phys_len, WithNew(t0, l, n, h),
           NEW words, words[n].hash = h, NEW t, t = disperse_keys(l, words)
    PROVE  WithNew(t0, t, n, h) /\ t.phys_len = l.phys_len
  <1> DEFINE a == t0.phys_len
             b == l.phys_len
             Good(u) == WithNew(t0, u, n, h) /\ u.phys_len = b
  <1>1. a \in Nat /\ b \in Nat /\ b \div 2 = a /\ a <= b /\ l.last_index \in Nat
    BY DEF WithNew
  <1>2. PICK f : Rounds(l, words, a, b, f) /\ t = f[b]
    BY <1>1, DisperseIs
  <1>3. f[a] = l /\ \A k \in a + 1 .. b : f[k] = disperse_key(l, f[k - 1], k - 1, words)
    <2>1. PICK x \in Nat, y \in Nat : x = a /\ y = b /\ x <= y
      BY <1>1
    <2>2. \A k \in x .. y : f[k] = IF k = x THEN l ELSE disperse_key(l, f[k - 1], k - 1, words)
      BY <1>2, <2>1 DEF Rounds
    <2>3. x \in x .. y /\ \A k \in x + 1 .. y : k \in x .. y /\ k # x
      BY <2>1
    <2> QED
      BY <2>1, <2>2, <2>3
  <1> DEFINE S == {c \in Nat : a + c <= b => Good(f[a + c])}
  <1>4. 0 \in S
    BY <1>1, <1>3
  <1>5. ASSUME NEW c \in Nat, c \in S
        PROVE  c + 1 \in S
    <2> SUFFICES ASSUME a + (c + 1) <= b
                 PROVE  Good(f[a + (c + 1)])
      OBVIOUS
    <2>1. a + c <= b /\ a + c \in a .. b - 1 /\ a + (c + 1) \in a + 1 .. b
          /\ a + (c + 1) - 1 = a + c
      BY <1>1
    <2>2. Good(f[a + c])
      BY <1>5, <2>1
    <2>3. f[a + (c + 1)] = disperse_key(l, f[a + c], a + c, words)
      BY <1>3, <2>1
    <2>4. PICK u : u = f[a + (c + 1)]
      OBVIOUS
    <2>5. PICK m : m = f[a + c]
      OBVIOUS
    <2>6. PICK index \in a .. b - 1 : index = a + c
      BY <2>1
    <2>7. u = disperse_key(l, m, index, words) /\ WithNew(t0, m, n, h) /\ m.phys_len = l.phys_len
      BY <2>2, <2>3, <2>4, <2>5, <2>6
    <2>8. WithNew(t0, u, n, h) /\ u.phys_len = l.phys_len
      BY <1>1, <2>7, DisperseRound
    <2> QED
      BY <2>4, <2>8
  <1> HIDE DEF S
  <1>6. Nat \subseteq S
    BY <1>4, <1>5, NatSetInduction
  <1>7. b - a \in Nat /\ a + (b - a) = b /\ a + (b - a) <= b
    BY <1>1
  <1>8. Good(f[b])
    BY <1>6, <1>7 DEF S
  <1> QED
    BY <1>2, <1>8

-----------------------------------------------------------------------------
(* The words of the table after a new one. *)

\* hp2 is hp with one more Word_T, of string w and hash h.
Extends(hp, hp2, w, h) ==
    /\ Len(hp) \in Nat /\ Len(hp2) = Len(hp) + 1
    /\ \A p \in 1 .. Len(hp) : hp2[p].str = hp[p].str /\ hp2[p].hash = hp[p].hash
    /\ hp2[Len(hp) + 1].str = w /\ hp2[Len(hp) + 1].hash = h

\* lookup(w) has nothing to find: what has this string is below its home.
Missing(t, hp, w, h) ==
    \A k \in Slots(t) : t.dyn_list[k] # NULL /\ hp[t.dyn_list[k]].str = w => k < h % t.phys_len

\* A table with the new word is as TableOK says.
LEMMA NewWordTable ==
    ASSUME NEW t0, NEW hp, TableOK(t0, hp), NEW hp2, NEW w, NEW h \in Nat,
           Extends(hp, hp2, w, h), Missing(t0, hp, w, h),
           \A p \in 1 .. Len(hp) : hp[p].hash \in Nat /\ (hp[p].str = w => hp[p].hash = h),
           NEW n, n = Len(hp) + 1, NEW t, WithNew(t0, t, n, h)
    PROVE  TableOK(t, hp2)
  <1>1. /\ t0.phys_len \in Nat \ {0} /\ n \in Nat \ {0} /\ Len(hp2) = n /\ n - 1 = Len(hp)
        /\ t0.dyn_list \in [Slots(t0) -> (1 .. Len(hp)) \cup {NULL}]
    BY DEF TableOK, TableTypes, Extends
  <1>2. /\ t.phys_len \in {t0.phys_len, 2 * t0.phys_len} /\ t.phys_len \in Nat \ {0}
        /\ t.last_index \in Nat /\ t.dyn_list \in [Slots(t) -> (1 .. n) \cup {NULL}]
    BY <1>1 DEF WithNew
  <1>3. TableTypes(t, Len(hp2))
    BY <1>1, <1>2 DEF TableTypes
  <1>4. \A x \in Nat : \/ x % t.phys_len = x % t0.phys_len
                       \/ x % t.phys_len = (x % t0.phys_len) + t0.phys_len
    <2> SUFFICES ASSUME NEW x \in Nat
                 PROVE  \/ x % t.phys_len = x % t0.phys_len
                        \/ x % t.phys_len = (x % t0.phys_len) + t0.phys_len
      OBVIOUS
    <2>1. PICK d \in Nat \ {0} : d = t0.phys_len
      BY <1>1
    <2>2. x % (2 * d) = x % d \/ x % (2 * d) = (x % d) + d
      BY RestOfDouble
    <2> QED
      BY <1>2, <2>1, <2>2
  <1>5. \A x \in Nat : x % t0.phys_len \in 0 .. t0.phys_len
    BY <1>1, HomeIsSlot
  \* A slot of another word is an old one, and its home is the old one or above it.
  <1>6. ASSUME NEW k \in Slots(t), t.dyn_list[k] # NULL, t.dyn_list[k] # n
        PROVE  /\ k \in Slots(t0) /\ t.dyn_list[k] = t0.dyn_list[k]
               /\ t.dyn_list[k] \in 1 .. Len(hp)
               /\ \/ HomeOf(t, hp2, t.dyn_list[k]) = HomeOf(t0, hp, t0.dyn_list[k])
                  \/ HomeOf(t, hp2, t.dyn_list[k]) > k
               /\ HomeOf(t, hp2, t.dyn_list[k]) <= k => HomeOf(t0, hp, t0.dyn_list[k]) <= k
    <2>1. k \in Slots(t0) /\ t.dyn_list[k] = t0.dyn_list[k]
      BY <1>6 DEF WithNew
    <2>2. PICK p \in 1 .. Len(hp) : p = t.dyn_list[k] /\ p = t0.dyn_list[k]
      BY <1>1, <1>6, <2>1
    <2>3. PICK x \in Nat : x = hp[p].hash /\ x = hp2[p].hash
      BY <2>2 DEF Extends
    <2>4. /\ HomeOf(t, hp2, t.dyn_list[k]) = x % t.phys_len
          /\ HomeOf(t0, hp, t0.dyn_list[k]) = x % t0.phys_len
      BY <2>2, <2>3 DEF HomeOf
    <2>5. k \in Nat /\ k < t0.phys_len
      BY <1>1, <2>1 DEF Slots
    <2>6. \/ x % t.phys_len = x % t0.phys_len
          \/ x % t.phys_len = (x % t0.phys_len) + t0.phys_len
      BY <1>4
    <2>7. x % t0.phys_len \in 0 .. t0.phys_len
      BY <1>5
    <2> QED
      BY <1>1, <2>1, <2>2, <2>4, <2>5, <2>6, <2>7
  <1>7. Chained(t, hp2)
    <2> SUFFICES ASSUME NEW k \in Slots(t), t.dyn_list[k] # NULL, NEW j \in Slots(t),
                        HomeOf(t, hp2, t.dyn_list[k]) <= j, j <= k
                 PROVE  t.dyn_list[j] # NULL
      BY DEF Chained
    <2>1. CASE t.dyn_list[k] = n
      <3>1. HomeOf(t, hp2, n) = h % t.phys_len
        BY <1>1 DEF HomeOf, Extends
      <3> QED
        BY <2>1, <3>1 DEF WithNew
    <2>2. CASE t.dyn_list[k] # n
      <3>1. PICK v : v = HomeOf(t, hp2, t.dyn_list[k])
        OBVIOUS
      <3>2. v \in Nat
        <4>1. t.dyn_list[k] \in 1 .. Len(hp)
          BY <1>6, <2>2
        <4>2. PICK x \in Nat : x = hp2[t.dyn_list[k]].hash
          BY <4>1 DEF Extends
        <4>3. x % t.phys_len \in 0 .. t.phys_len
          BY <1>2, HomeIsSlot
        <4> QED
          BY <1>2, <3>1, <4>2, <4>3 DEF HomeOf
      <3>3. k \in Slots(t0) /\ t.dyn_list[k] = t0.dyn_list[k] /\ (v = HomeOf(t0, hp, t0.dyn_list[k]) \/ v > k)
        BY <1>6, <2>2, <3>1
      <3>4. k \in Nat /\ j \in Nat /\ v <= j /\ j <= k
        BY <1>2, <3>1 DEF Slots
      <3>5. v = HomeOf(t0, hp, t0.dyn_list[k]) /\ j \in Slots(t0)
        BY <1>1, <3>2, <3>3, <3>4 DEF Slots
      <3>6. t0.dyn_list[j] # NULL
        BY <3>3, <3>4, <3>5 DEF TableOK, Chained
      <3> QED
        BY <1>1, <3>5, <3>6 DEF WithNew
    <2> QED
      BY <2>1, <2>2
  <1>8. FindsLatest(t, hp2)
    <2> SUFFICES ASSUME NEW k \in Slots(t), t.dyn_list[k] # NULL,
                        HomeOf(t, hp2, t.dyn_list[k]) <= k,
                        NEW q \in 1 .. Len(hp2), hp2[q].str = hp2[t.dyn_list[k]].str
                 PROVE  q <= t.dyn_list[k]
      BY DEF FindsLatest, Latest
    <2>1. CASE t.dyn_list[k] = n
      BY <1>1, <2>1
    <2>2. CASE t.dyn_list[k] # n
      <3>1. PICK p \in 1 .. Len(hp) : p = t.dyn_list[k] /\ p = t0.dyn_list[k]
        BY <1>6, <2>2
      <3>2. k \in Slots(t0) /\ HomeOf(t0, hp, p) <= k
        BY <1>6, <2>2, <3>1
      <3>3. Latest(hp, p) /\ p # NULL
        BY <3>1, <3>2 DEF TableOK, FindsLatest
      <3>4. CASE q # n
        <4>1. q \in 1 .. Len(hp) /\ hp[q].str = hp[p].str
          BY <1>1, <3>1, <3>4 DEF Extends
        <4> QED
          BY <3>1, <3>3, <4>1 DEF Latest
      <3>5. CASE q = n
        <4>1. hp[p].str = w /\ hp[p].hash = h
          BY <1>1, <3>1, <3>5 DEF Extends
        <4>2. k < h % t0.phys_len
          BY <3>1, <3>2, <3>3, <4>1 DEF Missing
        <4>3. h % t0.phys_len <= k
          BY <3>2, <4>1 DEF HomeOf
        <4>4. h % t0.phys_len \in Nat /\ k \in Nat
          BY <1>1, <1>5, <3>2 DEF Slots
        <4> QED
          BY <4>2, <4>3, <4>4
      <3> QED
        BY <3>4, <3>5
    <2> QED
      BY <2>1, <2>2
  <1> QED
    BY <1>3, <1>7, <1>8 DEF TableOK

-----------------------------------------------------------------------------
(* The lists of a word. *)

\* m is n with one more number.
LineAdded(n, line, m) ==
    /\ NodeOK(m) /\ m.val = n.val /\ m.last_index = n.last_index + 1
    /\ m.list[n.last_index] = line
    /\ \A i \in 0 .. n.last_index - 1 : m.list[i] = n.list[i]

\* A record with these fields is a node.
LEMMA MakeNode ==
    ASSUME NEW v \in Docs, NEW len \in Nat, NEW f \in [0 .. len - 1 -> Numbers], NEW last \in Nat,
           last <= len, NEW n, n = [val |-> v, list |-> f, list_len |-> len, last_index |-> last]
    PROVE  NodeOK(n)
  <1>1. f \in Lines
    BY DEF Lines
  <1> QED
    BY <1>1 DEF NodeOK, Nodes

\* insert(node, NULL, line, node->last_index, LINKLIST), resized or not.
LEMMA InsertLine ==
    ASSUME NEW n, NodeOK(n), NEW line \in Nat, NEW m, m = insert_link_val(n, line, LIST_SIZE)
    PROVE  LineAdded(n, line, m)
  <1>1. /\ n.val \in Docs /\ n.list_len \in Nat /\ n.last_index \in Nat
        /\ n.last_index <= n.list_len /\ n.list \in [0 .. n.list_len - 1 -> Numbers]
    BY DEF NodeOK, Nodes
  <1>2. PICK k : k = IF n.last_index >= n.list_len THEN resize_link(n, LIST_SIZE) ELSE n
    OBVIOUS
  <1>3. /\ k.val = n.val /\ k.list_len \in Nat /\ k.last_index = n.last_index
        /\ n.last_index < k.list_len /\ k.list \in [0 .. k.list_len - 1 -> Numbers]
        /\ \A i \in 0 .. n.last_index - 1 : k.list[i] = n.list[i]
    <2>1. CASE n.last_index >= n.list_len
      <3> DEFINE b == n.list_len + LIST_SIZE
                 f == [i \in 0 .. n.list_len + LIST_SIZE - 1 |->
                         IF i < n.list_len THEN n.list[i] ELSE NULL]
      <3>1. /\ k.val = n.val /\ k.list_len = b /\ k.last_index = n.last_index /\ k.list = f
        <4>1. k = resize_link(n, LIST_SIZE)
          BY <1>2, <2>1
        <4>2. resize_link(n, LIST_SIZE) = [val |-> n.val, list |-> f, list_len |-> b, last_index |-> n.last_index]
          BY DEF resize_link
        <4> HIDE DEF b, f
        <4> QED
          BY <4>1, <4>2
      <3>2. b \in Nat /\ n.last_index < b /\ n.list_len + LIST_SIZE - 1 = b - 1
        BY <1>1
      <3>3. \A i \in 0 .. b - 1 : (IF i < n.list_len THEN n.list[i] ELSE NULL) \in Numbers
        <4>1. NULL \in Numbers
          BY DEF Numbers
        <4>2. \A i \in 0 .. n.list_len - 1 : n.list[i] \in Numbers
          BY <1>1
        <4>3. \A i \in 0 .. b - 1 : i < n.list_len => i \in 0 .. n.list_len - 1
          BY <1>1
        <4> QED
          BY <4>1, <4>2, <4>3
      <3>4. \A i \in 0 .. n.last_index - 1 : i \in 0 .. b - 1 /\ i < n.list_len
        BY <1>1
      <3> HIDE DEF b
      <3>5. f \in [0 .. b - 1 -> Numbers]
        BY <3>2, <3>3
      <3>6. \A i \in 0 .. n.last_index - 1 : f[i] = n.list[i]
        BY <3>2, <3>4
      <3> HIDE DEF f
      <3> QED
        BY <3>1, <3>2, <3>5, <3>6
    <2>2. CASE ~(n.last_index >= n.list_len)
      BY <1>1, <1>2, <2>2
    <2> QED
      BY <2>1, <2>2
  <1>4. m = [val |-> k.val, list |-> [k.list EXCEPT ![k.last_index] = line],
             list_len |-> k.list_len, last_index |-> k.last_index + 1]
    BY <1>2 DEF insert_link_val
  <1>5. PICK f : f = [k.list EXCEPT ![k.last_index] = line]
    OBVIOUS
  <1>6. k.last_index \in 0 .. k.list_len - 1 /\ line \in Numbers
    BY <1>1, <1>3 DEF Numbers
  <1>7. /\ f \in [0 .. k.list_len - 1 -> Numbers] /\ f[k.last_index] = line
        /\ \A i \in 0 .. k.list_len - 1 : i # k.last_index => f[i] = k.list[i]
    BY <1>3, <1>5, <1>6
  <1>8. k.last_index + 1 \in Nat /\ k.last_index + 1 <= k.list_len
    BY <1>1, <1>3
  <1>9. m = [val |-> k.val, list |-> f, list_len |-> k.list_len, last_index |-> k.last_index + 1]
    BY <1>4, <1>5
  <1>10. NodeOK(m)
    <2>1. PICK v, len, last : v = k.val /\ len = k.list_len /\ last = k.last_index + 1
      OBVIOUS
    <2>2. /\ v \in Docs /\ len \in Nat /\ last \in Nat /\ last <= len
          /\ f \in [0 .. len - 1 -> Numbers]
      BY <1>1, <1>3, <1>7, <1>8, <2>1
    <2>3. m = [val |-> v, list |-> f, list_len |-> len, last_index |-> last]
      BY <1>9, <2>1
    <2> QED
      BY <2>2, <2>3, MakeNode
  <1>11. m.val = n.val /\ m.last_index = n.last_index + 1 /\ m.list = f
    BY <1>3, <1>9
  <1>12. ASSUME NEW i \in 0 .. n.last_index - 1
         PROVE  m.list[i] = n.list[i]
    <2>1. i \in 0 .. k.list_len - 1 /\ i # k.last_index
      BY <1>1, <1>3
    <2> QED
      BY <1>3, <1>7, <1>11, <2>1
  <1> QED
    BY <1>3, <1>7, <1>10, <1>11, <1>12 DEF LineAdded

\* s2 is s with line at the end of document d.
Later(s, s2, d, line) ==
    /\ s \in [Docs -> Seq(Nat)] /\ s2 \in [Docs -> Seq(Nat)]
    /\ Len(s[d]) \in Nat /\ Len(s2[d]) = Len(s[d]) + 1 /\ s2[d][Len(s[d]) + 1] = line
    /\ \A i \in 1 .. Len(s[d]) : s2[d][i] = s[d][i]
    /\ \A e \in Docs : e # d => s2[e] = s[e]

\* Appending does that.
LEMMA AppendLine ==
    ASSUME NEW s \in [Docs -> Seq(Nat)], NEW d \in Docs, NEW line \in Nat,
           NEW s2, s2 = [s EXCEPT ![d] = Append(s[d], line)]
    PROVE  Later(s, s2, d, line)
  <1>1. PICK q \in Seq(Nat) : q = s[d]
    OBVIOUS
  <1>2. PICK q2 : q2 = Append(q, line)
    OBVIOUS
  <1>3. /\ q2 \in Seq(Nat) /\ Len(q) \in Nat /\ Len(q2) = Len(q) + 1 /\ q2[Len(q) + 1] = line
        /\ \A i \in 1 .. Len(q) : q2[i] = q[i]
    BY <1>2, AppendProperties, LenProperties
  <1>4. /\ s2 \in [Docs -> Seq(Nat)] /\ s2[d] = q2
        /\ \A e \in Docs : e # d => s2[e] = s[e]
    BY <1>1, <1>2, <1>3
  <1> QED
    BY <1>1, <1>3, <1>4 DEF Later

\* What ends somewhere still does.
LEMMA EndKept ==
    ASSUME NEW s, NEW s2, NEW d \in Docs, NEW line, Later(s, s2, d, line), NEW e \in Docs,
           NEW n, n.last_index \in Nat, NEW to \in Nat, EndsAt(n, s[e], to)
    PROVE  EndsAt(n, s2[e], to)
  <1>1. CASE e # d
    <2>1. s2[e] = s[e]
      BY <1>1 DEF Later
    <2> QED
      BY <2>1
  <1>2. CASE e = d
    <2>1. /\ 1 <= n.last_index /\ n.last_index <= to /\ to <= Len(s[d]) /\ Len(s[d]) \in Nat
          /\ to <= Len(s2[d])
      BY <1>2 DEF EndsAt, Later
    <2>2. ASSUME NEW i \in 1 .. n.last_index
          PROVE  n.list[i - 1] = s2[d][to - n.last_index + i]
      <3>1. to - n.last_index + i \in 1 .. Len(s[d])
        BY <2>1
      <3>2. n.list[i - 1] = s[d][to - n.last_index + i]
        BY <1>2 DEF EndsAt
      <3> QED
        BY <3>1, <3>2 DEF Later
    <2> QED
      BY <1>2, <2>1, <2>2 DEF EndsAt
  <1> QED
    BY <1>1, <1>2

\* Places counted from the end, after one more.
Distance(c, x, i) == (c + 1) - (x + 1) + i = c - x + i /\ c - x + i \in 1 .. c

\* They are the same places.
LEMMA SameDistance ==
    ASSUME NEW c \in Nat, NEW x \in Nat, x <= c, NEW i \in 1 .. x
    PROVE  Distance(c, x, i)
  BY DEF Distance

\* A node that was up to date and gets the line is up to date.
LEMMA EndMoves ==
    ASSUME NEW s, NEW s2, NEW d \in Docs, NEW line, Later(s, s2, d, line),
           NEW n, n.last_index \in Nat, n.last_index = 0 \/ EndsAt(n, s[d], Len(s[d])),
           NEW m, LineAdded(n, line, m)
    PROVE  EndsAt(m, s2[d], Len(s2[d]))
  <1>1. /\ m.last_index = n.last_index + 1 /\ m.list[n.last_index] = line
        /\ \A i \in 0 .. n.last_index - 1 : m.list[i] = n.list[i]
    BY DEF LineAdded
  <1>2. PICK c \in Nat : c = Len(s[d]) /\ Len(s2[d]) = c + 1 /\ s2[d][c + 1] = line
                         /\ \A i \in 1 .. c : s2[d][i] = s[d][i]
    BY DEF Later
  <1>3. n.last_index <= c
    BY <1>2 DEF EndsAt
  <1>4. ASSUME NEW i \in 1 .. m.last_index
        PROVE  m.list[i - 1] = s2[d][(c + 1) - m.last_index + i]
    <2>1. CASE i = m.last_index
      <3>1. i - 1 = n.last_index /\ (c + 1) - m.last_index + i = c + 1
        BY <1>1, <2>1
      <3> QED
        BY <1>1, <1>2, <3>1
    <2>2. CASE i # m.last_index
      <3>1. /\ i \in 1 .. n.last_index /\ i - 1 \in 0 .. n.last_index - 1
            /\ (c + 1) - m.last_index + i = c - n.last_index + i
            /\ c - n.last_index + i \in 1 .. c
        <4>1. PICK x \in Nat : x = n.last_index /\ m.last_index = x + 1 /\ x <= c
          BY <1>1, <1>3
        <4>2. i \in 1 .. x /\ i - 1 \in 0 .. x - 1
          <5>1. i \in 1 .. x + 1 /\ i # x + 1
            BY <2>2, <4>1
          <5> QED
            BY <5>1
        <4>3. PICK j \in 1 .. x : j = i
          BY <4>2
        <4>4. Distance(c, x, j)
          BY <4>1, SameDistance
        <4>5. (c + 1) - (x + 1) + i = c - x + i /\ c - x + i \in 1 .. c
          BY <4>3, <4>4 DEF Distance
        <4> QED
          BY <4>1, <4>2, <4>5
      <3>2. n.list[i - 1] = s[d][c - n.last_index + i]
        BY <1>2, <3>1 DEF EndsAt
      <3> QED
        BY <1>1, <1>2, <3>1, <3>2
    <2> QED
      BY <2>1, <2>2
  <1> QED
    BY <1>1, <1>2, <1>3, <1>4 DEF EndsAt

\* lookup_link finds the node of a document if there is one.
LEMMA LookupLink ==
    ASSUME NEW list \in Seq(Nodes), NEW d, NEW k, k = lookup_link(list, d)
    PROVE  \/ k \in 1 .. Len(list) /\ list[k].val = d
           \/ k = 0 /\ \A i \in 1 .. Len(list) : list[i].val # d
  <1> DEFINE at == {i \in 1 .. Len(list) : list[i].val = d}
  <1>1. k = IF at = {} THEN 0 ELSE Min(at)
    BY DEF lookup_link
  <1>2. at \in SUBSET Nat
    BY LenProperties
  <1>3. \A i \in at : i \in 1 .. Len(list) /\ list[i].val = d
    OBVIOUS
  <1>4. \A i \in 1 .. Len(list) : list[i].val = d => i \in at
    OBVIOUS
  <1> HIDE DEF at
  <1>5. CASE at = {}
    BY <1>1, <1>4, <1>5
  <1>6. CASE at # {}
    <2>1. Min(at) \in at
      BY <1>2, <1>6, MinIn
    <2> QED
      BY <1>1, <1>3, <1>6, <2>1
  <1> QED
    BY <1>5, <1>6

\* What is wanted of the list of a Word_T that is the latest of its string.
ListOK(list, s, d) ==
    /\ list \in Seq(Nodes) /\ \A k \in 1 .. Len(list) : NodeOK(list[k])
    /\ Sorted(list, d) /\ UpToDate(list, s)

\* Being up to date is enough to be sound.
LEMMA UpToDateIsSound ==
    ASSUME NEW list, NEW s \in [Docs -> Seq(Nat)], NEW d, ListOK(list, s, d)
    PROVE  Sound(list, s, d)
  <1> SUFFICES ASSUME NEW k \in 1 .. Len(list)
               PROVE  \E to \in 1 .. Len(s[list[k].val]) : EndsAt(list[k], s[list[k].val], to)
    BY DEF Sound, ListOK
  <1>1. NodeOK(list[k]) /\ EndsAt(list[k], s[list[k].val], Len(s[list[k].val]))
    BY DEF ListOK, UpToDate
  <1>2. list[k].val \in Docs /\ list[k].last_index \in Nat
    BY <1>1 DEF NodeOK, Nodes
  <1>3. Len(s[list[k].val]) \in Nat
    BY <1>2, LenProperties
  <1>4. Len(s[list[k].val]) \in 1 .. Len(s[list[k].val])
    BY <1>1, <1>2, <1>3 DEF EndsAt
  <1> QED
    BY <1>1, <1>4

\* A list that is not touched stays sound when its word is seen again.
LEMMA SoundKept ==
    ASSUME NEW list, \A k \in 1 .. Len(list) : NodeOK(list[k]), NEW s, NEW s2, NEW d \in Docs,
           NEW line, Later(s, s2, d, line), Sound(list, s, d)
    PROVE  Sound(list, s2, d)
  <1> SUFFICES ASSUME NEW k \in 1 .. Len(list)
               PROVE  \E to \in 1 .. Len(s2[list[k].val]) : EndsAt(list[k], s2[list[k].val], to)
    BY DEF Sound
  <1>1. PICK e \in Docs : e = list[k].val
    BY DEF NodeOK, Nodes
  <1>2. PICK to \in 1 .. Len(s[e]) : EndsAt(list[k], s[e], to)
    BY <1>1 DEF Sound
  <1>3. list[k].last_index \in Nat
    BY DEF NodeOK, Nodes
  <1>4. Len(s[e]) \in Nat /\ Len(s2[e]) \in Nat
    <2>1. s[e] \in Seq(Nat) /\ s2[e] \in Seq(Nat)
      BY DEF Later
    <2> QED
      BY <2>1, LenProperties
  <1>5. EndsAt(list[k], s2[e], to)
    BY <1>2, <1>3, <1>4, EndKept
  <1>6. to \in 1 .. Len(s2[e])
    BY <1>2, <1>4, <1>5 DEF EndsAt
  <1> QED
    BY <1>1, <1>5, <1>6

\* What AddPosting has to do.
Posted(list, s, list2, s2, d) ==
    ListOK(list2, s2, d) /\ (Complete(list, s) => Complete(list2, s2))

\* The line goes to the node of the document.
LEMMA PostToNode ==
    ASSUME NEW list, NEW s, NEW s2, NEW d \in Docs, NEW line, ListOK(list, s, d),
           Later(s, s2, d, line), NEW k \in 1 .. Len(list), list[k].val = d,
           NEW m, LineAdded(list[k], line, m), NEW list2, list2 = [list EXCEPT ![k] = m]
    PROVE  Posted(list, s, list2, s2, d)
  <1>1. /\ list \in Seq(Nodes) /\ \A i \in 1 .. Len(list) : NodeOK(list[i])
        /\ Sorted(list, d) /\ UpToDate(list, s) /\ Len(list) \in Nat
    BY LenProperties DEF ListOK
  <1>2. NodeOK(m) /\ m \in Nodes /\ m.val = d /\ m.last_index = list[k].last_index + 1
    BY DEF LineAdded, NodeOK
  <1>3. /\ list2 \in Seq(Nodes) /\ Len(list2) = Len(list)
        /\ \A i \in 1 .. Len(list) : list2[i] = IF i = k THEN m ELSE list[i]
    BY <1>1, <1>2, ExceptSeq
  <1>4. \A i \in 1 .. Len(list) : list2[i].val = list[i].val /\ NodeOK(list2[i])
    BY <1>1, <1>2, <1>3
  <1>5. Sorted(list2, d)
    <2> SUFFICES ASSUME NEW i \in 1 .. Len(list2)
                 PROVE  list2[i].val <= d /\ (i > 1 => list2[i].val < list2[i - 1].val)
      BY DEF Sorted
    <2>1. list[i].val <= d /\ (i > 1 => list[i].val < list[i - 1].val)
      BY <1>1, <1>3 DEF Sorted
    <2>2. i > 1 => i - 1 \in 1 .. Len(list)
      BY <1>1, <1>3
    <2> QED
      BY <1>3, <1>4, <2>1, <2>2
  \* No other node is of this document.
  <1>6. ASSUME NEW i \in 1 .. Len(list), i # k
        PROVE  list[i].val # d
    <2>1. \A j \in 1 .. Len(list) : list[j].val \in Nat /\ list[j].val <= d
      <3> SUFFICES ASSUME NEW j \in 1 .. Len(list)
                   PROVE  list[j].val \in Nat /\ list[j].val <= d
        OBVIOUS
      <3>1. list[j].val \in Docs
        BY <1>1 DEF NodeOK, Nodes
      <3>2. list[j].val <= d
        BY <1>1 DEF Sorted
      <3> QED
        BY <3>1, <3>2 DEF Docs
    <2>2. k = 1
      <3> SUFFICES ASSUME k # 1 PROVE FALSE
        OBVIOUS
      <3>1. k > 1 /\ k - 1 \in 1 .. Len(list)
        BY <1>1
      <3>2. list[k].val < list[k - 1].val /\ list[k - 1].val <= d
        BY <1>1, <3>1 DEF Sorted
      <3> QED
        BY <2>1, <3>1, <3>2 DEF Docs
    <2>3. i > 1 /\ i - 1 \in 1 .. Len(list)
      BY <1>1, <1>6, <2>2
    <2>4. list[i].val < list[i - 1].val
      BY <1>1, <2>3 DEF Sorted
    <2>5. list[i - 1].val \in Nat /\ list[i - 1].val <= d /\ list[i].val \in Nat
      BY <2>1, <2>3
    <2> QED
      BY <2>4, <2>5 DEF Docs
  <1>7. UpToDate(list2, s2)
    <2> SUFFICES ASSUME NEW i \in 1 .. Len(list)
                 PROVE  EndsAt(list2[i], s2[list2[i].val], Len(s2[list2[i].val]))
      BY <1>3 DEF UpToDate
    <2>1. CASE i = k
      <3>1. EndsAt(list[k], s[d], Len(s[d])) /\ list[k].last_index \in Nat
        BY <1>1 DEF UpToDate, NodeOK, Nodes
      <3>2. EndsAt(m, s2[d], Len(s2[d]))
        BY <3>1, EndMoves
      <3> QED
        BY <1>2, <1>3, <2>1, <3>2
    <2>2. CASE i # k
      <3>1. list[i].val # d /\ list[i].val \in Docs
        BY <1>1, <1>6, <2>2 DEF NodeOK, Nodes
      <3>2. s2[list[i].val] = s[list[i].val]
        BY <3>1 DEF Later
      <3> QED
        BY <1>1, <1>3, <2>2, <3>2 DEF UpToDate
    <2> QED
      BY <2>1, <2>2
  <1>8. ASSUME Complete(list, s)
        PROVE  Complete(list2, s2)
    <2>1. ASSUME NEW i \in 1 .. Len(list2)
          PROVE  list2[i].last_index = Len(s2[list2[i].val])
      <3>1. CASE i = k
        <4>1. list[k].last_index = Len(s[d])
          BY <1>8 DEF Complete
        <4>2. Len(s2[d]) = Len(s[d]) + 1
          BY DEF Later
        <4> QED
          BY <1>2, <1>3, <3>1, <4>1, <4>2
      <3>2. CASE i # k
        <4>1. list[i].val # d /\ list[i].val \in Docs
          BY <1>1, <1>3, <1>6, <3>2 DEF NodeOK, Nodes
        <4>2. s2[list[i].val] = s[list[i].val]
          BY <4>1 DEF Later
        <4> QED
          BY <1>3, <1>8, <3>2, <4>2 DEF Complete
      <3> QED
        BY <3>1, <3>2
    <2>2. ASSUME NEW e \in Docs, s2[e] # <<>>
          PROVE  \E i \in 1 .. Len(list2) : list2[i].val = e
      <3>1. CASE e = d
        BY <1>3, <1>4, <3>1
      <3>2. CASE e # d
        <4>1. s[e] # <<>>
          BY <2>2, <3>2 DEF Later
        <4>2. PICK i \in 1 .. Len(list) : list[i].val = e
          BY <1>8, <4>1 DEF Complete
        <4> QED
          BY <1>3, <1>4, <4>2
      <3> QED
        BY <3>1, <3>2
    <2> QED
      BY <2>1, <2>2 DEF Complete
  <1> QED
    BY <1>3, <1>4, <1>5, <1>7, <1>8 DEF Posted, ListOK

\* The document has no node yet: one with this line goes to the head.
LEMMA PostNewNode ==
    ASSUME NEW list, NEW s, NEW s2, NEW d \in Docs, NEW line, ListOK(list, s, d),
           Later(s, s2, d, line), \A i \in 1 .. Len(list) : list[i].val # d,
           NEW m, NodeOK(m), m.val = d, m.last_index = 1, EndsAt(m, s2[d], Len(s2[d])),
           NEW list2, list2 = <<m>> \o list
    PROVE  Posted(list, s, list2, s2, d)
  <1>1. /\ list \in Seq(Nodes) /\ \A i \in 1 .. Len(list) : NodeOK(list[i])
        /\ Sorted(list, d) /\ UpToDate(list, s) /\ Len(list) \in Nat
    BY LenProperties DEF ListOK
  <1>2. m \in Nodes /\ <<m>> \in Seq(Nodes) /\ Len(<<m>>) = 1 /\ <<m>>[1] = m
    BY DEF NodeOK
  <1>3. /\ list2 \in Seq(Nodes) /\ Len(list2) = Len(list) + 1 /\ list2[1] = m
        /\ \A i \in 2 .. Len(list) + 1 : list2[i] = list[i - 1]
    BY <1>1, <1>2, ConcatProperties
  <1>4. ASSUME NEW i \in 1 .. Len(list)
        PROVE  list[i].val \in Docs /\ list[i].val \in Nat /\ list[i].val < d
    <2>1. NodeOK(list[i]) /\ list[i].val <= d /\ list[i].val # d
      BY <1>1 DEF Sorted
    <2>2. list[i].val \in Docs
      BY <2>1 DEF NodeOK, Nodes
    <2> QED
      BY <2>1, <2>2 DEF Docs
  <1>5. ASSUME NEW i \in 1 .. Len(list2), i # 1
        PROVE  i \in 2 .. Len(list) + 1 /\ i - 1 \in 1 .. Len(list) /\ list2[i] = list[i - 1]
    BY <1>1, <1>3, <1>5
  <1>6. \A i \in 1 .. Len(list2) : NodeOK(list2[i])
    BY <1>1, <1>3, <1>5
  <1>7. Sorted(list2, d)
    <2> SUFFICES ASSUME NEW i \in 1 .. Len(list2)
                 PROVE  list2[i].val <= d /\ (i > 1 => list2[i].val < list2[i - 1].val)
      BY DEF Sorted
    <2>1. d \in Nat
      BY DEF Docs
    <2>2. CASE i = 1
      BY <1>3, <2>1, <2>2
    <2>3. CASE i = 2
      <3>1. list2[2] = list[1] /\ 1 \in 1 .. Len(list)
        BY <1>5, <2>3
      <3>2. list[1].val \in Nat /\ list[1].val < d
        BY <1>4, <3>1
      <3> QED
        BY <1>3, <2>1, <2>3, <3>1, <3>2
    <2>4. CASE i # 1 /\ i # 2
      <3>1. /\ i - 1 \in 1 .. Len(list) /\ list2[i] = list[i - 1] /\ i - 1 > 1
            /\ i - 1 \in 1 .. Len(list2) /\ i - 1 # 1
        BY <1>1, <1>3, <1>5, <2>4
      <3>2. list2[i - 1] = list[i - 1 - 1]
        BY <1>5, <3>1
      <3>3. list[i - 1].val < list[i - 1 - 1].val /\ list[i - 1].val <= d
        BY <1>1, <3>1 DEF Sorted
      <3> QED
        BY <3>1, <3>2, <3>3
    <2> QED
      BY <2>2, <2>3, <2>4
  <1>8. \A i \in 1 .. Len(list) : s2[list[i].val] = s[list[i].val]
    BY <1>4 DEF Later
  <1>9. UpToDate(list2, s2)
    <2> SUFFICES ASSUME NEW i \in 1 .. Len(list2)
                 PROVE  EndsAt(list2[i], s2[list2[i].val], Len(s2[list2[i].val]))
      BY DEF UpToDate
    <2>1. CASE i = 1
      BY <1>3, <2>1
    <2>2. CASE i # 1
      <3>1. i - 1 \in 1 .. Len(list) /\ list2[i] = list[i - 1]
        BY <1>5, <2>2
      <3> QED
        BY <1>1, <1>8, <3>1 DEF UpToDate
    <2> QED
      BY <2>1, <2>2
  <1>10. ASSUME Complete(list, s)
         PROVE  Complete(list2, s2)
    <2>1. Len(s2[d]) = 1
      <3>1. s[d] = <<>>
        BY <1>10 DEF Complete
      <3>2. Len(s[d]) = 0 /\ Len(s2[d]) = Len(s[d]) + 1
        BY <3>1 DEF Later
      <3> QED
        BY <3>2
    <2>2. ASSUME NEW i \in 1 .. Len(list2)
          PROVE  list2[i].last_index = Len(s2[list2[i].val])
      <3>1. CASE i = 1
        BY <1>3, <2>1, <3>1
      <3>2. CASE i # 1
        <4>1. i - 1 \in 1 .. Len(list) /\ list2[i] = list[i - 1]
          BY <1>5, <3>2
        <4> QED
          BY <1>8, <1>10, <4>1 DEF Complete
      <3> QED
        BY <3>1, <3>2
    <2>3. ASSUME NEW e \in Docs, s2[e] # <<>>
          PROVE  \E i \in 1 .. Len(list2) : list2[i].val = e
      <3>1. CASE e = d
        <4>1. 1 \in 1 .. Len(list2)
          BY <1>1, <1>3
        <4> QED
          BY <1>3, <3>1, <4>1
      <3>2. CASE e # d
        <4>1. s[e] # <<>>
          BY <2>3, <3>2 DEF Later
        <4>2. PICK i \in 1 .. Len(list) : list[i].val = e
          BY <1>10, <4>1 DEF Complete
        <4>3. i + 1 \in 2 .. Len(list) + 1 /\ i + 1 \in 1 .. Len(list2) /\ (i + 1) - 1 = i
          BY <1>1, <1>3
        <4>4. list2[i + 1] = list[i]
          BY <1>3, <4>3
        <4> QED
          BY <4>2, <4>3, <4>4
      <3> QED
        BY <3>1, <3>2
    <2> QED
      BY <2>2, <2>3 DEF Complete
  <1> QED
    BY <1>3, <1>6, <1>7, <1>9, <1>10 DEF Posted, ListOK

\* create_link and its first line.
LEMMA FirstLine ==
    ASSUME docId \in Docs, line_num \in Nat, NEW s, NEW s2, Later(s, s2, docId, line_num)
    PROVE  /\ NodeOK(NewNode) /\ NewNode.val = docId /\ NewNode.last_index = 1
           /\ EndsAt(NewNode, s2[docId], Len(s2[docId]))
  <1>1. PICK n : n = create_link(docId, LIST_SIZE)
    OBVIOUS
  <1>2. PICK f : f = [k \in 0 .. LIST_SIZE - 1 |-> NULL]
    OBVIOUS
  <1>3. f \in [0 .. LIST_SIZE - 1 -> Numbers]
    BY <1>2 DEF Numbers
  <1>4. n = [val |-> docId, list |-> f, list_len |-> LIST_SIZE, last_index |-> 0]
    BY <1>1, <1>2 DEF create_link
  <1>5. 0 \in Nat /\ 0 <= LIST_SIZE /\ LIST_SIZE \in Nat
    OBVIOUS
  <1>6. NodeOK(n) /\ n.last_index = 0 /\ n.val = docId
    BY <1>3, <1>4, <1>5, MakeNode
  <1>7. PICK m : m = NewNode
    OBVIOUS
  <1>8. LineAdded(n, line_num, m)
    BY <1>1, <1>6, <1>7, InsertLine DEF NewNode, insert_line
  <1>9. EndsAt(m, s2[docId], Len(s2[docId]))
    BY <1>5, <1>6, <1>8, EndMoves
  <1> QED
    BY <1>6, <1>7, <1>8, <1>9 DEF LineAdded

\* AddPosting: the list of a word found stays up to date and, if it was, complete.
LEMMA Posting ==
    ASSUME docId \in Docs, line_num \in Nat, NEW list, NEW s, NEW s2, ListOK(list, s, docId),
           Later(s, s2, docId, line_num)
    PROVE  Posted(list, s, AddPosting(list), s2, docId)
  <1>1. PICK k : k = lookup_link(list, docId)
    OBVIOUS
  <1>2. list \in Seq(Nodes) /\ \A i \in 1 .. Len(list) : NodeOK(list[i])
    BY DEF ListOK
  <1>3. \/ k \in 1 .. Len(list) /\ list[k].val = docId
        \/ k = 0 /\ \A i \in 1 .. Len(list) : list[i].val # docId
    BY <1>1, <1>2, LookupLink
  <1>4. PICK list2 : list2 = AddPosting(list)
    OBVIOUS
  <1>5. CASE k \in 1 .. Len(list) /\ list[k].val = docId
    <2>1. PICK m : m = insert_line(list[k])
      OBVIOUS
    <2>2. list2 = [list EXCEPT ![k] = m]
      <3>1. k # 0
        BY <1>5
      <3> QED
        BY <1>1, <1>4, <2>1, <3>1 DEF AddPosting
    <2>3. LineAdded(list[k], line_num, m)
      BY <1>2, <1>5, <2>1, InsertLine DEF insert_line
    <2>4. Posted(list, s, list2, s2, docId)
      BY <1>5, <2>2, <2>3, PostToNode
    <2> QED
      BY <1>4, <2>4
  <1>6. CASE k = 0 /\ \A i \in 1 .. Len(list) : list[i].val # docId
    <2>1. PICK m : m = NewNode
      OBVIOUS
    <2>2. list2 = <<m>> \o list
      BY <1>1, <1>4, <1>6, <2>1 DEF AddPosting, insert_link
    <2>3. NodeOK(m) /\ m.val = docId /\ m.last_index = 1 /\ EndsAt(m, s2[docId], Len(s2[docId]))
      BY <2>1, FirstLine
    <2>4. Posted(list, s, list2, s2, docId)
      BY <1>6, <2>2, <2>3, PostNewNode
    <2> QED
      BY <1>4, <2>4
  <1> QED
    BY <1>3, <1>5, <1>6

-----------------------------------------------------------------------------
(* The steps. *)

\* What the type invariant says of words and lines.
LEMMA Typed ==
    ASSUME IndexInv
    PROVE  /\ Len(heap) \in Nat /\ docId \in Docs /\ line_num \in Nat
           /\ \A w \in Words : hash_function[w] \in Nat /\ seen[w] \in [Docs -> Seq(Nat)]
           /\ \A p \in 1 .. Len(heap) :
                 /\ heap[p] \in Entries /\ heap[p].str \in Words /\ heap[p].hash \in Nat
                 /\ heap[p].hash = hash_function[heap[p].str] /\ heap[p].list \in Seq(Nodes)
  <1>1. Len(heap) \in Nat /\ docId \in Docs /\ line_num \in Nat
    BY LenProperties DEF IndexInv, TypeOK
  <1>2. ASSUME NEW w \in Words
        PROVE  hash_function[w] \in Nat /\ seen[w] \in [Docs -> Seq(Nat)]
    <2>1. hash_function[w] \in Hashes /\ seen[w] \in [Docs -> Seq(1 .. MaxLines)]
      BY DEF IndexInv, TypeOK
    <2>2. ASSUME NEW d \in Docs
          PROVE  seen[w][d] \in Seq(Nat)
      <3>1. seen[w][d] \in Seq(1 .. MaxLines) /\ 1 .. MaxLines \subseteq Nat
        BY <2>1
      <3> QED
        BY <3>1, SeqMonotonic
    <2> QED
      BY <2>1, <2>2
  <1>3. ASSUME NEW p \in 1 .. Len(heap)
        PROVE  /\ heap[p] \in Entries /\ heap[p].str \in Words /\ heap[p].hash \in Nat
               /\ heap[p].hash = hash_function[heap[p].str] /\ heap[p].list \in Seq(Nodes)
    <2>1. heap[p] \in Entries
      BY ElementOfSeq DEF IndexInv
    <2>2. heap[p].hash = hash_function[heap[p].str]
      BY DEF IndexInv, TypeOK
    <2> QED
      BY <2>1, <2>2 DEF Entries
  <1> QED
    BY <1>1, <1>2, <1>3

\* lookup finds the latest Word_T of the string, or there is nothing to find.
LEMMA LookupIs ==
    ASSUME IndexInv, NEW w \in Words
    PROVE  /\ lookup(w) # NULL => /\ lookup(w) \in 1 .. Len(heap) /\ heap[lookup(w)].str = w
                                  /\ Latest(heap, lookup(w))
           /\ lookup(w) = NULL => Missing(Dynlist, heap, w, hash_function[w])
  <1> DEFINE L == Dynlist.phys_len
             t == Dynlist.dyn_list
             H == hash_function[w] % L
             S == {k \in H .. L : k = L \/ t[k] = NULL \/ heap[t[k]].str = w}
  <1>1. L \in Nat \ {0} /\ hash_function[w] \in Nat /\ Slots(Dynlist) = 0 .. L - 1
        /\ t \in [Slots(Dynlist) -> (1 .. Len(heap)) \cup {NULL}]
    BY Typed DEF IndexInv, TableOK, TableTypes, Slots
  <1>2. H \in 0 .. L - 1
    BY <1>1, HomeIsSlot
  <1>3. Stop(w) = Min(S)
    BY DEF Stop, Home
  <1>4. S \in SUBSET Nat /\ L \in S
    BY <1>1, <1>2
  <1>5. \A k \in S : k \in H .. L /\ (k = L \/ t[k] = NULL \/ heap[t[k]].str = w)
    OBVIOUS
  <1>6. \A k \in H .. L : heap[t[k]].str = w => k \in S
    OBVIOUS
  <1> HIDE DEF S
  <1>7. Stop(w) \in S /\ \A x \in S : Stop(w) <= x
    BY <1>3, <1>4, MinIn
  <1>8. PICK m \in H .. L : m = Stop(w) /\ (m = L \/ t[m] = NULL \/ heap[t[m]].str = w)
    BY <1>5, <1>7
  <1>9. lookup(w) = IF m = L THEN NULL ELSE t[m]
    BY <1>8 DEF lookup, OutOfBounds
  <1>10. \A p \in 1 .. Len(heap) : heap[p].str = w => HomeOf(Dynlist, heap, p) = H
    BY Typed DEF HomeOf
  <1> HIDE DEF H
  <1>11. ASSUME lookup(w) # NULL
         PROVE  lookup(w) \in 1 .. Len(heap) /\ heap[lookup(w)].str = w /\ Latest(heap, lookup(w))
    <2>1. m # L /\ t[m] # NULL /\ lookup(w) = t[m]
      BY <1>9, <1>11
    <2>2. m \in Slots(Dynlist) /\ H <= m
      BY <1>1, <1>2, <2>1
    <2>3. t[m] \in 1 .. Len(heap) /\ heap[t[m]].str = w
      BY <1>1, <1>8, <2>1, <2>2
    <2>4. HomeOf(Dynlist, heap, t[m]) <= m
      BY <1>10, <2>2, <2>3
    <2>5. Latest(heap, t[m])
      BY <2>1, <2>2, <2>4 DEF IndexInv, TableOK, FindsLatest
    <2> QED
      BY <2>1, <2>3, <2>5
  <1>12. ASSUME lookup(w) = NULL, NEW k \in Slots(Dynlist), t[k] # NULL, heap[t[k]].str = w, ~(k < H)
         PROVE  FALSE
    <2>1. k \in H .. L /\ k < L /\ k \in Nat
      BY <1>1, <1>2, <1>12
    <2>2. m <= k
      BY <1>6, <1>7, <1>8, <1>12, <2>1
    <2>3. m # L /\ m \in Slots(Dynlist) /\ H <= m
      BY <1>1, <1>2, <2>1, <2>2
    <2>4. t[k] \in 1 .. Len(heap)
      BY <1>1, <1>12
    <2>5. HomeOf(Dynlist, heap, t[k]) = H
      BY <1>10, <1>12, <2>4
    <2>6. t[m] # NULL
      BY <1>12, <2>2, <2>3, <2>5 DEF IndexInv, TableOK, Chained
    <2> QED
      BY <1>9, <1>12, <2>3, <2>6
  <1>13. lookup(w) = NULL => Missing(Dynlist, heap, w, hash_function[w])
    BY <1>12 DEF Missing, H
  <1> QED
    BY <1>11, <1>13

\* The table does not look at the lists of its words.
LEMMA SameNames ==
    ASSUME NEW t, NEW hp, NEW hp2, TableOK(t, hp), Len(hp2) = Len(hp),
           \A p \in 1 .. Len(hp) : hp2[p].str = hp[p].str /\ hp2[p].hash = hp[p].hash
    PROVE  TableOK(t, hp2)
  <1>1. \A k \in Slots(t) : t.dyn_list[k] # NULL => t.dyn_list[k] \in 1 .. Len(hp)
    BY DEF TableOK, TableTypes
  <1>2. \A p \in 1 .. Len(hp) : HomeOf(t, hp2, p) = HomeOf(t, hp, p)
    BY DEF HomeOf
  <1>3. \A p \in 1 .. Len(hp) : Latest(hp, p) => Latest(hp2, p)
    BY DEF Latest
  <1>4. TableTypes(t, Len(hp2))
    BY DEF TableOK
  <1>5. Chained(t, hp2)
    BY <1>1, <1>2 DEF TableOK, Chained
  <1>6. FindsLatest(t, hp2)
    BY <1>1, <1>2, <1>3 DEF TableOK, FindsLatest
  <1> QED
    BY <1>4, <1>5, <1>6 DEF TableOK

\* What a token does to the history of the occurrences.
SeenMore(s, s2, w) ==
    /\ Later(s[w], s2[w], docId, line_num) /\ \A v \in Words : v # w => s2[v] = s[v]
    /\ s2 \in [Words -> [Docs -> Seq(1 .. MaxLines)]]
    /\ \A v \in Words, d \in Docs : docId < d => s2[v][d] = <<>>

\* Token(w) does that.
LEMMA SeenStep ==
    ASSUME IndexInv, NEW w \in Words, NEW s2,
           s2 = [seen EXCEPT ![w] = [seen[w] EXCEPT ![docId] = Append(seen[w][docId], line_num)]]
    PROVE  SeenMore(seen, s2, w)
  <1>1. docId \in Docs /\ line_num \in Nat /\ line_num \in 1 .. MaxLines
    BY Typed DEF IndexInv, TypeOK
  <1>2. seen \in [Words -> [Docs -> Seq(1 .. MaxLines)]] /\ seen[w] \in [Docs -> Seq(Nat)]
    BY Typed DEF IndexInv, TypeOK
  <1>3. PICK f : f = [seen[w] EXCEPT ![docId] = Append(seen[w][docId], line_num)]
    OBVIOUS
  <1>4. Later(seen[w], f, docId, line_num)
    BY <1>1, <1>2, <1>3, AppendLine
  <1>5. f \in [Docs -> Seq(1 .. MaxLines)]
    <2>1. Append(seen[w][docId], line_num) \in Seq(1 .. MaxLines)
      BY <1>1, <1>2, AppendProperties
    <2> QED
      BY <1>1, <1>2, <1>3, <2>1
  <1>6. s2 = [seen EXCEPT ![w] = f]
    BY <1>3
  <1>7. s2[w] = f /\ \A v \in Words : v # w => s2[v] = seen[v]
    BY <1>2, <1>6
  <1>8. s2 \in [Words -> [Docs -> Seq(1 .. MaxLines)]]
    BY <1>2, <1>5, <1>6
  <1>9. ASSUME NEW v \in Words, NEW d \in Docs, docId < d
        PROVE  s2[v][d] = <<>>
    <2>1. seen[v][d] = <<>> /\ d # docId
      BY <1>1, <1>9 DEF IndexInv, Docs
    <2>2. CASE v = w
      BY <1>4, <1>7, <2>1, <2>2 DEF Later
    <2>3. CASE v # w
      BY <1>7, <2>1, <2>3
    <2> QED
      BY <2>2, <2>3
  <1> QED
    BY <1>4, <1>7, <1>8, <1>9 DEF SeenMore

\* hp2 is hp but for the entry p of w, which is new or has a new list.
OnlyChanges(hp, hp2, p, w) ==
    /\ p \in 1 .. Len(hp2) /\ hp2[p].str = w /\ Latest(hp2, p)
    /\ Len(hp) \in Nat /\ Len(hp2) \in Nat
    /\ \A q \in 1 .. Len(hp) : q \in 1 .. Len(hp2) /\ hp2[q].str = hp[q].str
    /\ \A q \in 1 .. Len(hp2) : q # p => q \in 1 .. Len(hp) /\ hp2[q] = hp[q] /\ hp[q].str \in Words

\* The lists of the words stay as they must be: one with the string of the token
\* that lookup does not find is no longer extended, and none the less sound.
LEMMA PostingsKept ==
    ASSUME NEW hp, NEW hp2, NEW p, NEW w \in Words, OnlyChanges(hp, hp2, p, w),
           docId \in Docs, NEW s, NEW s2, SeenMore(s, s2, w), PostingsOK(hp, s, docId),
           s2[w] \in [Docs -> Seq(Nat)], ListOK(hp2[p].list, s2[w], docId)
    PROVE  PostingsOK(hp2, s2, docId)
  <1> SUFFICES ASSUME NEW q \in 1 .. Len(hp2)
               PROVE  /\ \A k \in 1 .. Len(hp2[q].list) : NodeOK(hp2[q].list[k])
                      /\ Sound(hp2[q].list, s2[hp2[q].str], docId)
                      /\ Latest(hp2, q) => UpToDate(hp2[q].list, s2[hp2[q].str])
    BY DEF PostingsOK
  <1>1. CASE q = p
    <2>1. hp2[q].str = w /\ ListOK(hp2[q].list, s2[w], docId)
      BY <1>1 DEF OnlyChanges
    <2>2. Sound(hp2[q].list, s2[w], docId)
      BY <2>1, UpToDateIsSound
    <2> QED
      BY <2>1, <2>2 DEF ListOK
  <1>2. CASE q # p
    <2>1. q \in 1 .. Len(hp) /\ hp2[q] = hp[q] /\ hp[q].str \in Words
      BY <1>2 DEF OnlyChanges
    <2>2. /\ \A k \in 1 .. Len(hp[q].list) : NodeOK(hp[q].list[k])
          /\ Sound(hp[q].list, s[hp[q].str], docId)
          /\ Latest(hp, q) => UpToDate(hp[q].list, s[hp[q].str])
      BY <2>1 DEF PostingsOK
    <2>3. CASE hp[q].str = w
      <3>1. Sound(hp[q].list, s2[w], docId)
        BY <2>2, <2>3, SoundKept DEF SeenMore
      <3>2. p \in Nat /\ q \in Nat /\ (Latest(hp2, q) => p <= q) /\ q <= p
        BY <2>1, <2>3 DEF OnlyChanges, Latest
      <3>3. ~Latest(hp2, q)
        BY <1>2, <3>2
      <3> QED
        BY <2>1, <2>2, <2>3, <3>1, <3>3
    <2>4. CASE hp[q].str # w
      <3>1. s2[hp[q].str] = s[hp[q].str]
        BY <2>1, <2>4 DEF SeenMore
      <3>2. Latest(hp2, q) => Latest(hp, q)
        BY <2>1 DEF Latest, OnlyChanges
      <3> QED
        BY <2>1, <2>2, <3>1, <3>2
    <2> QED
      BY <2>3, <2>4
  <1> QED
    BY <1>1, <1>2

\* The index of a table that has not grown stays exact.
LEMMA ExactKept ==
    ASSUME NEW hp, NEW hp2, NEW p, NEW w \in Words, OnlyChanges(hp, hp2, p, w),
           NEW s, NEW s2, SeenMore(s, s2, w), NEW t, NEW t2, AllExact(t, hp, s),
           \A q \in 1 .. Len(hp) : q # p => hp[q].str # w,
           \A q \in 1 .. Len(hp2) : \E k \in Slots(t2) : t2.dyn_list[k] = q /\ HomeOf(t2, hp2, q) <= k,
           Complete(hp2[p].list, s2[w])
    PROVE  AllExact(t2, hp2, s2)
  <1>1. ASSUME NEW q \in 1 .. Len(hp2), q # p
        PROVE  q \in 1 .. Len(hp) /\ hp2[q] = hp[q] /\ hp[q].str \in Words /\ hp[q].str # w
    BY <1>1 DEF OnlyChanges
  <1>2. p \in 1 .. Len(hp2) /\ hp2[p].str = w
    BY DEF OnlyChanges
  <1>3. ASSUME NEW q \in 1 .. Len(hp2), NEW r \in 1 .. Len(hp2), hp2[q].str = hp2[r].str
        PROVE  q = r
    <2>1. CASE q = p \/ r = p
      BY <1>1, <1>2, <1>3, <2>1
    <2>2. CASE q # p /\ r # p
      BY <1>1, <1>3, <2>2 DEF AllExact
    <2> QED
      BY <2>1, <2>2
  <1>4. ASSUME NEW q \in 1 .. Len(hp2)
        PROVE  Complete(hp2[q].list, s2[hp2[q].str])
    <2>1. CASE q = p
      BY <1>2, <2>1
    <2>2. CASE q # p
      <3>1. s2[hp[q].str] = s[hp[q].str]
        BY <1>1, <2>2 DEF SeenMore
      <3> QED
        BY <1>1, <2>2, <3>1 DEF AllExact
    <2> QED
      BY <2>1, <2>2
  <1>5. ASSUME NEW v \in Words, \A q \in 1 .. Len(hp2) : hp2[q].str # v, NEW d \in Docs
        PROVE  s2[v][d] = <<>>
    <2>1. v # w /\ \A q \in 1 .. Len(hp) : hp[q].str # v
      BY <1>2, <1>5 DEF OnlyChanges
    <2>2. s[v][d] = <<>> /\ s2[v] = s[v]
      BY <2>1 DEF AllExact, SeenMore
    <2> QED
      BY <2>2
  <1> QED
    BY <1>3, <1>4, <1>5 DEF AllExact

\* The empty index.
LEMMA InitIndex == Init => IndexInv
  <1> SUFFICES ASSUME Init PROVE IndexInv
    OBVIOUS
  <1>1. /\ hash_function \in [Words -> Hashes] /\ docId = 0 /\ line_num = 1 /\ crashed = FALSE
        /\ tokens = 0 /\ heap = <<>> /\ Len(heap) = 0 /\ heap \in Seq(Entries)
    BY DEF Init
  <1>2. /\ Dynlist.phys_len = TableSize /\ Dynlist.last_index = 0
        /\ Dynlist.dyn_list = [k \in 0 .. TableSize - 1 |-> NULL]
    BY DEF Init, create_list
  <1>3. /\ seen \in [Words -> [Docs -> Seq(1 .. MaxLines)]]
        /\ \A w \in Words, d \in Docs : seen[w][d] = <<>>
    <2>1. seen = [w \in Words |-> [d \in Docs |-> <<>>]]
      BY DEF Init
    <2>2. <<>> \in Seq(1 .. MaxLines)
      OBVIOUS
    <2>3. [d \in Docs |-> <<>>] \in [Docs -> Seq(1 .. MaxLines)]
      BY <2>2
    <2> QED
      BY <2>1, <2>3
  <1>4. 0 \in Docs /\ 1 \in 1 .. MaxLines /\ 0 \in 0 .. MaxTokens
    BY DEF Docs
  <1>5. /\ Slots(Dynlist) = 0 .. Dynlist.phys_len - 1
        /\ Dynlist.dyn_list \in [Slots(Dynlist) -> (1 .. Len(heap)) \cup {NULL}]
        /\ \A k \in Slots(Dynlist) : Dynlist.dyn_list[k] = NULL
    BY <1>2 DEF Slots
  <1>6. TypeOK
    BY <1>1, <1>2, <1>3, <1>4, <1>5 DEF TypeOK
  <1>7. TableOK(Dynlist, heap)
    <2>1. TableTypes(Dynlist, Len(heap))
      BY <1>2, <1>5 DEF TableTypes
    <2> QED
      BY <1>5, <2>1 DEF TableOK, Chained, FindsLatest
  <1>8. 1 .. Len(heap) = {}
    BY <1>1
  <1>9. PostingsOK(heap, seen, docId) /\ AllExact(Dynlist, heap, seen)
    BY <1>3, <1>8 DEF PostingsOK, AllExact
  <1> QED
    BY <1>1, <1>2, <1>3, <1>6, <1>7, <1>9 DEF IndexInv

\* The list of the latest Word_T of a string, as Posting expects it.
LEMMA ListOfLatest ==
    ASSUME IndexInv, NEW p \in 1 .. Len(heap), Latest(heap, p)
    PROVE  ListOK(heap[p].list, seen[heap[p].str], docId)
  <1>1. heap[p].list \in Seq(Nodes)
    BY Typed
  <1>2. /\ \A k \in 1 .. Len(heap[p].list) : NodeOK(heap[p].list[k])
        /\ Sound(heap[p].list, seen[heap[p].str], docId)
        /\ UpToDate(heap[p].list, seen[heap[p].str])
    BY DEF IndexInv, PostingsOK
  <1> QED
    BY <1>1, <1>2 DEF ListOK, Sound

\* parse finds the word and adds the line.
LEMMA OldWordStep ==
    ASSUME IndexInv, NEW w \in Words, Token(w), lookup(w) # NULL
    PROVE  IndexInv'
  <1>1. PICK p : p = lookup(w)
    OBVIOUS
  <1>2. p \in 1 .. Len(heap) /\ heap[p].str = w /\ Latest(heap, p)
    BY <1>1, LookupIs
  <1>3. /\ Len(heap) \in Nat /\ docId \in Docs /\ line_num \in Nat
        /\ \A q \in 1 .. Len(heap) : heap[q] \in Entries /\ heap[q].str \in Words
    BY Typed
  <1>4. PICK list2 : list2 = AddPosting(heap[p].list)
    OBVIOUS
  <1>5. PICK x : x = [heap[p] EXCEPT !.list = list2]
    OBVIOUS
  <1>6. /\ heap' = [heap EXCEPT ![p] = x]
        /\ Dynlist' = Dynlist /\ hash_function' = hash_function /\ docId' = docId
        /\ line_num' = line_num /\ crashed' = crashed /\ tokens' = tokens + 1 /\ tokens < MaxTokens
        /\ seen' = [seen EXCEPT ![w] = [seen[w] EXCEPT ![docId] = Append(seen[w][docId], line_num)]]
    BY <1>1, <1>4, <1>5 DEF Token, OldWord
  <1>7. SeenMore(seen, seen', w)
    BY <1>6, SeenStep
  <1>8. Later(seen[w], seen'[w], docId, line_num) /\ seen'[w] \in [Docs -> Seq(Nat)]
    BY <1>7 DEF SeenMore, Later
  <1>9. ListOK(heap[p].list, seen[w], docId)
    BY <1>2, ListOfLatest
  <1>10. Posted(heap[p].list, seen[w], list2, seen'[w], docId)
    BY <1>3, <1>4, <1>8, <1>9, Posting
  <1>11. list2 \in Seq(Nodes)
    BY <1>10 DEF Posted, ListOK
  <1>12. x \in Entries /\ x.list = list2 /\ x.str = w /\ x.hash = heap[p].hash
    BY <1>2, <1>3, <1>5, <1>11 DEF Entries
  <1>13. /\ heap' \in Seq(Entries) /\ Len(heap') = Len(heap)
         /\ \A q \in 1 .. Len(heap) : heap'[q] = IF q = p THEN x ELSE heap[q]
    BY <1>2, <1>6, <1>12, ExceptSeq DEF IndexInv
  <1>14. \A q \in 1 .. Len(heap) : heap'[q].str = heap[q].str /\ heap'[q].hash = heap[q].hash
    BY <1>2, <1>12, <1>13
  <1>15. OnlyChanges(heap, heap', p, w)
    <2>1. Latest(heap', p)
      BY <1>2, <1>13, <1>14 DEF Latest
    <2> QED
      BY <1>2, <1>3, <1>12, <1>13, <1>14, <2>1 DEF OnlyChanges
  <1>16. PostingsOK(heap', seen', docId)
    <2>1. PostingsOK(heap, seen, docId)
      BY DEF IndexInv
    <2>2. ListOK(heap'[p].list, seen'[w], docId)
      BY <1>2, <1>10, <1>12, <1>13 DEF Posted
    <2> QED
      BY <1>3, <1>7, <1>8, <1>15, <2>1, <2>2, PostingsKept
  <1>17. TableOK(Dynlist', heap')
    BY <1>6, <1>13, <1>14, SameNames DEF IndexInv
  <1>18. ASSUME Small(Dynlist')
         PROVE  AllExact(Dynlist', heap', seen')
    <2>1. AllExact(Dynlist, heap, seen)
      BY <1>6, <1>18 DEF IndexInv
    <2>2. \A q \in 1 .. Len(heap) : q # p => heap[q].str # w
      BY <1>2, <2>1 DEF AllExact
    <2>3. Complete(heap'[p].list, seen'[w])
      <3>1. Complete(heap[p].list, seen[w])
        BY <1>2, <2>1 DEF AllExact
      <3> QED
        BY <1>2, <1>10, <1>12, <1>13, <3>1 DEF Posted
    <2>4. ASSUME NEW q \in 1 .. Len(heap')
          PROVE  \E k \in Slots(Dynlist') : Dynlist'.dyn_list[k] = q /\ HomeOf(Dynlist', heap', q) <= k
      <3>1. q \in 1 .. Len(heap)
        BY <1>13
      <3>2. HomeOf(Dynlist', heap', q) = HomeOf(Dynlist, heap, q)
        BY <1>6, <1>14, <3>1 DEF HomeOf
      <3>3. PICK k \in Slots(Dynlist) : Dynlist.dyn_list[k] = q /\ HomeOf(Dynlist, heap, q) <= k
        BY <2>1, <3>1 DEF AllExact
      <3> QED
        BY <1>6, <3>2, <3>3
    <2> QED
      BY <1>7, <1>15, <2>1, <2>2, <2>3, <2>4, ExactKept
  <1>19. TypeOK'
    <2>1. \A k \in 1 .. Len(heap') : heap'[k].str \in Words /\ heap'[k].hash = hash_function'[heap'[k].str]
      BY <1>3, <1>6, <1>13, <1>14 DEF IndexInv, TypeOK
    <2>2. seen' \in [Words -> [Docs -> Seq(1 .. MaxLines)]]
      BY <1>7 DEF SeenMore
    <2>3. tokens' \in 0 .. MaxTokens
      <3>1. tokens \in 0 .. MaxTokens
        BY DEF IndexInv, TypeOK
      <3> QED
        BY <1>6, <3>1
    <2> QED
      BY <1>6, <1>13, <2>1, <2>2, <2>3 DEF IndexInv, TypeOK
  <1>20. \A v \in Words, d \in Docs : docId' < d => seen'[v][d] = <<>>
    BY <1>6, <1>7 DEF SeenMore
  <1> QED
    BY <1>6, <1>13, <1>16, <1>17, <1>18, <1>19, <1>20 DEF IndexInv

\* The table after NewWord(w): it has the word, and while it is small it is where
\* lookup finds it.
NewTable(t0, t, n, h) ==
    /\ WithNew(t0, t, n, h)
    /\ Small(t) => /\ Small(t0) /\ t.phys_len = t0.phys_len
                   /\ \E k \in Slots(t) : t.dyn_list[k] = n /\ h % t.phys_len <= k

\* insert and, after a resize, disperse_keys.
LEMMA NewWordInserts ==
    ASSUME NEW t0, NEW n \in Nat \ {0}, TableTypes(t0, n - 1), TableSize <= t0.phys_len,
           NEW h \in Nat, NEW words, words[n].hash = h,
           NEW l, l = insert(t0, n, h % t0.phys_len),
           NEW t, t = IF Full(t0) THEN disperse_keys(l, words) ELSE l
    PROVE  NewTable(t0, t, n, h)
  <1>1. t0.phys_len \in Nat \ {0} /\ t0.last_index \in Nat
    BY DEF TableTypes
  <1>2. Inserts(t0, n, h, l)
    BY Inserted
  <1>3. CASE Full(t0)
    <2>1. WithNew(t0, l, n, h) /\ l.phys_len = 2 * t0.phys_len
      BY <1>2, <1>3 DEF Inserts
    <2>2. WithNew(t0, t, n, h) /\ t.phys_len = l.phys_len
      BY <1>1, <1>3, <2>1, Dispersed
    <2>3. t.phys_len # TableSize
      BY <1>1, <2>1, <2>2
    <2> QED
      BY <2>2, <2>3 DEF NewTable, Small
  <1>4. CASE ~Full(t0)
    <2>1. /\ t = l /\ WithNew(t0, t, n, h) /\ t0.last_index <= t.last_index /\ t.phys_len = t0.phys_len
          /\ t.last_index <= t.phys_len => \E k \in Slots(t) : t.dyn_list[k] = n /\ h % t.phys_len <= k
      BY <1>2, <1>4 DEF Inserts
    <2>2. t.last_index \in Nat
      BY <2>1 DEF WithNew
    <2>3. ASSUME Small(t)
          PROVE  Small(t0) /\ t.last_index <= t.phys_len
      <3>1. t.phys_len = TableSize /\ t.last_index <= TableSize
        BY <2>3 DEF Small
      <3>2. PICK x \in Nat, y \in Nat : x = t0.last_index /\ y = t.last_index /\ x <= y
        BY <1>1, <2>1, <2>2
      <3>3. x <= TableSize
        BY <3>1, <3>2
      <3> QED
        BY <2>1, <3>1, <3>2, <3>3 DEF Small
    <2> QED
      BY <2>1, <2>3 DEF NewTable
  <1> QED
    BY <1>3, <1>4

\* parse does not find the word, and stores it.
LEMMA NewWordStep ==
    ASSUME IndexInv, NEW w \in Words, Token(w), lookup(w) = NULL
    PROVE  IndexInv'
  <1>1. /\ Len(heap) \in Nat /\ docId \in Docs /\ line_num \in Nat /\ hash_function[w] \in Nat
        /\ \A q \in 1 .. Len(heap) : /\ heap[q] \in Entries /\ heap[q].str \in Words
                                     /\ heap[q].hash \in Nat
                                     /\ heap[q].hash = hash_function[heap[q].str]
    BY Typed
  <1>2. PICK h \in Nat : h = hash_function[w]
    BY <1>1
  <1>3. PICK n \in Nat \ {0} : n = Len(heap) + 1 /\ n - 1 = Len(heap)
    BY <1>1
  <1>4. Missing(Dynlist, heap, w, h)
    BY <1>2, LookupIs
  <1>5. PICK m : m = NewNode
    OBVIOUS
  <1>6. PICK list2 : list2 = <<m>> \o <<>>
    OBVIOUS
  <1>7. PICK x : x = create_word(w)
    OBVIOUS
  <1>8. x = [str |-> w, hash |-> h, list |-> list2]
    BY <1>2, <1>5, <1>6, <1>7 DEF create_word, insert_link
  <1>9. PICK l : l = insert(Dynlist, n, h % Dynlist.phys_len)
    OBVIOUS
  <1>10. /\ heap' = Append(heap, x)
         /\ Dynlist' = IF Full(Dynlist) THEN disperse_keys(l, heap') ELSE l
         /\ hash_function' = hash_function /\ docId' = docId
         /\ line_num' = line_num /\ crashed' = crashed /\ tokens' = tokens + 1 /\ tokens < MaxTokens
         /\ seen' = [seen EXCEPT ![w] = [seen[w] EXCEPT ![docId] = Append(seen[w][docId], line_num)]]
    BY <1>2, <1>3, <1>7, <1>9 DEF Token, NewWord, Home
  <1>11. SeenMore(seen, seen', w)
    BY <1>10, SeenStep
  <1>12. Later(seen[w], seen'[w], docId, line_num) /\ seen'[w] \in [Docs -> Seq(Nat)]
    BY <1>11 DEF SeenMore, Later
  <1>13. Posted(<<>>, seen[w], list2, seen'[w], docId)
    <2>1. /\ NodeOK(m) /\ m.val = docId /\ m.last_index = 1
          /\ EndsAt(m, seen'[w][docId], Len(seen'[w][docId]))
      BY <1>1, <1>5, <1>12, FirstLine
    <2>2. <<>> \in Seq(Nodes) /\ 1 .. Len(<<>>) = {}
      OBVIOUS
    <2>3. ListOK(<<>>, seen[w], docId) /\ \A i \in 1 .. Len(<<>>) : <<>>[i].val # docId
      BY <2>2 DEF ListOK, Sorted, UpToDate
    <2> QED
      BY <1>1, <1>6, <1>12, <2>1, <2>3, PostNewNode
  <1>14. x \in Entries /\ x.list = list2 /\ x.str = w /\ x.hash = h
    <2>1. list2 \in Seq(Nodes)
      BY <1>13 DEF Posted, ListOK
    <2> QED
      BY <1>8, <2>1 DEF Entries
  <1>15. /\ heap' \in Seq(Entries) /\ Len(heap') = n /\ heap'[n] = x
         /\ \A q \in 1 .. Len(heap) : heap'[q] = heap[q]
    BY <1>3, <1>10, <1>14, AppendProperties DEF IndexInv
  <1>16. OnlyChanges(heap, heap', n, w)
    <2>1. Latest(heap', n)
      BY <1>15 DEF Latest
    <2>2. n \in 1 .. Len(heap') /\ Len(heap') \in Nat
      BY <1>15
    <2>3. \A q \in 1 .. Len(heap) : q \in 1 .. Len(heap') /\ heap'[q].str = heap[q].str
      BY <1>1, <1>3, <1>15
    <2>4. \A q \in 1 .. Len(heap') : q # n => q \in 1 .. Len(heap) /\ heap'[q] = heap[q] /\ heap[q].str \in Words
      BY <1>1, <1>3, <1>15
    <2> QED
      BY <1>1, <1>14, <1>15, <2>1, <2>2, <2>3, <2>4 DEF OnlyChanges
  <1>17. PostingsOK(heap', seen', docId)
    <2>1. PostingsOK(heap, seen, docId)
      BY DEF IndexInv
    <2>2. ListOK(heap'[n].list, seen'[w], docId)
      BY <1>13, <1>14, <1>15 DEF Posted
    <2> QED
      BY <1>1, <1>11, <1>12, <1>16, <2>1, <2>2, PostingsKept
  <1>18. NewTable(Dynlist, Dynlist', n, h)
    <2>1. TableTypes(Dynlist, n - 1) /\ TableSize <= Dynlist.phys_len
      BY <1>3 DEF IndexInv, TableOK
    <2>2. heap'[n].hash = h
      BY <1>14, <1>15
    <2> QED
      BY <1>9, <1>10, <2>1, <2>2, NewWordInserts
  <1>19. WithNew(Dynlist, Dynlist', n, h)
    BY <1>18 DEF NewTable
  <1>20. TableOK(Dynlist', heap')
    <2>1. Extends(heap, heap', w, h)
      BY <1>1, <1>3, <1>14, <1>15 DEF Extends
    <2>2. \A q \in 1 .. Len(heap) : heap[q].hash \in Nat /\ (heap[q].str = w => heap[q].hash = h)
      BY <1>1, <1>2
    <2>3. TableOK(Dynlist, heap)
      BY DEF IndexInv
    <2> QED
      BY <1>3, <1>4, <1>19, <2>1, <2>2, <2>3, NewWordTable
  <1>21. ASSUME Small(Dynlist')
         PROVE  AllExact(Dynlist', heap', seen')
    <2>1. /\ AllExact(Dynlist, heap, seen) /\ Dynlist'.phys_len = Dynlist.phys_len
          /\ \E k \in Slots(Dynlist') : Dynlist'.dyn_list[k] = n /\ h % Dynlist'.phys_len <= k
      BY <1>18, <1>21 DEF NewTable, IndexInv
    <2>2. Slots(Dynlist') = Slots(Dynlist)
      BY <2>1 DEF Slots
    <2>3. \A k \in Slots(Dynlist) : k \in Nat
      BY DEF Slots, IndexInv, TypeOK
    <2>4. ASSUME NEW q \in 1 .. Len(heap), heap[q].str = w
          PROVE  FALSE
      <3>1. PICK k \in Slots(Dynlist) : Dynlist.dyn_list[k] = q /\ HomeOf(Dynlist, heap, q) <= k
        BY <2>1 DEF AllExact
      <3>2. HomeOf(Dynlist, heap, q) = h % Dynlist.phys_len
        BY <1>1, <1>2, <2>4 DEF HomeOf
      <3>3. q # NULL
        OBVIOUS
      <3>4. k < h % Dynlist.phys_len
        BY <1>4, <2>4, <3>1, <3>3 DEF Missing
      <3>5. h % Dynlist.phys_len \in Nat /\ k \in Nat
        <4>1. Dynlist.phys_len \in Nat \ {0}
          BY DEF IndexInv, TableOK, TableTypes
        <4> QED
          BY <2>3, <4>1
      <3> QED
        BY <3>1, <3>2, <3>4, <3>5
    <2>5. Complete(heap'[n].list, seen'[w])
      <3>1. \A d \in Docs : seen[w][d] = <<>>
        BY <2>1, <2>4 DEF AllExact
      <3>2. 1 .. Len(<<>>) = {}
        OBVIOUS
      <3>3. Complete(<<>>, seen[w])
        BY <3>1, <3>2 DEF Complete
      <3> QED
        BY <1>13, <1>14, <1>15, <3>3 DEF Posted
    <2>6. ASSUME NEW q \in 1 .. Len(heap')
          PROVE  \E k \in Slots(Dynlist') : Dynlist'.dyn_list[k] = q /\ HomeOf(Dynlist', heap', q) <= k
      <3>1. CASE q = n
        <4>1. HomeOf(Dynlist', heap', q) = h % Dynlist'.phys_len
          BY <1>14, <1>15, <3>1 DEF HomeOf
        <4> QED
          BY <2>1, <3>1, <4>1
      <3>2. CASE q # n
        <4>1. q \in 1 .. Len(heap) /\ heap'[q] = heap[q]
          BY <1>16, <3>2 DEF OnlyChanges
        <4>2. HomeOf(Dynlist', heap', q) = HomeOf(Dynlist, heap, q)
          BY <2>1, <4>1 DEF HomeOf
        <4>3. PICK k \in Slots(Dynlist) : Dynlist.dyn_list[k] = q /\ HomeOf(Dynlist, heap, q) <= k
          BY <2>1, <4>1 DEF AllExact
        <4>4. Dynlist'.dyn_list[k] = q
          <5>1. q # NULL
            OBVIOUS
          <5> QED
            BY <1>19, <2>2, <4>3, <5>1 DEF WithNew
        <4> QED
          BY <2>2, <4>2, <4>3, <4>4
      <3> QED
        BY <3>1, <3>2
    <2>7. \A q \in 1 .. Len(heap) : q # n => heap[q].str # w
      BY <2>4
    <2> QED
      BY <1>11, <1>16, <2>1, <2>5, <2>6, <2>7, ExactKept
  <1>22. TypeOK'
    <2>1. ASSUME NEW k \in 1 .. Len(heap')
          PROVE  heap'[k].str \in Words /\ heap'[k].hash = hash_function'[heap'[k].str]
      <3>1. CASE k = n
        BY <1>2, <1>10, <1>14, <1>15, <3>1
      <3>2. CASE k # n
        <4>1. k \in 1 .. Len(heap) /\ heap'[k] = heap[k]
          BY <1>16, <3>2 DEF OnlyChanges
        <4> QED
          BY <1>1, <1>10, <4>1
      <3> QED
        BY <3>1, <3>2
    <2>2. seen' \in [Words -> [Docs -> Seq(1 .. MaxLines)]]
      BY <1>11 DEF SeenMore
    <2>3. tokens' \in 0 .. MaxTokens
      <3>1. tokens \in 0 .. MaxTokens
        BY DEF IndexInv, TypeOK
      <3> QED
        BY <1>10, <3>1
    <2>4. /\ Dynlist'.phys_len \in Nat /\ Dynlist'.last_index \in Nat
          /\ Dynlist'.dyn_list \in [0 .. Dynlist'.phys_len - 1 -> (1 .. Len(heap')) \cup {NULL}]
      BY <1>20 DEF TableOK, TableTypes, Slots
    <2> QED
      BY <1>10, <2>1, <2>2, <2>3, <2>4 DEF IndexInv, TypeOK
  <1>23. \A v \in Words, d \in Docs : docId' < d => seen'[v][d] = <<>>
    BY <1>10, <1>11 DEF SeenMore
  <1>24. TableSize <= Dynlist'.phys_len
    <2>1. /\ Dynlist'.phys_len \in {Dynlist.phys_len, 2 * Dynlist.phys_len}
          /\ TableSize <= Dynlist.phys_len /\ Dynlist.phys_len \in Nat
      BY <1>19 DEF WithNew, IndexInv, TypeOK
    <2> QED
      BY <2>1
  <1> QED
    BY <1>10, <1>15, <1>17, <1>20, <1>21, <1>22, <1>23, <1>24 DEF IndexInv

\* The next document: nothing was seen of it, and it is newer than all before.
LEMMA NextDocStep ==
    ASSUME IndexInv, NextDoc
    PROVE  IndexInv'
  <1>1. /\ docId' = docId + 1 /\ docId + 1 < MaxDocs /\ line_num' = 1
        /\ hash_function' = hash_function /\ Dynlist' = Dynlist /\ heap' = heap
        /\ crashed' = crashed /\ tokens' = tokens /\ seen' = seen
    BY DEF NextDoc
  <1>2. docId \in Docs /\ docId \in Nat /\ docId' \in Docs
    BY <1>1 DEF IndexInv, TypeOK, Docs
  <1>3. \A v \in Words, d \in Docs : docId' < d => seen'[v][d] = <<>>
    <2>1. \A d \in Docs : docId' < d => docId < d
      BY <1>1, <1>2 DEF Docs
    <2> QED
      BY <1>1, <2>1 DEF IndexInv
  <1>4. PostingsOK(heap, seen, docId')
    <2> SUFFICES ASSUME NEW p \in 1 .. Len(heap)
                 PROVE  /\ \A k \in 1 .. Len(heap[p].list) : NodeOK(heap[p].list[k])
                        /\ Sound(heap[p].list, seen[heap[p].str], docId')
                        /\ Latest(heap, p) => UpToDate(heap[p].list, seen[heap[p].str])
      BY DEF PostingsOK
    <2>1. /\ \A k \in 1 .. Len(heap[p].list) : NodeOK(heap[p].list[k])
          /\ Sound(heap[p].list, seen[heap[p].str], docId)
          /\ Latest(heap, p) => UpToDate(heap[p].list, seen[heap[p].str])
      BY DEF IndexInv, PostingsOK
    <2>2. \A k \in 1 .. Len(heap[p].list) : heap[p].list[k].val \in Nat
      BY <2>1 DEF NodeOK, Nodes, Docs
    <2>3. Sorted(heap[p].list, docId)
      BY <2>1 DEF Sound
    <2>4. Sorted(heap[p].list, docId')
      <3>1. PICK list, e : list = heap[p].list /\ e = docId'
        OBVIOUS
      <3>2. ASSUME NEW k \in 1 .. Len(list)
            PROVE  list[k].val <= e /\ (k > 1 => list[k].val < list[k - 1].val)
        <4>1. list[k].val \in Nat /\ list[k].val <= docId
          BY <2>2, <2>3, <3>1 DEF Sorted
        <4>2. k > 1 => list[k].val < list[k - 1].val
          BY <2>3, <3>1 DEF Sorted
        <4> QED
          BY <1>1, <1>2, <3>1, <4>1, <4>2
      <3>3. Sorted(list, e)
        BY <3>2 DEF Sorted
      <3> QED
        BY <3>1, <3>3
    <2> QED
      BY <2>1, <2>4 DEF Sound
  <1>5. TypeOK'
    <2>1. 1 \in 1 .. MaxLines
      OBVIOUS
    <2> QED
      BY <1>1, <1>2, <2>1 DEF IndexInv, TypeOK
  <1> QED
    BY <1>1, <1>3, <1>4, <1>5 DEF IndexInv

\* The next line, or a crash, changes nothing of the index.
LEMMA SameIndex ==
    ASSUME IndexInv, UNCHANGED <<hash_function, Dynlist, heap, docId, tokens, seen>>,
           line_num' \in 1 .. MaxLines, crashed' \in BOOLEAN
    PROVE  IndexInv'
  <1>1. TypeOK'
    BY DEF IndexInv, TypeOK
  <1> QED
    BY <1>1 DEF IndexInv

\* Each step keeps the invariant.
LEMMA StepIndex == IndexInv /\ [Next]_vars => IndexInv'
  <1> SUFFICES ASSUME IndexInv, [Next]_vars PROVE IndexInv'
    OBVIOUS
  <1>1. line_num \in 1 .. MaxLines /\ crashed \in BOOLEAN
    BY DEF IndexInv, TypeOK
  <1>2. CASE \E w \in Words : Token(w)
    BY <1>2, OldWordStep, NewWordStep
  <1>3. CASE \E w \in Words : TokenCrashes(w) \/ SearchCrashes(w)
    BY <1>1, <1>3, SameIndex DEF TokenCrashes, SearchCrashes
  <1>4. CASE NextLine
    <2>1. line_num' \in 1 .. MaxLines
      BY <1>1, <1>4 DEF NextLine
    <2> QED
      BY <1>1, <1>4, <2>1, SameIndex DEF NextLine
  <1>5. CASE NextDoc
    BY <1>5, NextDocStep
  <1>6. CASE UNCHANGED vars
    BY <1>1, <1>6, SameIndex DEF vars
  <1> QED
    BY <1>2, <1>3, <1>4, <1>5, <1>6 DEF Next

(***************************************************************************)
(* The table, the words and their lists stay consistent with each other    *)
(* and with what was parsed.                                               *)
(***************************************************************************)
THEOREM IndexCorrect == Spec => []IndexInv
  BY InitIndex, StepIndex, PTL DEF Spec

(***************************************************************************)
(* The type invariant: every slot holds a Word_T or NULL, and the hash of  *)
(* a Word_T is that of its string.                                         *)
(***************************************************************************)
THEOREM IndexTypes == Spec => []TypeOK
  <1>1. IndexInv => TypeOK
    BY DEF IndexInv
  <1> QED
    BY IndexCorrect, <1>1, PTL

-----------------------------------------------------------------------------
(* What a search prints. *)

Printed(n) == [i \in 1 .. n.last_index |-> n.list[i - 1]]

\* A function on 1 .. n has n elements.
LEMMA LenIs ==
    ASSUME NEW n \in Nat, NEW f, DOMAIN f = 1 .. n, NEW S, f \in Seq(S)
    PROVE  Len(f) = n
  <1>1. Len(f) \in Nat /\ DOMAIN f = 1 .. Len(f)
    BY LenProperties
  <1>2. PICK m \in Nat : m = Len(f) /\ 1 .. m = 1 .. n
    BY <1>1
  <1>3. \A k \in 1 .. m : k <= n
    BY <1>2
  <1>4. \A k \in 1 .. n : k <= m
    BY <1>2
  <1>5. m <= n
    BY <1>3
  <1>6. n <= m
    BY <1>4
  <1> QED
    BY <1>2, <1>5, <1>6

\* The numbers printed are the last ones of all, or all.
LEMMA PrintedIs ==
    ASSUME NEW n, n.last_index \in Nat, NEW all \in Seq(Nat), EndsAt(n, all, Len(all))
    PROVE  /\ Printed(n) # <<>>
           /\ \E from \in 1 .. Len(all) : \E to \in from .. Len(all) : Printed(n) = SubSeq(all, from, to)
           /\ n.last_index = Len(all) => Printed(n) = all
  <1>1. PICK c \in Nat : c = n.last_index
    OBVIOUS
  <1>2. PICK b \in Nat : b = Len(all)
    BY LenProperties
  <1>3. 1 <= c /\ c <= b /\ \A i \in 1 .. c : n.list[i - 1] = all[b - c + i]
    BY <1>1, <1>2 DEF EndsAt
  <1>4. PICK f : f = Printed(n)
    OBVIOUS
  <1>5. DOMAIN f = 1 .. c /\ \A i \in 1 .. c : f[i] = all[b - c + i]
    BY <1>1, <1>3, <1>4 DEF Printed
  <1>6. f \in Seq(Nat)
    <2>1. \A i \in 1 .. c : f[i] \in Nat
      <3> SUFFICES ASSUME NEW i \in 1 .. c PROVE f[i] \in Nat
        OBVIOUS
      <3>1. b - c + i \in 1 .. b
        BY <1>3
      <3>2. all[b - c + i] \in Nat
        BY <1>2, <3>1, ElementOfSeq
      <3> QED
        BY <1>5, <3>2
    <2>2. f \in [1 .. c -> Nat]
      BY <1>1, <1>4, <1>5, <2>1 DEF Printed
    <2> QED
      BY <2>2, SeqDef
  <1>7. Len(f) = c
    BY <1>5, <1>6, LenIs
  <1>8. f # <<>>
    BY <1>3, <1>7
  <1>9. PICK a \in Nat : a = b - c + 1
    BY <1>3
  <1>10. a \in 1 .. b /\ b \in a .. b /\ b - a + 1 = c
    BY <1>3, <1>9
  <1>11. PICK g : g = SubSeq(all, a, b)
    OBVIOUS
  <1>12. g \in Seq(Nat) /\ Len(g) = c /\ \A i \in 1 .. c : g[i] = all[a + i - 1]
    <2>1. ASSUME NEW i \in a .. b
          PROVE  all[i] \in Nat
      <3>1. i \in 1 .. Len(all)
        BY <1>2, <1>10
      <3> QED
        BY <3>1, ElementOfSeq
    <2>2. /\ g \in Seq(Nat) /\ Len(g) = IF a <= b THEN b - a + 1 ELSE 0
          /\ \A i \in 1 .. b - a + 1 : g[i] = all[a + i - 1]
      BY <1>11, <2>1, SubSeqProperties
    <2> QED
      BY <1>10, <2>2
  <1>13. \A i \in 1 .. c : f[i] = g[i]
    <2> SUFFICES ASSUME NEW i \in 1 .. c PROVE f[i] = g[i]
      OBVIOUS
    <2>1. a + i - 1 = b - c + i
      BY <1>9
    <2> QED
      BY <1>5, <1>12, <2>1
  <1>14. f = g
    BY <1>6, <1>7, <1>12, <1>13, SeqEqual
  <1>15. ASSUME c = b
         PROVE  f = all
    <2>1. \A i \in 1 .. c : b - c + i = i
      BY <1>15
    <2>2. \A i \in 1 .. c : f[i] = all[i]
      BY <1>5, <2>1
    <2> QED
      BY <1>2, <1>6, <1>7, <1>15, <2>2, SeqEqual
  <1> QED
    BY <1>1, <1>2, <1>4, <1>8, <1>10, <1>11, <1>14, <1>15

\* An answer ans prints the nodes of docs in turn.
Prints(ans, docs) ==
    /\ Len(docs) \in Nat /\ Len(ans) = Len(docs)
    /\ \A k \in 1 .. Len(docs) : ans[k].val = docs[k].val /\ ans[k].list = Printed(docs[k])

\* What Answer prints is the list of the latest Word_T, or nothing.
LEMMA AnswerIs ==
    ASSUME IndexInv, NEW w \in Words
    PROVE  \E docs : /\ Prints(Answer(w), docs) /\ ListOK(docs, seen[w], docId)
                     /\ Small(Dynlist) => Complete(docs, seen[w])
  <1>1. PICK docs : docs = IF lookup(w) = NULL THEN <<>> ELSE heap[lookup(w)].list
    OBVIOUS
  <1>2. PICK ans : ans = Answer(w)
    OBVIOUS
  <1>3. ListOK(docs, seen[w], docId)
    <2>1. CASE lookup(w) = NULL
      <3>1. <<>> \in Seq(Nodes) /\ 1 .. Len(<<>>) = {}
        OBVIOUS
      <3> QED
        BY <1>1, <2>1, <3>1 DEF ListOK, Sorted, UpToDate
    <2>2. CASE lookup(w) # NULL
      BY <1>1, <2>2, LookupIs, ListOfLatest
    <2> QED
      BY <2>1, <2>2
  <1>4. docs \in Seq(Nodes) /\ Len(docs) \in Nat
    BY <1>3, LenProperties DEF ListOK
  <1>5. ans = [k \in 1 .. Len(docs) |-> [val |-> docs[k].val, list |-> Printed(docs[k])]]
    BY <1>1, <1>2 DEF Answer, Printed
  <1>6. /\ DOMAIN ans = 1 .. Len(docs)
        /\ \A k \in 1 .. Len(docs) : ans[k].val = docs[k].val /\ ans[k].list = Printed(docs[k])
    BY <1>5
  <1>7. PICK n \in Nat : n = Len(docs)
    BY <1>4
  <1>8. Len(ans) = n
    <2> DEFINE S == {ans[k] : k \in 1 .. n}
    <2>1. ans \in [1 .. n -> S]
      BY <1>5, <1>7
    <2>2. ans \in Seq(S)
      <3> HIDE DEF S
      <3> QED
        BY <2>1, SeqDef
    <2> HIDE DEF S
    <2> QED
      BY <1>6, <1>7, <2>2, LenIs
  <1>9. Prints(ans, docs)
    BY <1>4, <1>6, <1>7, <1>8 DEF Prints
  <1>10. ASSUME Small(Dynlist)
         PROVE  Complete(docs, seen[w])
    <2>1. AllExact(Dynlist, heap, seen)
      BY <1>10 DEF IndexInv
    <2>2. CASE lookup(w) # NULL
      <3>1. lookup(w) \in 1 .. Len(heap) /\ heap[lookup(w)].str = w
        BY <2>2, LookupIs
      <3> QED
        BY <1>1, <2>1, <2>2, <3>1 DEF AllExact
    <2>3. CASE lookup(w) = NULL
      <3>1. Missing(Dynlist, heap, w, hash_function[w])
        BY <2>3, LookupIs
      <3>2. ASSUME NEW q \in 1 .. Len(heap), heap[q].str = w
            PROVE  FALSE
        <4>1. PICK k \in Slots(Dynlist) : Dynlist.dyn_list[k] = q /\ HomeOf(Dynlist, heap, q) <= k
          BY <2>1 DEF AllExact
        <4>2. PICK h \in Nat : h = hash_function[w] /\ HomeOf(Dynlist, heap, q) = h % Dynlist.phys_len
          BY <3>2, Typed DEF HomeOf
        <4>3. q # NULL
          OBVIOUS
        <4>4. k < h % Dynlist.phys_len
          BY <3>1, <3>2, <4>1, <4>2, <4>3 DEF Missing
        <4>5. h % Dynlist.phys_len \in Nat /\ k \in Nat
          <5>1. Dynlist.phys_len \in Nat \ {0}
            BY DEF IndexInv, TableOK, TableTypes
          <5> QED
            BY <5>1 DEF Slots
        <4> QED
          BY <4>1, <4>2, <4>4, <4>5
      <3>3. \A d \in Docs : seen[w][d] = <<>>
        BY <2>1, <3>2 DEF AllExact
      <3>4. 1 .. Len(docs) = {}
        BY <1>1, <2>3
      <3> QED
        BY <3>3, <3>4 DEF Complete
    <2> QED
      BY <2>2, <2>3
  <1> QED
    BY <1>2, <1>3, <1>9, <1>10

\* The nodes of a list that is up to date.
LEMMA NodesOf ==
    ASSUME NEW docs, NEW s \in [Docs -> Seq(Nat)], NEW d, ListOK(docs, s, d), NEW k \in 1 .. Len(docs)
    PROVE  /\ docs[k].val \in Docs /\ docs[k].last_index \in Nat /\ s[docs[k].val] \in Seq(Nat)
           /\ EndsAt(docs[k], s[docs[k].val], Len(s[docs[k].val]))
           /\ k > 1 => docs[k].val < docs[k - 1].val
  <1>1. NodeOK(docs[k])
    BY DEF ListOK
  <1>2. docs[k].val \in Docs /\ docs[k].last_index \in Nat
    BY <1>1 DEF NodeOK, Nodes
  <1> QED
    BY <1>2 DEF ListOK, UpToDate, Sorted

(***************************************************************************)
(* Whatever became of the table, in every state a search prints documents  *)
(* newest first and, of each, a run of the lines the word is on.           *)
(***************************************************************************)
THEOREM AnswersNeverWrong == Spec => []AnswersSound
  <1>1. ASSUME IndexInv
        PROVE  AnswersSound
    <2> SUFFICES ASSUME NEW w \in Words, NEW k \in 1 .. Len(Answer(w))
                 PROVE  /\ k > 1 => Answer(w)[k].val < Answer(w)[k - 1].val
                        /\ Answer(w)[k].list # <<>>
                        /\ \E from \in 1 .. Len(seen[w][Answer(w)[k].val]) :
                             \E to \in from .. Len(seen[w][Answer(w)[k].val]) :
                               Answer(w)[k].list = SubSeq(seen[w][Answer(w)[k].val], from, to)
      BY DEF AnswersSound
    <2>1. PICK docs : Prints(Answer(w), docs) /\ ListOK(docs, seen[w], docId)
      BY <1>1, AnswerIs
    <2>2. seen[w] \in [Docs -> Seq(Nat)]
      BY <1>1, Typed
    <2>3. k \in 1 .. Len(docs) /\ Answer(w)[k].val = docs[k].val /\ Answer(w)[k].list = Printed(docs[k])
      BY <2>1 DEF Prints
    <2>4. k > 1 => Answer(w)[k - 1].val = docs[k - 1].val
      <3>1. k > 1 => k - 1 \in 1 .. Len(docs)
        BY <2>1, <2>3 DEF Prints
      <3> QED
        BY <2>1, <3>1 DEF Prints
    <2>5. PICK v \in Docs : v = docs[k].val
      BY <2>1, <2>2, <2>3, NodesOf
    <2>6. /\ docs[k].last_index \in Nat /\ seen[w][v] \in Seq(Nat)
          /\ EndsAt(docs[k], seen[w][v], Len(seen[w][v]))
          /\ k > 1 => docs[k].val < docs[k - 1].val
      BY <2>1, <2>2, <2>3, <2>5, NodesOf
    <2>7. /\ Printed(docs[k]) # <<>>
          /\ \E from \in 1 .. Len(seen[w][v]) : \E to \in from .. Len(seen[w][v]) :
                Printed(docs[k]) = SubSeq(seen[w][v], from, to)
      BY <2>6, PrintedIs
    <2> QED
      BY <2>3, <2>4, <2>5, <2>6, <2>7
  <1> QED
    BY <1>1, IndexCorrect, PTL

(***************************************************************************)
(* While the table has its first size, searches find everything, for every *)
(* size, hash function and text.                                           *)
(***************************************************************************)
THEOREM ExactSearches == Spec => []ExactUntilGrowth
  <1>1. ASSUME IndexInv
        PROVE  ExactUntilGrowth
    <2> SUFFICES ASSUME Small(Dynlist), NEW w \in Words
                 PROVE  ExactFor(Answer(w), w)
      BY DEF ExactUntilGrowth, Small
    <2>1. PICK docs : Prints(Answer(w), docs) /\ ListOK(docs, seen[w], docId) /\ Complete(docs, seen[w])
      BY <1>1, AnswerIs
    <2>2. seen[w] \in [Docs -> Seq(Nat)]
      BY <1>1, Typed
    <2>3. PICK ans : ans = Answer(w)
      OBVIOUS
    <2>4. /\ Len(docs) \in Nat /\ Len(ans) = Len(docs)
          /\ \A k \in 1 .. Len(docs) : ans[k].val = docs[k].val /\ ans[k].list = Printed(docs[k])
      BY <2>1, <2>3 DEF Prints
    <2>5. ASSUME NEW k \in 1 .. Len(docs)
          PROVE  /\ docs[k].val \in Docs /\ seen[w][docs[k].val] # <<>>
                 /\ Printed(docs[k]) = seen[w][docs[k].val]
                 /\ k > 1 => docs[k].val < docs[k - 1].val
      <3>1. PICK v \in Docs : v = docs[k].val
        BY <2>1, <2>2, NodesOf
      <3>2. /\ docs[k].last_index \in Nat /\ seen[w][v] \in Seq(Nat)
            /\ EndsAt(docs[k], seen[w][v], Len(seen[w][v]))
            /\ k > 1 => docs[k].val < docs[k - 1].val
        BY <2>1, <2>2, <3>1, NodesOf
      <3>3. docs[k].last_index = Len(seen[w][v])
        BY <2>1, <3>1 DEF Complete
      <3>4. Printed(docs[k]) = seen[w][v] /\ Printed(docs[k]) # <<>>
        BY <3>2, <3>3, PrintedIs
      <3> QED
        BY <3>1, <3>2, <3>4
    <2>6. {ans[k].val : k \in 1 .. Len(ans)} = {d \in Docs : seen[w][d] # <<>>}
      <3>1. ASSUME NEW k \in 1 .. Len(ans)
            PROVE  ans[k].val \in Docs /\ seen[w][ans[k].val] # <<>>
        BY <2>4, <2>5
      <3>2. ASSUME NEW d \in Docs, seen[w][d] # <<>>
            PROVE  \E k \in 1 .. Len(ans) : ans[k].val = d
        BY <2>1, <2>4, <3>2 DEF Complete
      <3> QED
        BY <3>1, <3>2
    <2>7. \A k \in 1 .. Len(ans) :
              /\ ans[k].list = seen[w][ans[k].val]
              /\ k > 1 => ans[k].val < ans[k - 1].val
      <3> SUFFICES ASSUME NEW k \in 1 .. Len(ans)
                   PROVE  /\ ans[k].list = seen[w][ans[k].val]
                          /\ k > 1 => ans[k].val < ans[k - 1].val
        OBVIOUS
      <3>1. k > 1 => k - 1 \in 1 .. Len(docs)
        BY <2>4
      <3> QED
        BY <2>4, <2>5, <3>1
    <2> QED
      BY <2>3, <2>6, <2>7 DEF ExactFor
  <1> QED
    BY <1>1, IndexCorrect, PTL
=============================================================================
