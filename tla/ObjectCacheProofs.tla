------------------------- MODULE ObjectCacheProofs -------------------------
(***************************************************************************)
(* Proofs about ObjectCache, for any number of threads, classes and spans, *)
(* and, at the end, about the choice of a class for a size in SizeClass.   *)
(***************************************************************************)
EXTENDS ObjectCache, SizeClass, NatLemmas, SequenceTheorems, FiniteSetTheorems, TLAPS

-----------------------------------------------------------------------------
(* Sequences without repetition *)

\* A sequence has its elements at the numbers up to its length.
LEMMA ToSetIs ==
    ASSUME NEW S, NEW s \in Seq(S)
    PROVE  /\ Len(s) \in Nat /\ DOMAIN s = 1 .. Len(s)
           /\ \A o : o \in ToSet(s) <=> \E i \in 1 .. Len(s) : s[i] = o
           /\ IsInjective(s) <=> \A i, j \in 1 .. Len(s) : s[i] = s[j] => i = j
           /\ ToSet(s) \subseteq S
           /\ s = <<>> <=> Len(s) = 0
           /\ s = <<>> <=> ToSet(s) = {}
  <1>1. Len(s) \in Nat /\ DOMAIN s = 1 .. Len(s) /\ s \in [1 .. Len(s) -> S]
    BY LenProperties
  <1>2. s = <<>> <=> Len(s) = 0
    BY EmptySeq
  <1>3. \A o : o \in ToSet(s) <=> \E i \in 1 .. Len(s) : s[i] = o
    BY <1>1 DEF ToSet
  <1>4. IsInjective(s) <=> \A i, j \in 1 .. Len(s) : s[i] = s[j] => i = j
    BY <1>1 DEF IsInjective
  <1>5. ToSet(s) \subseteq S
    BY <1>1, <1>3
  <1>6. Len(s) # 0 => ToSet(s) # {}
    <2>1. Len(s) # 0 => 1 \in 1 .. Len(s)
      BY <1>1
    <2> QED
      BY <1>3, <2>1
  <1>7. Len(s) = 0 => ToSet(s) = {}
    BY <1>3
  <1> QED
    BY <1>1, <1>2, <1>3, <1>4, <1>5, <1>6, <1>7

\* The empty sequence.
LEMMA EmptyIs ==
    /\ IsInjective(<<>>) /\ ToSet(<<>>) = {} /\ Len(<<>>) = 0
    /\ \A S : <<>> \in Seq(S)
  BY DEF ToSet, IsInjective

\* A sequence of one element.
LEMMA SingleIs ==
    ASSUME NEW S, NEW b \in S
    PROVE  \E w \in Seq(S) : w = <<b>> /\ Len(w) = 1 /\ IsInjective(w) /\ ToSet(w) = {b}
  <1>1. <<b>> \in Seq(S) /\ Len(<<b>>) = 1
    OBVIOUS
  <1>2. IsInjective(<<b>>) /\ ToSet(<<b>>) = {b}
    BY DEF IsInjective, ToSet
  <1> QED
    BY <1>1, <1>2

\* r is the sequence s with the element o in front.
Pushed(S, s, o, r) ==
    /\ r \in Seq(S) /\ Len(r) = Len(s) + 1 /\ r # <<>>
    /\ ToSet(r) = {o} \cup ToSet(s)
    /\ IsInjective(s) /\ o \notin ToSet(s) => IsInjective(r)

\* That is what the concatenation gives.
LEMMA PushSeq ==
    ASSUME NEW S, NEW s \in Seq(S), NEW o \in S, NEW r, r = <<o>> \o s
    PROVE  Pushed(S, s, o, r)
  <1>1. /\ <<o>> \in Seq(S) /\ Len(<<o>>) = 1 /\ <<o>>[1] = o
    OBVIOUS
  <1>2. /\ Len(s) \in Nat
        /\ r \in Seq(S) /\ Len(r) = Len(s) + 1
        /\ \A i \in 1 .. Len(s) + 1 : r[i] = IF i <= 1 THEN o ELSE s[i - 1]
    BY <1>1, ConcatProperties, LenProperties
  <1>3. r[1] = o /\ \A i \in 1 .. Len(s) : i + 1 \in 1 .. Len(r) /\ r[i + 1] = s[i]
    BY <1>2
  <1>4. \A i \in 1 .. Len(r) : i = 1 \/ (i - 1 \in 1 .. Len(s) /\ r[i] = s[i - 1])
    BY <1>2
  <1>5. \A x : x \in ToSet(r) <=> x = o \/ x \in ToSet(s)
    <2>1. \A x : x \in ToSet(r) <=> \E i \in 1 .. Len(r) : r[i] = x
      BY <1>2, ToSetIs
    <2>2. \A x : x \in ToSet(s) <=> \E i \in 1 .. Len(s) : s[i] = x
      BY ToSetIs
    <2>3. 1 \in 1 .. Len(r)
      BY <1>2
    <2> QED
      BY <1>3, <1>4, <2>1, <2>2, <2>3
  <1>6. ASSUME IsInjective(s), o \notin ToSet(s), NEW i \in 1 .. Len(r), NEW j \in 1 .. Len(r), r[i] = r[j]
        PROVE  i = j
    <2>1. \A k \in 1 .. Len(s) : s[k] # o
      BY <1>6, ToSetIs
    <2>2. \A k, l \in 1 .. Len(s) : s[k] = s[l] => k = l
      BY <1>6, ToSetIs
    <2>3. CASE i = 1 \/ j = 1
      BY <1>2, <1>3, <1>4, <1>6, <2>1, <2>3
    <2>4. CASE i # 1 /\ j # 1
      <3>1. i - 1 \in 1 .. Len(s) /\ j - 1 \in 1 .. Len(s) /\ s[i - 1] = s[j - 1]
        BY <1>4, <1>6, <2>4
      <3>2. i - 1 = j - 1
        BY <2>2, <3>1
      <3> QED
        BY <1>2, <3>2
    <2> QED
      BY <2>3, <2>4
  <1>7. IsInjective(s) /\ o \notin ToSet(s) => IsInjective(r)
    BY <1>2, <1>6, ToSetIs
  <1>8. r # <<>>
    BY <1>2, ToSetIs
  <1> QED
    BY <1>2, <1>5, <1>7, <1>8 DEF Pushed

\* A part of a sequence: r is what s has after its first m elements.
PartOf(s, m, r) == m + Len(r) <= Len(s) /\ \A i \in 1 .. Len(r) : r[i] = s[m + i]

\* The elements of such a part, and that it has none twice if the sequence has not.
LEMMA PartSeq ==
    ASSUME NEW S, NEW s \in Seq(S), NEW m \in Nat, NEW r \in Seq(S), PartOf(s, m, r)
    PROVE  /\ \A x : x \in ToSet(r) <=> \E i \in m + 1 .. m + Len(r) : s[i] = x
           /\ IsInjective(s) => IsInjective(r)
  <1>1. PICK a \in Nat : a = Len(r)
    BY LenProperties
  <1>2. /\ Len(s) \in Nat
        /\ \A i \in 1 .. a : r[i] = s[m + i] /\ m + i \in 1 .. Len(s) /\ m + i \in m + 1 .. m + a
    BY <1>1, LenProperties DEF PartOf
  <1>3. \A k \in m + 1 .. m + a : k - m \in 1 .. a /\ r[k - m] = s[k]
    <2> TAKE k \in m + 1 .. m + a
    <2>1. PICK i \in 1 .. a : i = k - m /\ m + i = k
      BY <1>1
    <2> QED
      BY <2>1, <1>2
  <1>4. \A x : x \in ToSet(r) <=> \E i \in m + 1 .. m + a : s[i] = x
    <2> TAKE x
    <2>1. x \in ToSet(r) <=> \E i \in 1 .. a : r[i] = x
      BY <1>1, ToSetIs
    <2> QED
      BY <2>1, <1>2, <1>3
  <1>5. ASSUME IsInjective(s), NEW i \in 1 .. a, NEW j \in 1 .. a, r[i] = r[j]
        PROVE  i = j
    <2>1. \A k, l \in 1 .. Len(s) : s[k] = s[l] => k = l
      BY <1>5, ToSetIs
    <2>2. m + i = m + j
      BY <1>2, <1>5, <2>1
    <2> QED
      BY <2>2
  <1>6. IsInjective(s) => IsInjective(r)
    BY <1>1, <1>5, ToSetIs
  <1> QED
    BY <1>1, <1>4, <1>6

\* a has the first n elements of a sequence without repetition, and b the others.
SplitAt(S, s, n, a, b) ==
    /\ a \in Seq(S) /\ a = SubSeq(s, 1, n) /\ Len(a) = n /\ IsInjective(a)
    /\ b \in Seq(S) /\ b = SubSeq(s, n + 1, Len(s)) /\ Len(b) = Len(s) - n /\ IsInjective(b)
    /\ ToSet(a) \cap ToSet(b) = {} /\ ToSet(a) \cup ToSet(b) = ToSet(s)

\* That is what SubSeq gives.
LEMMA CutSeq ==
    ASSUME NEW S, NEW s \in Seq(S), IsInjective(s), NEW n \in Nat, n <= Len(s)
    PROVE  \E a, b : SplitAt(S, s, n, a, b)
  <1>1. PICK l \in Nat : l = Len(s)
    BY LenProperties
  <1>2. \A i \in 1 .. l : s[i] \in S
    BY <1>1, ElementOfSeq
  <1>3. \E x \in Seq(S) : x = SubSeq(s, 1, n) /\ Len(x) = n /\ \A i \in 1 .. n : x[i] = s[0 + i]
    <2>1. \A i \in 1 .. n : s[i] \in S
      BY <1>1, <1>2
    <2>2. /\ SubSeq(s, 1, n) \in Seq(S) /\ Len(SubSeq(s, 1, n)) = IF 1 <= n THEN n - 1 + 1 ELSE 0
          /\ \A i \in 1 .. n - 1 + 1 : SubSeq(s, 1, n)[i] = s[1 + i - 1]
      BY <2>1, SubSeqProperties
    <2>3. PICK x \in Seq(S) : x = SubSeq(s, 1, n) /\ Len(x) = (IF 1 <= n THEN n - 1 + 1 ELSE 0)
                              /\ \A i \in 1 .. n - 1 + 1 : x[i] = s[1 + i - 1]
      BY <2>2, Zenon
    <2>4. n - 1 + 1 = n /\ \A i \in 1 .. n : 1 + i - 1 = 0 + i
      OBVIOUS
    <2>5. Len(x) = n /\ \A i \in 1 .. n : x[i] = s[0 + i]
      BY <2>3, <2>4
    <2> QED
      BY <2>3, <2>5, Zenon
  <1>4. PICK a \in Seq(S) : a = SubSeq(s, 1, n) /\ Len(a) = n /\ \A i \in 1 .. n : a[i] = s[0 + i]
    BY <1>3
  <1>5. \E x \in Seq(S) : x = SubSeq(s, n + 1, l) /\ Len(x) = l - n
                          /\ \A i \in 1 .. l - n : x[i] = s[n + i]
    <2>1. \A i \in n + 1 .. l : s[i] \in S
      BY <1>1, <1>2
    <2>2. /\ SubSeq(s, n + 1, l) \in Seq(S)
          /\ Len(SubSeq(s, n + 1, l)) = IF n + 1 <= l THEN l - (n + 1) + 1 ELSE 0
          /\ \A i \in 1 .. l - (n + 1) + 1 : SubSeq(s, n + 1, l)[i] = s[(n + 1) + i - 1]
      BY <2>1, SubSeqProperties
    <2>3. PICK x \in Seq(S) : x = SubSeq(s, n + 1, l)
                              /\ Len(x) = (IF n + 1 <= l THEN l - (n + 1) + 1 ELSE 0)
                              /\ \A i \in 1 .. l - (n + 1) + 1 : x[i] = s[(n + 1) + i - 1]
      BY <2>2, Zenon
    <2>4. l - (n + 1) + 1 = l - n /\ \A i \in 1 .. l - n : (n + 1) + i - 1 = n + i
      BY <1>1
    <2>5. Len(x) = l - n /\ \A i \in 1 .. l - n : x[i] = s[n + i]
      BY <1>1, <2>3, <2>4
    <2> QED
      BY <2>3, <2>5, Zenon
  <1>6. PICK b \in Seq(S) : b = SubSeq(s, n + 1, l) /\ Len(b) = l - n
                            /\ \A i \in 1 .. l - n : b[i] = s[n + i]
    BY <1>5
  <1>7. PartOf(s, 0, a) /\ PartOf(s, n, b)
    <2>1. n + (l - n) <= l /\ 0 + n <= l
      BY <1>1
    <2>2. /\ 0 + Len(a) <= Len(s) /\ n + Len(b) <= Len(s)
          /\ 1 .. Len(a) = 1 .. n /\ 1 .. Len(b) = 1 .. l - n
      BY <1>1, <1>4, <1>6, <2>1, Zenon
    <2> QED
      BY <1>4, <1>6, <2>2, Zenon DEF PartOf
  <1>8. /\ \A x : x \in ToSet(a) <=> \E i \in 0 + 1 .. 0 + Len(a) : s[i] = x
        /\ IsInjective(a)
    BY <1>7, PartSeq
  <1>9. /\ \A x : x \in ToSet(b) <=> \E i \in n + 1 .. n + Len(b) : s[i] = x
        /\ IsInjective(b)
    BY <1>7, PartSeq
  <1>10. \A x : x \in ToSet(s) <=> \E i \in 1 .. l : s[i] = x
    BY <1>1, ToSetIs
  <1>11. \A i, j \in 1 .. l : s[i] = s[j] => i = j
    BY <1>1, ToSetIs
  <1>12. /\ 0 + 1 .. 0 + Len(a) = 1 .. n /\ n + 1 .. n + Len(b) = n + 1 .. l
         /\ \A i \in 1 .. n : i \in 1 .. l
         /\ \A i \in n + 1 .. l : i \in 1 .. l
         /\ \A i \in 1 .. l : i \in 1 .. n \/ i \in n + 1 .. l
         /\ \A i \in 1 .. n, j \in n + 1 .. l : i # j
    BY <1>1, <1>4, <1>6
  <1>13. ToSet(a) \cap ToSet(b) = {}
    BY <1>8, <1>9, <1>11, <1>12
  <1>14. ToSet(a) \cup ToSet(b) = ToSet(s)
    BY <1>8, <1>9, <1>10, <1>12
  <1>15. Len(a) = n /\ Len(b) = Len(s) - n /\ b = SubSeq(s, n + 1, Len(s))
    BY <1>1, <1>4, <1>6
  <1>16. SplitAt(S, s, n, a, b)
    BY <1>4, <1>8, <1>9, <1>13, <1>14, <1>15, Zenon DEF SplitAt
  <1> QED
    BY <1>16

\* A sequence without repetition and its first element.
LEMMA PopSeq ==
    ASSUME NEW S, NEW s \in Seq(S), s # <<>>
    PROVE  /\ Head(s) \in S /\ Head(s) \in ToSet(s)
           /\ Tail(s) \in Seq(S) /\ Len(Tail(s)) = Len(s) - 1 /\ Len(s) >= 1
           /\ IsInjective(s) =>
                 IsInjective(Tail(s)) /\ ToSet(Tail(s)) = ToSet(s) \ {Head(s)}
  <1>1. /\ Len(s) \in Nat \ {0} /\ Head(s) = s[1]
        /\ Head(s) \in S /\ Tail(s) \in Seq(S) /\ Len(Tail(s)) = Len(s) - 1
        /\ \A i \in 1 .. Len(Tail(s)) : Tail(s)[i] = s[i + 1]
    BY HeadTailProperties, EmptySeq
  <1>2. Head(s) \in ToSet(s)
    <2>1. 1 \in 1 .. Len(s)
      BY <1>1
    <2> QED
      BY <1>1, <2>1, ToSetIs
  <1>3. ASSUME IsInjective(s)
        PROVE  IsInjective(Tail(s)) /\ ToSet(Tail(s)) = ToSet(s) \ {Head(s)}
    <2>1. PICK r \in Seq(S) : r = Tail(s) /\ Len(r) = Len(s) - 1 /\ \A i \in 1 .. Len(r) : r[i] = s[i + 1]
      BY <1>1
    <2>2. PartOf(s, 1, r)
      BY <1>1, <2>1 DEF PartOf
    <2>3. /\ IsInjective(r)
          /\ \A x : x \in ToSet(r) <=> \E i \in 1 + 1 .. 1 + Len(r) : s[i] = x
      BY <1>3, <2>2, PartSeq
    <2>4. \A x : x \in ToSet(s) <=> \E i \in 1 .. Len(s) : s[i] = x
      BY ToSetIs
    <2>5. \A i, j \in 1 .. Len(s) : s[i] = s[j] => i = j
      BY <1>3, ToSetIs
    <2>6. /\ \A i \in 1 .. Len(s) : i = 1 \/ i \in 1 + 1 .. 1 + Len(r)
          /\ 1 \in 1 .. Len(s) /\ \A i \in 1 + 1 .. 1 + Len(r) : i \in 1 .. Len(s) /\ i # 1
      BY <1>1, <2>1
    <2>7. \A x : x \in ToSet(r) <=> x \in ToSet(s) /\ x # Head(s)
      BY <1>1, <2>3, <2>4, <2>5, <2>6
    <2> QED
      BY <2>1, <2>3, <2>7
  <1> QED
    BY <1>1, <1>2, <1>3

\* A sequence turned around.
LEMMA ReverseSeq ==
    ASSUME NEW S, NEW s \in Seq(S)
    PROVE  /\ Reverse(s) \in Seq(S) /\ Len(Reverse(s)) = Len(s)
           /\ ToSet(Reverse(s)) = ToSet(s)
           /\ IsInjective(s) => IsInjective(Reverse(s))
  <1> DEFINE r == Reverse(s)
  <1>1. Len(s) \in Nat /\ \A i \in 1 .. Len(s) : s[i] \in S
    BY LenProperties, ElementOfSeq
  <1>2. PICK n \in Nat : n = Len(s)
    BY <1>1
  <1>3. \A i \in 1 .. n : (n - i) + 1 \in 1 .. n /\ (n - ((n - i) + 1)) + 1 = i
    OBVIOUS
  <1>4. r = [i \in 1 .. n |-> s[(n - i) + 1]]
    BY <1>2 DEF Reverse
  <1>5. r \in [1 .. n -> S]
    BY <1>1, <1>2, <1>3, <1>4
  <1>6. r \in Seq(S) /\ Len(r) = n /\ \A i \in 1 .. n : r[i] = s[(n - i) + 1]
    BY <1>4, <1>5
  <1> HIDE DEF r
  <1>7. \A x : x \in ToSet(r) <=> x \in ToSet(s)
    <2>1. \A x : x \in ToSet(r) <=> \E i \in 1 .. n : r[i] = x
      BY <1>6, ToSetIs
    <2>2. \A x : x \in ToSet(s) <=> \E i \in 1 .. n : s[i] = x
      BY <1>2, ToSetIs
    <2>3. \A i \in 1 .. n : s[i] = r[(n - i) + 1]
      BY <1>3, <1>6
    <2> QED
      BY <1>3, <1>6, <2>1, <2>2, <2>3
  <1>8. ASSUME IsInjective(s), NEW i \in 1 .. n, NEW j \in 1 .. n, r[i] = r[j]
        PROVE  i = j
    <2>1. (n - i) + 1 = (n - j) + 1
      <3>1. \A k, l \in 1 .. n : s[k] = s[l] => k = l
        BY <1>2, <1>8, ToSetIs
      <3> QED
        BY <1>3, <1>6, <1>8, <3>1
    <2> QED
      BY <2>1
  <1>9. IsInjective(s) => IsInjective(r)
    BY <1>6, <1>8, ToSetIs
  <1> QED
    BY <1>2, <1>6, <1>7, <1>9 DEF r

\* A sequence without repetition is as long as the set of its elements is large.
LEMMA InjectiveCount ==
    ASSUME NEW S, NEW s \in Seq(S), IsInjective(s)
    PROVE  IsFiniteSet(ToSet(s)) /\ Cardinality(ToSet(s)) = Len(s)
  <1>1. Len(s) \in Nat /\ s \in [1 .. Len(s) -> S] /\ DOMAIN s = 1 .. Len(s)
    BY LenProperties
  <1>2. IsFiniteSet(1 .. Len(s)) /\ Cardinality(1 .. Len(s)) = Len(s)
    BY <1>1, FS_Interval
  <1>3. \A o : o \in ToSet(s) <=> \E i \in 1 .. Len(s) : s[i] = o
    BY ToSetIs
  <1>4. \A i, j \in 1 .. Len(s) : s[i] = s[j] => i = j
    BY ToSetIs
  <1>5. s \in [1 .. Len(s) -> ToSet(s)]
    BY <1>1, <1>3
  <1>6. s \in Bijection(1 .. Len(s), ToSet(s))
    BY <1>3, <1>4, <1>5 DEF Bijection, Injection, Surjection, IsInjective
  <1>7. ExistsBijection(1 .. Len(s), ToSet(s))
    BY <1>6 DEF ExistsBijection
  <1> QED
    BY <1>2, <1>7, FS_Bijection

-----------------------------------------------------------------------------
(* The inductive invariant *)

\* The lock of the central cache is held from the start of a fetch to the
\* unlock, and while a span goes back.
LockInv == \A t \in Threads : (pc[t] \in {"span", "take", "giveback"}) <=> central = t

\* Thread t is inside fetch_from_centralcache.
Fetching(t) == pc[t] \in {"fetch", "span", "take"}

\* Thread t is inside tc_thread_init.
Starting(t) == pc[t] = "init" \/ (Fetching(t) /\ ~act[t].pop)

\* What is known of a thread at each place it can be: a list that is being fetched
\* for is empty and has room for what was asked, and one that tc_thread_init has
\* not come to is empty.
ThreadInv(t) ==
    /\ pc[t] = "return" <=> act[t].batch # <<>>
    /\ act[t].pop => Fetching(t)
    /\ \A d \in Classes : Starting(t) /\ d > act[t].cls => tl[t][d].objs = <<>>
    /\ \A d \in Classes : ~Starting(t) \/ d < act[t].cls => tl[t][d].max_length >= 1
    /\ pc[t] = "init" \/ Fetching(t) => tl[t][act[t].cls].objs = <<>>
    /\ Fetching(t) => act[t].num >= 1 /\ act[t].num <= tl[t][act[t].cls].max_length

\* What a thread that holds the lock knows of the span in its hand.
SpanInv(t) ==
    /\ pc[t] = "take" =>
          /\ act[t].span \in Spans /\ objs[act[t].span] # <<>>
          /\ objs_size[act[t].span] = act[t].cls
    /\ pc[t] = "giveback" => act[t].span \in Spans /\ objs_size[act[t].span] = 0

\* Free and referenced objects of a span add up to what it was cut into, and
\* obj_len is at least that.
CountInv(s) ==
    IF objs_size[s] = 0 THEN objs[s] = <<>> /\ obj_refcount[s] = 0
    ELSE /\ obj_refcount[s] + Len(objs[s]) = ObjsPerSpan[objs_size[s]]
         /\ obj_len[s] >= ObjsPerSpan[objs_size[s]]

\* Each block is in exactly one place.
Placed(o) == \E p \in Places : \A q \in Places : Holds(q, o) <=> q = p

PlaceInv ==
    /\ ListsSound
    /\ \A h \in held : Fits(h[1], h[2])
    /\ \A s \in unused \cup ToSet(pgcache) : objs_size[s] = 0
    /\ \A s \in Spans : \A o \in Cut(s) : Placed(o)

\* The links are two inverse functions, and a ring is of one colour.
Cycles(nx, pv, K) ==
    /\ nx \in [Spans -> Spans] /\ pv \in [Spans -> Spans]
    /\ \A s \in Spans : nx[pv[s]] = s /\ pv[nx[s]] = s /\ K[nx[s]] = K[s]

\* The colour of a span: its class, and whether it is on the side of the lists.
Colour(L) == [s \in Spans |-> <<objs_size[s], s \in L>>]

\* L has the spans of the rings on the side of the lists, those that no head pointer
\* leads to any more included.  The others say that they are idle.
Sides(L) ==
    /\ L \subseteq Spans
    /\ Cycles(next, prev, Colour(L))
    /\ \A s \in Spans : objs_size[s] = 0 => next[s] = s
    /\ \A s \in Spans \ L : objs_size[s] = 0 \/ loc[s] = "central_idle"
    /\ \A c \in Classes :
          /\ list[c] # NULL => list[c] \in L /\ objs_size[list[c]] = c
          /\ idle[c] # NULL => idle[c] \notin L /\ objs_size[idle[c]] = c
    /\ \A t \in Threads : pc[t] = "take" => act[t].span \in L

RingInv == \E L \in SUBSET Spans : Sides(L)

IInv ==
    /\ TypeOK /\ LockInv /\ CacheBounded /\ PlaceInv /\ RingInv
    /\ \A t \in Threads : ThreadInv(t) /\ SpanInv(t)
    /\ \A s \in Spans : CountInv(s)

-----------------------------------------------------------------------------
(* Rings of spans *)

\* Links in which s is alone; its prev may be missing.
Loose(nx, pv, s, K) ==
    /\ nx[s] = s /\ pv \in [Spans -> Spans \cup {NULL}] /\ pv[s] \in {s, NULL}
    /\ Cycles(nx, [pv EXCEPT ![s] = s], K)

\* What remove_span does to rings of one colour each, also when s is not on the ring
\* of the head: s is alone, and may change its colour.
LEMMA RemoveRing ==
    ASSUME NEW h \in Spans \cup {NULL}, NEW nx, NEW pv, NEW K, Cycles(nx, pv, K),
           NEW s \in Spans, NEW M, \A x \in Spans \ {s} : M[x] = K[x],
           NEW out, out = remove_span([head |-> h, next |-> nx, prev |-> pv], s)
    PROVE  /\ out = [head |-> out.head, next |-> out.next, prev |-> out.prev]
           /\ out.head = IF h # s THEN h ELSE IF nx[s] = s THEN NULL ELSE nx[s]
           /\ Loose(out.next, out.prev, s, M)
           /\ \A x \in Spans : nx[x] = x => out.next[x] = x
  <1>1. /\ nx \in [Spans -> Spans] /\ pv \in [Spans -> Spans]
        /\ \A x \in Spans : nx[pv[x]] = x /\ pv[nx[x]] = x /\ K[nx[x]] = K[x]
    BY DEF Cycles
  <1> DEFINE r == [head |-> h, next |-> nx, prev |-> pv]
             n == nx[s]
             p == pv[s]
  <1>2. n \in Spans /\ p \in Spans /\ NULL \notin Spans
    BY <1>1, NullAssumption
  <1>3. CASE n = s
    <2>1. p = s
      BY <1>1, <1>3
    <2>2. out = [head |-> IF h = s THEN NULL ELSE h, next |-> nx,
                 prev |-> IF h = s THEN pv ELSE [pv EXCEPT ![s] = NULL]]
      BY <1>3 DEF remove_span
    <2>3. /\ out.next = nx /\ out.head = (IF h = s THEN NULL ELSE h)
          /\ out.prev = IF h = s THEN pv ELSE [pv EXCEPT ![s] = NULL]
      BY <2>2
    <2>4. /\ out.prev \in [Spans -> Spans \cup {NULL}] /\ out.prev[s] \in {s, NULL}
          /\ [out.prev EXCEPT ![s] = s] = pv
      <3>1. pv[s] = s /\ pv = [pv EXCEPT ![s] = s]
        BY <1>1, <2>1
      <3>2. CASE h = s
        BY <1>1, <2>3, <3>1, <3>2
      <3>3. CASE h # s
        <4>1. out.prev = [pv EXCEPT ![s] = NULL]
          BY <2>3, <3>3
        <4> QED
          BY <1>1, <3>1, <4>1
      <3> QED
        BY <3>2, <3>3
    <2>5. \A x \in Spans : M[nx[x]] = M[x]
      <3> TAKE x \in Spans
      <3>1. CASE x = s
        BY <1>3, <3>1
      <3>2. CASE x # s
        <4>1. nx[x] # s
          BY <1>1, <2>1, <3>2
        <4> QED
          BY <1>1, <3>2, <4>1
      <3> QED
        BY <3>1, <3>2
    <2>6. Loose(nx, out.prev, s, M)
      BY <1>1, <1>3, <2>4, <2>5 DEF Loose, Cycles
    <2> QED
      BY <1>3, <2>2, <2>3, <2>6
  <1>4. CASE n # s
    <2>1. p # s
      BY <1>1, <1>4
    <2> DEFINE nn == [nx EXCEPT ![p] = n, ![s] = s]
               pp == [pv EXCEPT ![n] = p, ![s] = s]
               hh == IF h = s THEN n ELSE h
    <2>2. out = [head |-> hh, next |-> nn, prev |-> pp]
      BY <1>4 DEF remove_span, Unlink
    <2>3. out.next = nn /\ out.prev = pp /\ out.head = hh
      <3> HIDE DEF hh, nn, pp
      <3> QED
        BY <2>2
    <2>4. /\ nn \in [Spans -> Spans] /\ pp \in [Spans -> Spans] /\ nn[s] = s /\ pp[s] = s
          /\ nn[p] = n /\ pp[n] = p
          /\ \A x \in Spans : x # s /\ x # p => nn[x] = nx[x]
          /\ \A x \in Spans : x # s /\ x # n => pp[x] = pv[x]
      BY <1>1, <1>2, <1>4, <2>1
    <2>5. [pp EXCEPT ![s] = s] = pp
      BY <2>4
    <2> HIDE DEF nn, pp
    <2>6. \A x \in Spans : nn[pp[x]] = x /\ pp[nn[x]] = x
      BY <1>1, <1>2, <1>4, <2>1, <2>4
    <2>7. \A x \in Spans : M[nn[x]] = M[x]
      <3> TAKE x \in Spans
      <3>1. K[n] = K[s] /\ K[p] = K[s]
        BY <1>1
      <3>2. CASE x = s
        BY <2>4, <3>2
      <3>3. CASE x = p
        BY <1>2, <1>4, <2>1, <2>4, <3>1, <3>3
      <3>4. CASE x # s /\ x # p
        <4>1. nx[x] # s
          BY <1>1, <3>4
        <4> QED
          BY <1>1, <2>4, <3>4, <4>1
      <3> QED
        BY <3>2, <3>3, <3>4
    <2>8. Loose(nn, pp, s, M)
      BY <2>4, <2>5, <2>6, <2>7 DEF Loose, Cycles
    <2>9. \A x \in Spans : nx[x] = x => nn[x] = x
      BY <1>1, <1>2, <2>1, <2>4
    <2> QED
      BY <1>4, <2>2, <2>3, <2>8, <2>9
  <1> QED
    BY <1>3, <1>4

\* spanlist_push of a span that is alone, to the ring of a head of its colour.
LEMMA PushRing ==
    ASSUME NEW h \in Spans \cup {NULL}, NEW nx, NEW pv, NEW s \in Spans, NEW K,
           Loose(nx, pv, s, K), h # NULL => K[h] = K[s],
           NEW in, in = spanlist_push([head |-> h, next |-> nx, prev |-> pv], s)
    PROVE  /\ in = [head |-> in.head, next |-> in.next, prev |-> in.prev]
           /\ in.head = s /\ Cycles(in.next, in.prev, K)
           /\ \A x \in Spans : nx[x] = x /\ x # s /\ x # h => in.next[x] = x
  <1> DEFINE pw == [pv EXCEPT ![s] = s]
  <1>1. /\ nx \in [Spans -> Spans] /\ pv \in [Spans -> Spans \cup {NULL}]
        /\ nx[s] = s /\ pv[s] \in {s, NULL} /\ NULL \notin Spans
        /\ \A x \in Spans : K[nx[x]] = K[x]
    BY NullAssumption DEF Loose, Cycles
  <1>2. /\ pw \in [Spans -> Spans] /\ pw[s] = s /\ \A x \in Spans : x # s => pw[x] = pv[x]
        /\ \A x \in Spans : nx[pw[x]] = x /\ pw[nx[x]] = x
    BY <1>1 DEF Loose, Cycles
  <1> HIDE DEF pw
  <1> DEFINE p == IF h = NULL THEN s ELSE IF pv[h] = NULL THEN h ELSE pv[h]
             n == IF h = NULL THEN s ELSE h
             nn == [nx EXCEPT ![s] = n, ![p] = s]
             pp == [pv EXCEPT ![s] = p, ![n] = s]
  <1>3. in = [head |-> s, next |-> nn, prev |-> pp]
    BY DEF spanlist_push
  <1>4. CASE h = NULL \/ h = s
    <2>1. p = s /\ n = s
      BY <1>1, <1>4
    <2>2. nn = nx /\ pp = pw
      BY <1>1, <1>2, <2>1
    <2>3. Cycles(nx, pw, K)
      BY <1>1, <1>2 DEF Cycles
    <2> HIDE DEF nn, pp
    <2> QED
      BY <1>3, <2>2, <2>3
  <1>5. CASE h # NULL /\ h # s
    <2>1. h \in Spans /\ pv[h] = pw[h] /\ p = pw[h] /\ n = h /\ p \in Spans
      BY <1>1, <1>2, <1>5
    <2>2. p # s
      BY <1>1, <1>2, <1>5, <2>1
    <2>3. /\ nn \in [Spans -> Spans] /\ nn[s] = h /\ nn[p] = s
          /\ \A x \in Spans : x # s /\ x # p => nn[x] = nx[x]
      BY <1>1, <2>1, <2>2
    <2>4. /\ pp \in [Spans -> Spans] /\ pp[s] = p /\ pp[h] = s
          /\ \A x \in Spans : x # s /\ x # h => pp[x] = pw[x]
      BY <1>1, <1>2, <1>5, <2>1, <2>2
    <2>5. nx[p] = h
      BY <1>2, <2>1
    <2> HIDE DEF nn, pp, p, n
    <2>6. \A x \in Spans : nn[pp[x]] = x /\ pp[nn[x]] = x
      BY <1>1, <1>2, <1>5, <2>1, <2>2, <2>3, <2>4, <2>5
    <2>7. \A x \in Spans : K[nn[x]] = K[x]
      BY <1>1, <1>5, <2>1, <2>3, <2>5
    <2>8. Cycles(nn, pp, K)
      BY <2>3, <2>4, <2>6, <2>7 DEF Cycles
    <2>9. \A x \in Spans : nx[x] = x /\ x # s /\ x # h => nn[x] = x
      BY <2>1, <2>3, <2>5
    <2> QED
      BY <1>3, <2>8, <2>9
  <1> QED
    BY <1>4, <1>5

\* f is the table of the first n rounds of a walk.
WalkTable(h, nx, n, f) == f = [k \in 0 .. n |-> IF k = 0 THEN h ELSE nx[f[k - 1]]]

\* There is such a table, by induction over the number of rounds.
LEMMA WalkExists ==
    ASSUME NEW h, NEW nx, NEW n \in Nat
    PROVE  \E f : WalkTable(h, nx, n, f)
  <1> DEFINE S == {c \in Nat : \E f : WalkTable(h, nx, c, f)}
  <1>1. 0 \in S
    <2> DEFINE f == [k \in 0 .. 0 |-> h]
    <2>1. f = [k \in 0 .. 0 |-> IF k = 0 THEN h ELSE nx[f[k - 1]]]
      OBVIOUS
    <2> HIDE DEF f
    <2>2. WalkTable(h, nx, 0, f)
      BY <2>1 DEF WalkTable
    <2> QED
      BY <2>2
  <1>2. ASSUME NEW c \in Nat, c \in S
        PROVE  c + 1 \in S
    <2>1. PICK f : WalkTable(h, nx, c, f)
      BY <1>2
    <2> DEFINE g == [k \in 0 .. c + 1 |-> IF k <= c THEN f[k] ELSE nx[f[k - 1]]]
    <2>2. ASSUME NEW k \in 0 .. c + 1
          PROVE  g[k] = IF k = 0 THEN h ELSE nx[g[k - 1]]
      <3>1. CASE k = 0
        BY <2>1, <3>1 DEF WalkTable
      <3>2. CASE k # 0
        <4>1. k - 1 \in 0 .. c /\ k - 1 \in 0 .. c + 1 /\ k - 1 <= c
          BY <3>2
        <4>2. g[k - 1] = f[k - 1]
          BY <4>1
        <4>3. k <= c => f[k] = nx[f[k - 1]]
          BY <2>1, <3>2 DEF WalkTable
        <4>4. g[k] = nx[f[k - 1]]
          BY <4>3
        <4> QED
          BY <3>2, <4>2, <4>4
      <3> QED
        BY <3>1, <3>2
    <2>3. g = [k \in 0 .. c + 1 |-> IF k = 0 THEN h ELSE nx[g[k - 1]]]
      BY <2>2
    <2> HIDE DEF g
    <2>4. WalkTable(h, nx, c + 1, g)
      BY <2>3 DEF WalkTable
    <2> QED
      BY <2>4
  <1> HIDE DEF S
  <1>3. Nat \subseteq S
    BY <1>1, <1>2, NatSetInduction
  <1> QED
    BY <1>3 DEF S

\* A walk never leaves a set that the links do not leave.
LEMMA WalkStays ==
    ASSUME NEW D, NEW h \in D, NEW nx, \A x \in D : nx[x] \in D
    PROVE  /\ DOMAIN Walk(h, nx) = 0 .. Cardinality(Spans) /\ Cardinality(Spans) \in Nat
           /\ \A k \in 0 .. Cardinality(Spans) : Walk(h, nx)[k] \in D
  <1>1. PICK n \in Nat : n = Cardinality(Spans)
    BY CacheAssumption, FS_CardinalityType
  <1> DEFINE f == Walk(h, nx)
             F(g) == g = [k \in 0 .. n |-> IF k = 0 THEN h ELSE nx[g[k - 1]]]
  <1>2. \E g : F(g)
    <2>1. PICK g : WalkTable(h, nx, n, g)
      BY WalkExists
    <2>2. F(g)
      BY <2>1, Zenon DEF WalkTable
    <2> QED
      BY <2>2, Zenon
  <1>3. f = CHOOSE g : F(g)
    BY <1>1 DEF Walk
  <1>4. F(f)
    BY <1>2, <1>3
  <1> HIDE DEF f
  <1>5. /\ DOMAIN f = 0 .. n /\ f[0] = h
        /\ \A k \in 0 .. n : k # 0 => f[k] = nx[f[k - 1]]
    BY <1>4
  <1> DEFINE S == {c \in Nat : c <= n => f[c] \in D}
  <1>6. 0 \in S
    BY <1>5
  <1>7. ASSUME NEW c \in Nat, c \in S
        PROVE  c + 1 \in S
    <2> SUFFICES ASSUME c + 1 <= n
                 PROVE  f[c + 1] \in D
      OBVIOUS
    <2>1. c <= n /\ c + 1 \in 0 .. n /\ c + 1 # 0 /\ (c + 1) - 1 = c
      OBVIOUS
    <2>2. f[c + 1] = nx[f[c]]
      BY <1>5, <2>1
    <2>3. f[c] \in D
      BY <1>7, <2>1
    <2> QED
      BY <2>2, <2>3
  <1> HIDE DEF S
  <1>8. Nat \subseteq S
    BY <1>6, <1>7, NatSetInduction
  <1>9. \A k \in 0 .. n : f[k] \in D
    BY <1>8 DEF S
  <1> QED
    BY <1>1, <1>5, <1>9 DEF f

\* So a ring lies in every set that has its head and that the links do not leave.
LEMMA RingStays ==
    ASSUME NEW D, NEW h, h # NULL => h \in D, NEW nx, \A x \in D : nx[x] \in D
    PROVE  Ring(h, nx) \subseteq D
  <1>1. CASE h = NULL
    BY <1>1 DEF Ring
  <1>2. CASE h # NULL
    <2>1. /\ DOMAIN Walk(h, nx) = 0 .. Cardinality(Spans)
          /\ \A k \in 0 .. Cardinality(Spans) : Walk(h, nx)[k] \in D
      BY <1>2, WalkStays
    <2> QED
      BY <1>2, <2>1 DEF Ring
  <1> QED
    BY <1>1, <1>2

-----------------------------------------------------------------------------
(* The loop of return_objs_to_centralcache *)

\* The fields that the loop changes, before it.
Before == [objs |-> objs, obj_len |-> obj_len, obj_refcount |-> obj_refcount]

\* f is the table of the first n rounds of the loop.
ReturnTable(batch, n, f) ==
    f = [k \in 0 .. n |-> IF k = 0 THEN Before ELSE ReturnObj(f[k - 1], batch[k])]

\* There is such a table, by induction over the number of rounds.
LEMMA ReturnExists ==
    ASSUME NEW batch, NEW n \in Nat
    PROVE  \E f : ReturnTable(batch, n, f)
  <1> DEFINE S == {c \in Nat : \E f : ReturnTable(batch, c, f)}
  <1>1. 0 \in S
    <2> DEFINE f == [k \in 0 .. 0 |-> Before]
    <2>1. f = [k \in 0 .. 0 |-> IF k = 0 THEN Before ELSE ReturnObj(f[k - 1], batch[k])]
      OBVIOUS
    <2> HIDE DEF f
    <2>2. ReturnTable(batch, 0, f)
      BY <2>1 DEF ReturnTable
    <2> QED
      BY <2>2
  <1>2. ASSUME NEW c \in Nat, c \in S
        PROVE  c + 1 \in S
    <2>1. PICK f : ReturnTable(batch, c, f)
      BY <1>2
    <2> DEFINE g == [k \in 0 .. c + 1 |-> IF k <= c THEN f[k] ELSE ReturnObj(f[k - 1], batch[k])]
    <2>2. ASSUME NEW k \in 0 .. c + 1
          PROVE  g[k] = IF k = 0 THEN Before ELSE ReturnObj(g[k - 1], batch[k])
      <3>1. CASE k = 0
        BY <2>1, <3>1 DEF ReturnTable
      <3>2. CASE k # 0
        <4>1. k - 1 \in 0 .. c /\ k - 1 \in 0 .. c + 1 /\ k - 1 <= c
          BY <3>2
        <4>2. g[k - 1] = f[k - 1]
          BY <4>1
        <4>3. k <= c => f[k] = ReturnObj(f[k - 1], batch[k])
          BY <2>1, <3>2 DEF ReturnTable
        <4>4. g[k] = ReturnObj(f[k - 1], batch[k])
          BY <4>3
        <4> QED
          BY <3>2, <4>2, <4>4
      <3> QED
        BY <3>1, <3>2
    <2>3. g = [k \in 0 .. c + 1 |-> IF k = 0 THEN Before ELSE ReturnObj(g[k - 1], batch[k])]
      BY <2>2
    <2> HIDE DEF g
    <2>4. ReturnTable(batch, c + 1, g)
      BY <2>3 DEF ReturnTable
    <2> QED
      BY <2>4
  <1> HIDE DEF S
  <1>3. Nat \subseteq S
    BY <1>1, <1>2, NatSetInduction
  <1> QED
    BY <1>3 DEF S

\* The loop's result is the last entry of such a table.
LEMMA ReturnAllIs ==
    ASSUME NEW batch, Len(batch) \in Nat
    PROVE  \E f : ReturnTable(batch, Len(batch), f) /\ ReturnAll(batch) = f[Len(batch)]
  <1>1. PICK n \in Nat : n = Len(batch)
    OBVIOUS
  <1> DEFINE F(g) == g = [k \in 0 .. n |-> IF k = 0 THEN Before ELSE ReturnObj(g[k - 1], batch[k])]
             f == CHOOSE g : F(g)
  <1>2. \E g : F(g)
    <2>1. PICK g : ReturnTable(batch, n, g)
      BY ReturnExists
    <2>2. F(g)
      BY <2>1, Zenon DEF ReturnTable
    <2> QED
      BY <2>2, Zenon
  <1>3. F(f)
    BY <1>2
  <1>4. ReturnAll(batch) = f[n]
    BY <1>1 DEF ReturnAll, Before
  <1> HIDE DEF f
  <1> QED
    BY <1>1, <1>3, <1>4, Zenon DEF ReturnTable

\* After k rounds: each of the first k objects of the batch is on its span's free
\* list, without repetition, for a reference less and a unit of obj_len more.
BackAt(batch, k, ob, le, re, x) ==
    /\ IsInjective(ob[x])
    /\ \A o : o \in ToSet(ob[x]) <=>
                 o \in ToSet(objs[x]) \/ \E j \in 1 .. k : batch[j] = o /\ o[1] = x
    /\ re[x] + Len(ob[x]) = obj_refcount[x] + Len(objs[x])
    /\ le[x] + re[x] = obj_len[x] + obj_refcount[x]

Back(batch, k, ob, le, re) ==
    /\ ob \in [Spans -> Seq(Objects)] /\ le \in [Spans -> Nat] /\ re \in [Spans -> Int]
    /\ \A x \in Spans : BackAt(batch, k, ob, le, re, x)

\* One round.
LEMMA ReturnRound ==
    ASSUME objs \in [Spans -> Seq(Objects)],
           obj_len \in [Spans -> Nat], obj_refcount \in [Spans -> Nat],
           NEW batch \in Seq(Objects), IsInjective(batch),
           \A s \in Spans : ToSet(objs[s]) \cap ToSet(batch) = {},
           NEW k \in Nat, k + 1 <= Len(batch), NEW ob, NEW le, NEW re, Back(batch, k, ob, le, re),
           NEW o, o = batch[k + 1]
    PROVE  Back(batch, k + 1, [ob EXCEPT ![o[1]] = <<o>> \o @],
                              [le EXCEPT ![o[1]] = @ + 1], [re EXCEPT ![o[1]] = @ - 1])
  <1>1. Len(batch) \in Nat /\ k + 1 \in 1 .. Len(batch)
    BY LenProperties
  <1>2. o \in Objects /\ o \in ToSet(batch)
    <2>1. o \in ToSet(batch)
      BY <1>1, ToSetIs
    <2>2. ToSet(batch) \subseteq Objects
      BY ToSetIs
    <2> QED
      BY <2>1, <2>2
  <1>3. PICK s \in Spans : s = o[1]
    BY <1>2 DEF Objects
  <1>4. \A j \in 1 .. k : j \in 1 .. Len(batch) /\ batch[j] # o
    <2>1. \A i, j \in 1 .. Len(batch) : batch[i] = batch[j] => i = j
      BY ToSetIs
    <2> QED
      BY <1>1, <2>1
  <1>5. ob \in [Spans -> Seq(Objects)] /\ le \in [Spans -> Nat] /\ re \in [Spans -> Int]
    BY DEF Back
  <1>6. ASSUME NEW x \in Spans
        PROVE  BackAt(batch, k, ob, le, re, x)
    BY DEF Back
  <1>7. PICK w \in Seq(Objects) : w = ob[s]
    BY <1>5
  <1>8. o \notin ToSet(w) /\ IsInjective(w)
    <2>1. IsInjective(ob[s]) /\ \A y : y \in ToSet(ob[s]) <=>
                 y \in ToSet(objs[s]) \/ \E j \in 1 .. k : batch[j] = y /\ y[1] = s
      BY <1>6 DEF BackAt
    <2>2. o \notin ToSet(objs[s])
      BY <1>2
    <2> QED
      BY <1>4, <1>7, <2>1, <2>2
  <1>9. PICK z : z = <<o>> \o w
    OBVIOUS
  <1>10. /\ z \in Seq(Objects) /\ Len(z) = Len(w) + 1
         /\ ToSet(z) = {o} \cup ToSet(w) /\ IsInjective(z)
    <2>1. Pushed(Objects, w, o, z)
      BY <1>2, <1>9, PushSeq
    <2> QED
      BY <1>8, <2>1 DEF Pushed
  <1> DEFINE obb == [ob EXCEPT ![o[1]] = <<o>> \o @]
             lee == [le EXCEPT ![o[1]] = @ + 1]
             ree == [re EXCEPT ![o[1]] = @ - 1]
  <1>11. obb = [ob EXCEPT ![s] = z] /\ lee = [le EXCEPT ![s] = le[s] + 1] /\ ree = [re EXCEPT ![s] = re[s] - 1]
    BY <1>3, <1>5, <1>7, <1>9
  <1> HIDE DEF obb, lee, ree
  <1>12. obb \in [Spans -> Seq(Objects)] /\ lee \in [Spans -> Nat] /\ ree \in [Spans -> Int]
    <2>1. le[s] + 1 \in Nat /\ re[s] - 1 \in Int
      BY <1>5
    <2>2. obb \in [Spans -> Seq(Objects)]
      BY <1>5, <1>10, <1>11
    <2>3. lee \in [Spans -> Nat]
      BY <1>5, <1>11, <2>1
    <2>4. ree \in [Spans -> Int]
      BY <1>5, <1>11, <2>1
    <2> QED
      BY <2>2, <2>3, <2>4
  <1>13. obb[s] = z /\ lee[s] = le[s] + 1 /\ ree[s] = re[s] - 1
    BY <1>5, <1>11
  <1>14. \A x \in Spans : x # s => obb[x] = ob[x] /\ lee[x] = le[x] /\ ree[x] = re[x]
    BY <1>5, <1>11
  <1>15. ASSUME NEW x \in Spans
         PROVE  BackAt(batch, k + 1, obb, lee, ree, x)
    <2>1. /\ IsInjective(ob[x])
          /\ \A y : y \in ToSet(ob[x]) <=>
                       y \in ToSet(objs[x]) \/ \E j \in 1 .. k : batch[j] = y /\ y[1] = x
      BY <1>6 DEF BackAt
    <2>2. /\ re[x] + Len(ob[x]) = obj_refcount[x] + Len(objs[x])
          /\ le[x] + re[x] = obj_len[x] + obj_refcount[x]
      BY <1>6 DEF BackAt
    <2>3. \A y : (\E j \in 1 .. k + 1 : batch[j] = y /\ y[1] = x) <=>
                    (\E j \in 1 .. k : batch[j] = y /\ y[1] = x) \/ (y = o /\ s = x)
      <3>1. k + 1 \in 1 .. k + 1 /\ \A j \in 1 .. k + 1 : j = k + 1 \/ j \in 1 .. k
        OBVIOUS
      <3>2. \A j \in 1 .. k : j \in 1 .. k + 1
        OBVIOUS
      <3> QED
        BY <1>3, <3>1, <3>2
    <2>4. CASE x = s
      <3>1. \A y : y \in ToSet(obb[x]) <=>
                       y \in ToSet(objs[x]) \/ \E j \in 1 .. k + 1 : batch[j] = y /\ y[1] = x
        BY <1>7, <1>10, <1>13, <2>1, <2>3, <2>4
      <3>2. PICK l \in Nat, re1 \in Int, le1 \in Nat, a \in Nat, b \in Nat, d \in Nat :
               /\ l = Len(ob[x]) /\ re1 = re[x] /\ le1 = le[x]
               /\ a = obj_refcount[x] /\ b = Len(objs[x]) /\ d = obj_len[x]
        BY <1>5, LenProperties
      <3>3. ree[x] = re1 - 1 /\ Len(obb[x]) = l + 1 /\ lee[x] = le1 + 1
        BY <1>7, <1>10, <1>13, <2>4, <3>2
      <3>4. re1 + l = a + b /\ le1 + re1 = d + a
        BY <2>2, <3>2
      <3>5. (re1 - 1) + (l + 1) = a + b /\ (le1 + 1) + (re1 - 1) = d + a
        BY <3>4
      <3>6. /\ ree[x] + Len(obb[x]) = obj_refcount[x] + Len(objs[x])
            /\ lee[x] + ree[x] = obj_len[x] + obj_refcount[x]
        BY <3>2, <3>3, <3>5
      <3> QED
        BY <1>10, <1>13, <2>4, <3>1, <3>6 DEF BackAt
    <2>5. CASE x # s
      BY <1>14, <2>1, <2>2, <2>3, <2>5 DEF BackAt
    <2> QED
      BY <2>4, <2>5
  <1>16. Back(batch, k + 1, obb, lee, ree)
    BY <1>12, <1>15 DEF Back
  <1> QED
    BY <1>16 DEF obb, lee, ree

\* The same for the record of the loop.
ReturnedUpTo(batch, k, r) == Back(batch, k, r.objs, r.obj_len, r.obj_refcount)

\* The whole loop.
LEMMA ReturnLoop ==
    ASSUME objs \in [Spans -> Seq(Objects)],
           obj_len \in [Spans -> Nat], obj_refcount \in [Spans -> Nat],
           \A s \in Spans : IsInjective(objs[s]),
           NEW batch \in Seq(Objects), IsInjective(batch),
           \A s \in Spans : ToSet(objs[s]) \cap ToSet(batch) = {}
    PROVE  ReturnedUpTo(batch, Len(batch), ReturnAll(batch))
  <1>1. PICK n \in Nat : n = Len(batch)
    BY LenProperties
  <1>2. PICK f : ReturnTable(batch, n, f) /\ ReturnAll(batch) = f[n]
    BY <1>1, ReturnAllIs
  <1>3. /\ f[0] = Before
        /\ \A k \in 0 .. n : k # 0 => f[k] = ReturnObj(f[k - 1], batch[k])
    BY <1>2 DEF ReturnTable
  <1> DEFINE S == {c \in Nat : c <= n => ReturnedUpTo(batch, c, f[c])}
  <1>4. 0 \in S
    <2>1. ReturnedUpTo(batch, 0, Before)
      <3>1. \A x \in Spans : obj_refcount[x] \in Nat /\ Len(objs[x]) \in Nat
        BY LenProperties
      <3>2. 1 .. 0 = {}
        OBVIOUS
      <3>3. /\ Before.objs = objs /\ Before.obj_len = obj_len /\ Before.obj_refcount = obj_refcount
        BY DEF Before
      <3>4. \A x \in Spans : BackAt(batch, 0, objs, obj_len, obj_refcount, x)
        BY <3>1, <3>2 DEF BackAt
      <3> QED
        BY <3>3, <3>4 DEF ReturnedUpTo, Back
    <2> QED
      BY <1>3, <2>1
  <1>5. ASSUME NEW c \in Nat, c \in S
        PROVE  c + 1 \in S
    <2> SUFFICES ASSUME c + 1 <= n
                 PROVE  ReturnedUpTo(batch, c + 1, f[c + 1])
      OBVIOUS
    <2>1. c <= n /\ c + 1 \in 0 .. n /\ c + 1 # 0 /\ (c + 1) - 1 = c
      OBVIOUS
    <2>2. f[c + 1] = ReturnObj(f[c], batch[c + 1])
      BY <1>3, <2>1
    <2>3. ReturnedUpTo(batch, c, f[c])
      BY <1>5, <2>1
    <2>4. ReturnedUpTo(batch, c + 1, ReturnObj(f[c], batch[c + 1]))
      <3>1. PICK r : r = f[c]
        OBVIOUS
      <3>2. PICK o : o = batch[c + 1]
        OBVIOUS
      <3>3. Back(batch, c + 1, [r.objs EXCEPT ![o[1]] = <<o>> \o @],
                 [r.obj_len EXCEPT ![o[1]] = @ + 1], [r.obj_refcount EXCEPT ![o[1]] = @ - 1])
        BY <1>1, <2>3, <3>1, <3>2, ReturnRound DEF ReturnedUpTo
      <3> QED
        BY <3>1, <3>2, <3>3 DEF ReturnedUpTo, ReturnObj
    <2> QED
      BY <2>2, <2>4
  <1> HIDE DEF S
  <1>6. Nat \subseteq S
    BY <1>4, <1>5, NatSetInduction
  <1>7. ReturnedUpTo(batch, n, f[n])
    BY <1>6 DEF S
  <1> QED
    BY <1>1, <1>2, <1>7

-----------------------------------------------------------------------------
(* Constants, blocks and places *)

ListType == [objs : Seq(Objects), objlen : Nat, max_length : Nat]
ActType == [cls : Classes, num : Nat, pop : BOOLEAN,
            batch : Seq(Objects), span : Spans \cup {NULL}]

\* What the assumptions say of the constants.
LEMMA Consts ==
    /\ Spans \subseteq Nat /\ NULL \notin Spans /\ NULL \notin Threads
    /\ Classes \subseteq Nat \ {0} /\ 1 \in Classes /\ Classes \subseteq Spans
    /\ NClasses \in Classes /\ \A c \in Classes : c <= NClasses /\ (c < NClasses => c + 1 \in Classes)
    /\ ObjsPerSpan \in [Classes -> Nat \ {0}] /\ MAXFETCHSIZE \in Nat \ {0}
    /\ MaxOps \in Nat /\ IsFiniteSet(Spans) /\ IsFiniteSet(Threads)
    /\ Idle \in ActType
  <1>1. 1 \in Classes /\ NClasses \in Classes
    BY CacheAssumption DEF Classes
  <1>2. /\ Classes \subseteq Nat \ {0}
        /\ \A c \in Classes : c <= NClasses /\ (c < NClasses => c + 1 \in Classes)
    BY CacheAssumption DEF Classes
  <1>3. Idle \in ActType
    BY <1>1, EmptyIs DEF Idle, Local, ActType
  <1> QED
    BY <1>1, <1>2, <1>3, CacheAssumption, NullAssumption

\* The blocks of a span.
LEMMA CutIs ==
    ASSUME objs_size \in [Spans -> {0} \cup Classes], NEW s \in Spans
    PROVE  \A o : o \in Cut(s) <=>
              /\ o \in Objects /\ o[1] = s
              /\ objs_size[s] = 0 => o[2] = 0
              /\ objs_size[s] # 0 => o[2] >= 1 /\ o[2] <= ObjsPerSpan[objs_size[s]]
  <1> TAKE o
  <1>1. CASE objs_size[s] = 0
    BY <1>1, Consts DEF Cut, Objects
  <1>2. CASE objs_size[s] # 0
    <2>1. PICK n \in Nat : n = ObjsPerSpan[objs_size[s]]
      BY <1>2, Consts
    <2>2. o \in Cut(s) <=> \E i \in 1 .. n : o = <<s, i>>
      BY <1>2, <2>1 DEF Cut
    <2> QED
      BY <1>2, <2>1, <2>2, Consts DEF Objects
  <1> QED
    BY <1>1, <1>2

\* The number of blocks of a carved span.
LEMMA CutCount ==
    ASSUME objs_size \in [Spans -> {0} \cup Classes], NEW s \in Spans, objs_size[s] # 0
    PROVE  IsFiniteSet(Cut(s)) /\ Cardinality(Cut(s)) = ObjsPerSpan[objs_size[s]]
  <1>1. PICK n \in Nat \ {0} : n = ObjsPerSpan[objs_size[s]]
    BY Consts
  <1> DEFINE f == [i \in 1 .. n |-> <<s, i>>]
  <1>2. \A o : o \in Cut(s) <=> \E i \in 1 .. n : o = <<s, i>>
    BY <1>1 DEF Cut
  <1>3. f \in Bijection(1 .. n, Cut(s))
    BY <1>2 DEF Bijection, Injection, Surjection, IsInjective
  <1>4. ExistsBijection(1 .. n, Cut(s))
    BY <1>3 DEF ExistsBijection
  <1>5. IsFiniteSet(1 .. n) /\ Cardinality(1 .. n) = n
    BY FS_Interval
  <1> QED
    BY <1>1, <1>4, <1>5, FS_Bijection

\* The places, and what it means for a block to be there.
PFree == <<"free", NULL>>
PHeld == <<"held", NULL>>
PHeap == <<"heap", NULL>>
PUnused == <<"unused", NULL>>
PCache(u) == <<"cache", u>>
PBatch(u) == <<"batch", u>>
PGive(u) == <<"giveback", u>>

AtFree(o) == o \in ToSet(objs[o[1]])
AtHeld(o) == \E h \in held : h[1] = o
AtHeap(o) == o[2] = 0 /\ o[1] \in ToSet(pgcache)
AtUnused(o) == o[2] = 0 /\ o[1] \in unused
AtCache(u, o) == \E c \in Classes : o \in ToSet(tl[u][c].objs)
AtBatch(u, o) == o \in ToSet(act[u].batch)
AtGive(u, o) == pc[u] = "giveback" /\ o = <<act[u].span, 0>>

\* The block is where it was.
SameAll(o) ==
    /\ AtFree(o)' <=> AtFree(o)
    /\ AtHeld(o)' <=> AtHeld(o)
    /\ AtHeap(o)' <=> AtHeap(o)
    /\ AtUnused(o)' <=> AtUnused(o)
    /\ \A u \in Threads : /\ AtCache(u, o)' <=> AtCache(u, o)
                          /\ AtBatch(u, o)' <=> AtBatch(u, o)
                          /\ AtGive(u, o)' <=> AtGive(u, o)

\* Every place is of one of seven kinds.
LEMMA PlaceKinds ==
    ASSUME NEW p \in Places
    PROVE  \/ p = PFree \/ p = PHeld \/ p = PHeap \/ p = PUnused
           \/ \E u \in Threads : p = PCache(u) \/ p = PBatch(u) \/ p = PGive(u)
  BY DEF Places, PFree, PHeld, PHeap, PUnused, PCache, PBatch, PGive

\* The kinds are places and differ.
LEMMA PlacesDiffer ==
    /\ PFree \in Places /\ PHeld \in Places /\ PHeap \in Places /\ PUnused \in Places
    /\ PFree # PHeld /\ PFree # PHeap /\ PFree # PUnused
    /\ PHeld # PHeap /\ PHeld # PUnused /\ PHeap # PUnused
    /\ \A u \in Threads :
          /\ PCache(u) \in Places /\ PBatch(u) \in Places /\ PGive(u) \in Places
          /\ PCache(u) \notin {PFree, PHeld, PHeap, PUnused}
          /\ PBatch(u) \notin {PFree, PHeld, PHeap, PUnused}
          /\ PGive(u) \notin {PFree, PHeld, PHeap, PUnused}
          /\ \A v \in Threads :
                /\ PCache(u) # PBatch(v) /\ PCache(u) # PGive(v) /\ PBatch(u) # PGive(v)
                /\ PCache(u) = PCache(v) => u = v
                /\ PBatch(u) = PBatch(v) => u = v
                /\ PGive(u) = PGive(v) => u = v
  BY DEF Places, PFree, PHeld, PHeap, PUnused, PCache, PBatch, PGive

\* Holds, kind by kind.
LEMMA HoldsIs ==
    ASSUME NEW o
    PROVE  /\ Holds(PFree, o) <=> AtFree(o)
           /\ Holds(PHeld, o) <=> AtHeld(o)
           /\ Holds(PHeap, o) <=> AtHeap(o)
           /\ Holds(PUnused, o) <=> AtUnused(o)
           /\ \A u \in Threads : /\ Holds(PCache(u), o) <=> AtCache(u, o)
                                 /\ Holds(PBatch(u), o) <=> AtBatch(u, o)
                                 /\ Holds(PGive(u), o) <=> AtGive(u, o)
  BY DEF Holds, AtFree, AtHeld, AtHeap, AtUnused, AtCache, AtBatch, AtGive,
         PFree, PHeld, PHeap, PUnused, PCache, PBatch, PGive

\* The same after a step.
LEMMA HoldsIsNext ==
    ASSUME NEW o
    PROVE  /\ Holds(PFree, o)' <=> AtFree(o)'
           /\ Holds(PHeld, o)' <=> AtHeld(o)'
           /\ Holds(PHeap, o)' <=> AtHeap(o)'
           /\ Holds(PUnused, o)' <=> AtUnused(o)'
           /\ \A u \in Threads : /\ Holds(PCache(u), o)' <=> AtCache(u, o)'
                                 /\ Holds(PBatch(u), o)' <=> AtBatch(u, o)'
                                 /\ Holds(PGive(u), o)' <=> AtGive(u, o)'
  BY DEF Holds, AtFree, AtHeld, AtHeap, AtUnused, AtCache, AtBatch, AtGive,
         PFree, PHeld, PHeap, PUnused, PCache, PBatch, PGive

\* A block that nothing moves stays in its one place.
LEMMA Stays ==
    ASSUME NEW o, Placed(o), SameAll(o)
    PROVE  Placed(o)'
  <1>1. \A p \in Places : Holds(p, o)' <=> Holds(p, o)
    BY PlaceKinds, HoldsIs, HoldsIsNext DEF SameAll
  <1> QED
    BY <1>1 DEF Placed

\* The block comes to no place but q.
Arrives(q, o) ==
    /\ AtFree(o)' => AtFree(o) \/ q = PFree
    /\ AtHeld(o)' => AtHeld(o) \/ q = PHeld
    /\ AtHeap(o)' => AtHeap(o) \/ q = PHeap
    /\ AtUnused(o)' => AtUnused(o) \/ q = PUnused
    /\ \A u \in Threads : /\ AtCache(u, o)' => AtCache(u, o) \/ q = PCache(u)
                          /\ AtBatch(u, o)' => AtBatch(u, o) \/ q = PBatch(u)
                          /\ AtGive(u, o)' => AtGive(u, o) \/ q = PGive(u)

\* The same for Holds.
LEMMA ArrivesIs ==
    ASSUME NEW o, NEW q, Arrives(q, o)
    PROVE  \A x \in Places : Holds(x, o)' => Holds(x, o) \/ x = q
  BY PlaceKinds, HoldsIs, HoldsIsNext DEF Arrives

\* A block that is taken from one place and put in another is in that one only.
LEMMA Moves ==
    ASSUME NEW o, Placed(o), NEW p \in Places, NEW q \in Places, Holds(p, o), Holds(q, o)',
           p # q => ~Holds(p, o)', Arrives(q, o)
    PROVE  Placed(o)'
  <1>1. \A x \in Places : Holds(x, o) <=> x = p
    BY DEF Placed
  <1>2. \A x \in Places : Holds(x, o)' => Holds(x, o) \/ x = q
    BY ArrivesIs
  <1>3. \A x \in Places : Holds(x, o)' <=> x = q
    BY <1>1, <1>2
  <1> QED
    BY <1>3 DEF Placed

\* A block that was nowhere and is put in a place.
LEMMA Appears ==
    ASSUME NEW o, NEW q \in Places, \A x \in Places : ~Holds(x, o), Holds(q, o)', Arrives(q, o)
    PROVE  Placed(o)'
  <1>1. \A x \in Places : Holds(x, o)' <=> x = q
    BY ArrivesIs
  <1> QED
    BY <1>1 DEF Placed

\* Only the blocks of the present cuts are anywhere.
LEMMA OnlyCut ==
    ASSUME PlaceInv, \A u \in Threads : SpanInv(u), NEW p \in Places, NEW o \in Objects, Holds(p, o)
    PROVE  o \in Cut(o[1])
  <1>1. PICK s \in Spans, i \in Nat : o = <<s, i>> /\ o[1] = s /\ o[2] = i
    BY DEF Objects
  <1>2. objs_size[s] = 0 /\ i = 0 => o \in Cut(s)
    BY <1>1 DEF Cut
  <1>3. CASE p = PFree
    BY <1>1, <1>3, HoldsIs DEF AtFree, PlaceInv, ListsSound
  <1>4. CASE p = PHeld
    BY <1>4, HoldsIs DEF AtHeld, PlaceInv, Fits
  <1>5. CASE p = PHeap \/ p = PUnused
    BY <1>1, <1>2, <1>5, HoldsIs DEF AtHeap, AtUnused, PlaceInv
  <1>6. ASSUME NEW u \in Threads, p = PCache(u)
        PROVE  o \in Cut(o[1])
    BY <1>6, HoldsIs DEF AtCache, PlaceInv, ListsSound, Fits
  <1>7. ASSUME NEW u \in Threads, p = PBatch(u)
        PROVE  o \in Cut(o[1])
    BY <1>7, HoldsIs DEF AtBatch, PlaceInv, ListsSound, Fits
  <1>8. ASSUME NEW u \in Threads, p = PGive(u)
        PROVE  o \in Cut(o[1])
    BY <1>1, <1>2, <1>8, HoldsIs DEF AtGive, SpanInv
  <1> QED
    BY <1>3, <1>4, <1>5, <1>6, <1>7, <1>8, PlaceKinds

-----------------------------------------------------------------------------
(* Frames: what a step leaves alone *)

\* A step of thread t does nothing to the other threads.
OthersSame(t) ==
    \A u \in Threads : u # t =>
        pc'[u] = pc[u] /\ act'[u] = act[u] /\ \A c \in Classes : tl'[u][c] = tl[u][c]

\* The lock stays as it is, is taken, or is released.
LEMMA LockStep ==
    ASSUME LockInv, NEW t \in Threads, OthersSame(t),
           \/ central' = central /\ (pc'[t] \in {"span", "take", "giveback"}
                                     <=> pc[t] \in {"span", "take", "giveback"})
           \/ central = NULL /\ central' = t /\ pc'[t] \in {"span", "take", "giveback"}
           \/ central = t /\ central' = NULL /\ pc'[t] \notin {"span", "take", "giveback"}
    PROVE  LockInv'
  <1> SUFFICES ASSUME NEW u \in Threads
               PROVE  (pc'[u] \in {"span", "take", "giveback"}) <=> central' = u
    BY DEF LockInv
  <1>1. CASE u = t
    BY <1>1, Consts DEF LockInv
  <1>2. CASE u # t
    <2>1. pc'[u] = pc[u]
      BY <1>2 DEF OthersSame
    <2> QED
      BY <1>2, <2>1, Consts DEF LockInv
  <1> QED
    BY <1>1, <1>2

\* While thread t has the lock, or nobody has, no other thread has a span in hand.
LEMMA LockAlone ==
    ASSUME LockInv, NEW t \in Threads, central \in {t, NULL}
    PROVE  \A u \in Threads : u # t => pc[u] \notin {"span", "take", "giveback"}
  BY Consts DEF LockInv

\* What is known of the other threads stays.
LEMMA ThreadStep ==
    ASSUME \A u \in Threads : ThreadInv(u), NEW t \in Threads, OthersSame(t), ThreadInv(t)',
           act \in [Threads -> ActType]
    PROVE  \A u \in Threads : ThreadInv(u)'
  <1> SUFFICES ASSUME NEW u \in Threads, u # t
               PROVE  ThreadInv(u)'
    OBVIOUS
  <1>1. pc'[u] = pc[u] /\ act'[u] = act[u] /\ \A c \in Classes : tl'[u][c] = tl[u][c]
    BY DEF OthersSame
  <1>2. act[u].cls \in Classes
    BY DEF ActType
  <1>3. ThreadInv(u)
    OBVIOUS
  <1> QED
    BY <1>1, <1>2, <1>3 DEF ThreadInv, Starting, Fetching

\* A step that writes one list of a thread.
OneList(t, c, v) ==
    /\ tl' \in [Threads -> [Classes -> ListType]] /\ tl'[t][c] = v
    /\ \A u \in Threads, d \in Classes : u # t \/ d # c => tl'[u][d] = tl[u][d]

\* That is what the assignment of one list does.
LEMMA SetList ==
    ASSUME tl \in [Threads -> [Classes -> ListType]], NEW t \in Threads, NEW c \in Classes,
           NEW v \in ListType, tl' = [tl EXCEPT ![t][c] = v]
    PROVE  OneList(t, c, v)
  BY DEF OneList

\* CacheBounded when one list is written.
LEMMA BoundedStep ==
    ASSUME CacheBounded, NEW t \in Threads, NEW c \in Classes, NEW v, OneList(t, c, v),
           v.objlen = Len(v.objs), v.objlen <= v.max_length
    PROVE  CacheBounded'
  <1> SUFFICES ASSUME NEW u \in Threads, NEW d \in Classes
               PROVE  tl'[u][d].objlen = Len(tl'[u][d].objs) /\ tl'[u][d].objlen <= tl'[u][d].max_length
    BY DEF CacheBounded
  <1>1. CASE u = t /\ d = c
    BY <1>1 DEF OneList
  <1>2. CASE u # t \/ d # c
    BY <1>2 DEF OneList, CacheBounded
  <1> QED
    BY <1>1, <1>2

\* A step that writes one thread's place and local variables.
OneThread(t, p, a) ==
    /\ pc' \in [Threads -> ThreadPC] /\ pc'[t] = p
    /\ act' \in [Threads -> ActType] /\ act'[t] = a
    /\ \A u \in Threads : u # t => pc'[u] = pc[u] /\ act'[u] = act[u]

\* That is what the two assignments do.
LEMMA SetThread ==
    ASSUME pc \in [Threads -> ThreadPC], act \in [Threads -> ActType], NEW t \in Threads,
           NEW p \in ThreadPC, NEW a \in ActType,
           pc' = [pc EXCEPT ![t] = p], act' = [act EXCEPT ![t] = a]
    PROVE  OneThread(t, p, a)
  BY DEF OneThread

\* A step that leaves the spans' free lists and classes alone, and does not touch the
\* span in a thread's hand.
LEMMA SpanFrame ==
    ASSUME \A u \in Threads : SpanInv(u), UNCHANGED <<objs, objs_size>>,
           \A u \in Threads : /\ pc'[u] = "take" => pc[u] = "take" /\ act'[u] = act[u]
                              /\ pc'[u] = "giveback" => pc[u] = "giveback" /\ act'[u] = act[u]
    PROVE  \A u \in Threads : SpanInv(u)'
  BY DEF SpanInv

\* A step that leaves the rings alone, for one side of them.
LEMMA SidesFrame ==
    ASSUME NEW L \in SUBSET Spans, Sides(L), UNCHANGED <<objs_size, rings>>,
           \A s \in Spans : objs_size[s] = 0 \/ loc'[s] = loc[s],
           \A u \in Threads : pc'[u] = "take" => act'[u].span \in L
    PROVE  RingInv'
  <1>1. Colour(L)' = Colour(L) /\ next' = next /\ prev' = prev /\ list' = list /\ idle' = idle
        /\ objs_size' = objs_size
    BY DEF Colour, rings
  <1>2. Sides(L)'
    BY <1>1 DEF Sides
  <1> QED
    BY <1>2 DEF RingInv

\* A step that leaves the rings and the spans in hand alone.
LEMMA RingFrame ==
    ASSUME RingInv, UNCHANGED <<objs_size, loc, rings>>,
           \A u \in Threads : pc'[u] = "take" => pc[u] = "take" /\ act'[u] = act[u]
    PROVE  RingInv'
  <1>1. PICK L \in SUBSET Spans : Sides(L)
    BY DEF RingInv
  <1> QED
    BY <1>1, SidesFrame DEF Sides

\* A step that leaves the fields of the spans alone.
LEMMA CountFrame ==
    ASSUME \A s \in Spans : CountInv(s), UNCHANGED <<objs, obj_len, obj_refcount, objs_size>>
    PROVE  \A s \in Spans : CountInv(s)'
  BY DEF CountInv

\* A step that moves no block.
LEMMA PlaceFrame ==
    ASSUME PlaceInv, UNCHANGED <<objs, objs_size, held, pgcache, unused>>,
           \A u \in Threads : /\ \A c \in Classes : tl'[u][c].objs = tl[u][c].objs
                              /\ act'[u].batch = act[u].batch
                              /\ act[u].batch # <<>> => act'[u].cls = act[u].cls
                              /\ pc[u] = "giveback" <=> pc'[u] = "giveback"
                              /\ pc[u] = "giveback" => act'[u] = act[u]
    PROVE  PlaceInv'
  <1>1. \A s : Cut(s)' = Cut(s)
    BY DEF Cut
  <1>2. \A o, c : Fits(o, c)' <=> Fits(o, c)
    BY <1>1 DEF Fits
  <1>3. ListsSound'
    <2>1. \A u \in Threads : act[u].batch = <<>> => ToSet(act[u].batch) = {}
      BY EmptyIs
    <2>2. \A u \in Threads : \A o \in ToSet(act[u].batch) : Fits(o, act'[u].cls)
      BY <2>1 DEF PlaceInv, ListsSound
    <2> QED
      BY <1>1, <1>2, <2>2 DEF PlaceInv, ListsSound
  <1>4. \A o : SameAll(o)
    BY DEF SameAll, AtFree, AtHeld, AtHeap, AtUnused, AtCache, AtBatch, AtGive
  <1>5. \A s \in Spans : \A o \in Cut(s) : Placed(o)'
    BY <1>4, Stays DEF PlaceInv
  <1>6. \A s \in unused \cup ToSet(pgcache) : objs_size[s] = 0
    BY DEF PlaceInv
  <1>7. \A h \in held : Fits(h[1], h[2])
    BY DEF PlaceInv
  <1> QED
    BY <1>1, <1>2, <1>3, <1>5, <1>6, <1>7 DEF PlaceInv

-----------------------------------------------------------------------------
(* Thread caches: steps without the central cache *)

\* The types, with the named record types.
LEMMA Types ==
    ASSUME TypeOK
    PROVE  /\ objs \in [Spans -> Seq(Objects)]
           /\ obj_len \in [Spans -> Nat] /\ obj_refcount \in [Spans -> Nat]
           /\ objs_size \in [Spans -> {0} \cup Classes]
           /\ pgcache \in Seq(Spans) /\ unused \subseteq Spans
           /\ central \in Threads \cup {NULL}
           /\ tl \in [Threads -> [Classes -> ListType]] /\ pc \in [Threads -> ThreadPC]
           /\ act \in [Threads -> ActType]
           /\ held \subseteq Objects \X ({0} \cup Classes) /\ ops \in 0 .. MaxOps
  BY DEF TypeOK, ListType, ActType

\* The slow start asks for an object at least, and for no more than the list may
\* hold from then on.
LEMMA FetchStarts ==
    ASSUME TypeOK, NEW t \in Threads, NEW c \in Classes, NEW l \in ListType, l.max_length >= 1,
           NEW pop \in BOOLEAN, fetch_from_centralcache(t, c, l, pop)
    PROVE  \E n \in Nat, m \in Nat :
              /\ n >= 1 /\ n <= m
              /\ OneList(t, c, [l EXCEPT !.max_length = m]) /\ l.max_length <= m
              /\ OneThread(t, "fetch", Local(c, n, pop, <<>>, NULL))
  <1> DEFINE opt == Lesser(MAXFETCHSIZE, l.max_length)
             grown == IF opt = MAXFETCHSIZE THEN l.max_length
                      ELSE IF c \in Doubling THEN 2 * l.max_length ELSE l.max_length + 1
  <1>1. PICK k \in Nat : k = l.max_length
    BY DEF ListType
  <1>2. /\ opt \in Nat /\ opt >= 1 /\ opt <= k
        /\ grown \in Nat /\ opt <= grown /\ k <= grown
    BY <1>1, Consts DEF Lesser
  <1>3. /\ tl' = [tl EXCEPT ![t][c] = [l EXCEPT !.max_length = grown]]
        /\ act' = [act EXCEPT ![t] = Local(c, opt, pop, <<>>, NULL)]
        /\ pc' = [pc EXCEPT ![t] = "fetch"]
    BY DEF fetch_from_centralcache
  <1> HIDE DEF opt, grown
  <1>4. [l EXCEPT !.max_length = grown] \in ListType
    BY <1>2 DEF ListType
  <1>5. OneList(t, c, [l EXCEPT !.max_length = grown])
    BY <1>3, <1>4, Types, SetList
  <1>6. Local(c, opt, pop, <<>>, NULL) \in ActType /\ "fetch" \in ThreadPC
    BY <1>2, EmptyIs DEF Local, ActType, ThreadPC
  <1>7. OneThread(t, "fetch", Local(c, opt, pop, <<>>, NULL))
    BY <1>3, <1>6, Types, SetThread
  <1> QED
    BY <1>1, <1>2, <1>5, <1>7

\* The invariant after a step that starts a fetch for an empty list.
LEMMA FetchStartStep ==
    ASSUME IInv, NEW t \in Threads, NEW c \in Classes, NEW l \in ListType,
           l.max_length >= 1, l.objs = <<>>, l.objlen = 0, tl[t][c].objs = <<>>,
           NEW pop \in BOOLEAN, fetch_from_centralcache(t, c, l, pop),
           pc[t] \in {"init", "ready"}, pop <=> pc[t] = "ready", pc[t] = "init" => c = act[t].cls,
           UNCHANGED <<fields, rings, heap, central, held>>, ops' \in 0 .. MaxOps
    PROVE  IInv'
  <1>1. TypeOK /\ LockInv /\ CacheBounded /\ PlaceInv /\ RingInv /\ ThreadInv(t)
    BY DEF IInv
  <1>2. PICK n \in Nat, m \in Nat :
              /\ n >= 1 /\ n <= m
              /\ OneList(t, c, [l EXCEPT !.max_length = m]) /\ l.max_length <= m
              /\ OneThread(t, "fetch", Local(c, n, pop, <<>>, NULL))
    BY <1>1, FetchStarts
  <1>3. PICK v \in ListType : v = [l EXCEPT !.max_length = m]
    BY DEF ListType
  <1>4. v.objs = <<>> /\ v.objlen = 0 /\ v.max_length = m
    BY <1>3 DEF ListType
  <1>5. OneList(t, c, v) /\ OneThread(t, "fetch", Local(c, n, pop, <<>>, NULL))
    BY <1>2, <1>3
  <1>6. OthersSame(t)
    BY <1>5 DEF OthersSame, OneList, OneThread
  <1>7. TypeOK'
    BY <1>1, <1>5 DEF TypeOK, OneList, OneThread, ListType, ActType, fields, rings, heap
  <1>8. LockInv'
    BY <1>1, <1>5, <1>6, LockStep DEF OneThread
  <1>9. CacheBounded'
    BY <1>1, <1>2, <1>4, <1>5, BoundedStep, EmptyIs
  <1> DEFINE a == Local(c, n, pop, <<>>, NULL)
  <1>10. a.cls = c /\ a.num = n /\ a.pop = pop /\ a.batch = <<>>
    BY DEF Local
  <1> HIDE DEF a
  <1>11. act[t].batch = <<>> /\ ~act[t].pop
    BY <1>1 DEF ThreadInv, Fetching
  <1>12. PlaceInv'
    <2>1. \A u \in Threads : \A d \in Classes : tl'[u][d].objs = tl[u][d].objs
      BY <1>4, <1>5 DEF OneList
    <2>2. \A u \in Threads : /\ act'[u].batch = act[u].batch
                             /\ act[u].batch # <<>> => act'[u].cls = act[u].cls
                             /\ pc[u] = "giveback" <=> pc'[u] = "giveback"
                             /\ pc[u] = "giveback" => act'[u] = act[u]
      BY <1>5, <1>10, <1>11 DEF OneThread, a
    <2>3. UNCHANGED <<objs, objs_size, held, pgcache, unused>>
      BY DEF fields, heap
    <2> QED
      BY <1>1, <2>1, <2>2, <2>3, PlaceFrame
  <1>13. RingInv'
    <2>1. \A u \in Threads : pc'[u] = "take" => pc[u] = "take" /\ act'[u] = act[u]
      BY <1>5 DEF OneThread
    <2>2. UNCHANGED <<objs_size, loc, rings>>
      BY DEF fields
    <2> QED
      BY <1>1, <2>1, <2>2, RingFrame
  <1>14. ThreadInv(t)'
    <2>1. pc'[t] = "fetch" /\ act'[t].batch = <<>> /\ act'[t].pop = pop /\ act'[t].cls = c /\ act'[t].num = n
      BY <1>5, <1>10 DEF OneThread, a
    <2>2. tl'[t][c] = v /\ \A d \in Classes : d # c => tl'[t][d] = tl[t][d]
      BY <1>5 DEF OneList
    <2>3. \A d \in Classes : ~pop /\ d > c => tl'[t][d].objs = <<>>
      <3> SUFFICES ASSUME NEW d \in Classes, ~pop, d > c
                   PROVE  tl'[t][d].objs = <<>>
        OBVIOUS
      <3>1. pc[t] = "init" /\ act[t].cls = c
        OBVIOUS
      <3>2. tl[t][d].objs = <<>>
        BY <1>1, <3>1 DEF ThreadInv, Starting
      <3>3. d # c
        BY Consts
      <3> QED
        BY <2>2, <3>2, <3>3
    <2>4. \A d \in Classes : pop \/ d < c => tl'[t][d].max_length >= 1
      <3> SUFFICES ASSUME NEW d \in Classes, pop \/ d < c
                   PROVE  tl'[t][d].max_length >= 1
        OBVIOUS
      <3>1. CASE d = c
        BY <1>2, <1>4, <2>2, <3>1
      <3>2. CASE d # c
        <4>1. ~Starting(t) \/ d < act[t].cls
          BY DEF Starting, Fetching
        <4> QED
          BY <1>1, <2>2, <3>2, <4>1 DEF ThreadInv
      <3> QED
        BY <3>1, <3>2
    <2> QED
      BY <1>2, <1>4, <2>1, <2>2, <2>3, <2>4 DEF ThreadInv, Starting, Fetching
  <1>15. \A u \in Threads : ThreadInv(u)'
    BY <1>1, <1>6, <1>14, ThreadStep, Types DEF IInv
  <1>16. \A u \in Threads : SpanInv(u)'
    <2>1. \A u \in Threads : /\ pc'[u] = "take" => pc[u] = "take" /\ act'[u] = act[u]
                             /\ pc'[u] = "giveback" => pc[u] = "giveback" /\ act'[u] = act[u]
      BY <1>5 DEF OneThread
    <2>2. UNCHANGED <<objs, objs_size>>
      BY DEF fields
    <2> QED
      BY <2>1, <2>2, SpanFrame DEF IInv
  <1>17. \A s \in Spans : CountInv(s)'
    <2>1. UNCHANGED <<objs, obj_len, obj_refcount, objs_size>>
      BY DEF fields
    <2> QED
      BY <2>1, CountFrame DEF IInv
  <1> QED
    BY <1>7, <1>8, <1>9, <1>12, <1>13, <1>15, <1>16, <1>17 DEF IInv

\* tc_thread_init comes to its next class.
LEMMA ThreadInitStep ==
    ASSUME IInv, NEW t \in Threads, ThreadInit(t)
    PROVE  IInv'
  <1>1. TypeOK /\ ThreadInv(t) /\ act[t].cls \in Classes
    BY Types DEF IInv, ActType
  <1> DEFINE l == [objs |-> <<>>, objlen |-> 0, max_length |-> 1]
  <1>2. l \in ListType /\ l.max_length >= 1 /\ l.objs = <<>> /\ l.objlen = 0
    BY EmptyIs DEF ListType
  <1>3. /\ pc[t] = "init" /\ fetch_from_centralcache(t, act[t].cls, l, FALSE)
        /\ UNCHANGED <<fields, rings, heap, central, held, ops>>
    BY DEF ThreadInit
  <1>4. tl[t][act[t].cls].objs = <<>> /\ ops' \in 0 .. MaxOps
    BY <1>1, <1>3, Types DEF ThreadInv
  <1> HIDE DEF l
  <1> QED
    BY <1>1, <1>2, <1>3, <1>4, FetchStartStep

\* tc_malloc finds the thread's list empty.
LEMMA AllocateMissStep ==
    ASSUME IInv, NEW t \in Threads, NEW c \in Classes, AllocateMiss(t, c)
    PROVE  IInv'
  <1>1. TypeOK /\ CacheBounded /\ ThreadInv(t)
    BY DEF IInv
  <1>2. PICK l \in ListType : l = tl[t][c]
    BY <1>1, Types
  <1>3. /\ pc[t] = "ready" /\ fetch_from_centralcache(t, c, l, TRUE) /\ l.objs = <<>>
        /\ UNCHANGED <<fields, rings, heap, central, held>> /\ ops' = ops + 1 /\ ops < MaxOps
    BY <1>2 DEF AllocateMiss
  <1>4. l.max_length >= 1 /\ l.objlen = 0
    BY <1>1, <1>2, <1>3, EmptyIs DEF ThreadInv, Starting, Fetching, CacheBounded
  <1>5. ops' \in 0 .. MaxOps
    <2>1. ops \in 0 .. MaxOps /\ MaxOps \in Nat
      BY <1>1, Types, Consts
    <2> QED
      BY <1>3, <2>1
  <1> QED
    BY <1>2, <1>3, <1>4, <1>5, FetchStartStep

\* The lists when one of a thread's is written.
LEMMA ListsStep ==
    ASSUME ListsSound, UNCHANGED <<objs, objs_size, pgcache, act>>, NEW t \in Threads,
           NEW c \in Classes, NEW v, OneList(t, c, v), IsInjective(v.objs),
           \A o \in ToSet(v.objs) : Fits(o, c)
    PROVE  ListsSound'
  <1>1. \A s : Cut(s)' = Cut(s)
    BY DEF Cut
  <1>2. \A o, d : Fits(o, d)' <=> Fits(o, d)
    BY <1>1 DEF Fits
  <1>3. \A u \in Threads, d \in Classes :
           IsInjective(tl'[u][d].objs) /\ \A o \in ToSet(tl'[u][d].objs) : Fits(o, d)
    <2> TAKE u \in Threads, d \in Classes
    <2>1. CASE u = t /\ d = c
      BY <2>1 DEF OneList
    <2>2. CASE u # t \/ d # c
      BY <2>2 DEF OneList, ListsSound
    <2> QED
      BY <2>1, <2>2
  <1>4. \A u \in Threads : IsInjective(act'[u].batch) /\ \A o \in ToSet(act'[u].batch) : Fits(o, act'[u].cls)
    BY DEF ListsSound
  <1>5. \A s \in Spans : IsInjective(objs'[s]) /\ ToSet(objs'[s]) \subseteq Cut(s)
    BY DEF ListsSound
  <1>6. IsInjective(pgcache')
    BY DEF ListsSound
  <1> QED
    BY <1>1, <1>2, <1>3, <1>4, <1>5, <1>6 DEF ListsSound

\* freelist_pop.
LEMMA PopIs ==
    ASSUME NEW l \in ListType, l.objs # <<>>, l.objlen = Len(l.objs), l.objlen <= l.max_length,
           IsInjective(l.objs), NEW v, v = freelist_pop(l)
    PROVE  /\ v \in ListType /\ v.max_length = l.max_length
           /\ v.objlen = Len(v.objs) /\ v.objlen <= v.max_length
           /\ IsInjective(v.objs) /\ ToSet(v.objs) = ToSet(l.objs) \ {Head(l.objs)}
           /\ Head(l.objs) \in Objects /\ Head(l.objs) \in ToSet(l.objs)
  <1>1. PICK q \in Seq(Objects) : q = l.objs /\ q # <<>> /\ IsInjective(q)
    BY DEF ListType
  <1>2. /\ Tail(q) \in Seq(Objects) /\ Len(Tail(q)) = Len(q) - 1 /\ Len(q) >= 1
        /\ IsInjective(Tail(q)) /\ ToSet(Tail(q)) = ToSet(q) \ {Head(q)}
        /\ Head(q) \in Objects /\ Head(q) \in ToSet(q)
    BY <1>1, PopSeq
  <1>3. v = [l EXCEPT !.objs = Tail(q), !.objlen = l.objlen - 1]
    BY <1>1 DEF freelist_pop
  <1>4. PICK r \in Seq(Objects) : r = Tail(q)
    BY <1>2
  <1>5. PICK n \in Nat : n = Len(q)
    BY <1>1, LenProperties
  <1>6. PICK k \in Nat : k = l.max_length
    BY DEF ListType
  <1>7. l.objlen = n /\ n - 1 \in Nat /\ n <= k
    BY <1>1, <1>2, <1>5, <1>6
  <1>8. v.objs = r /\ v.objlen = n - 1 /\ v.max_length = k /\ v \in ListType
    BY <1>3, <1>4, <1>6, <1>7 DEF ListType
  <1>9. Len(r) = n - 1 /\ n - 1 <= k
    BY <1>2, <1>4, <1>5, <1>7
  <1> QED
    BY <1>1, <1>2, <1>4, <1>6, <1>8, <1>9

\* The program gets a block.
LEMMA HeldMore ==
    ASSUME NEW b, NEW c, held' = held \cup {<<b, c>>}
    PROVE  \A o : AtHeld(o)' <=> AtHeld(o) \/ o = b
  <1>1. <<b, c>>[1] = b
    OBVIOUS
  <1>2. PICK h : h = <<b, c>>
    OBVIOUS
  <1> QED
    BY <1>1, <1>2 DEF AtHeld

\* A block goes from a thread's cache to the program.
LEMMA HitPlaces ==
    ASSUME TypeOK, PlaceInv, NEW t \in Threads, NEW c \in Classes, NEW v, OneList(t, c, v),
           NEW b \in Objects, b \in ToSet(tl[t][c].objs), IsInjective(v.objs),
           ToSet(v.objs) = ToSet(tl[t][c].objs) \ {b}, held' = held \cup {<<b, c>>},
           UNCHANGED <<objs, objs_size, pgcache, unused, pc, act>>
    PROVE  PlaceInv'
  <1>1. \A s : Cut(s)' = Cut(s)
    BY DEF Cut
  <1>2. \A o, d : Fits(o, d)' <=> Fits(o, d)
    BY <1>1 DEF Fits
  <1>3. ListsSound /\ \A u \in Threads, d \in Classes : \A o \in ToSet(tl[u][d].objs) : Fits(o, d)
    BY DEF PlaceInv, ListsSound
  <1>4. ListsSound'
    BY <1>3, ListsStep
  <1>5. \A h \in held' : Fits(h[1], h[2])'
    BY <1>2, <1>3 DEF PlaceInv
  <1>6. \A s \in unused' \cup ToSet(pgcache') : objs_size'[s] = 0
    BY DEF PlaceInv
  <1>7. \A d \in Classes : d # c => b \notin ToSet(tl[t][d].objs)
    BY <1>3 DEF Fits
  <1>8. \A u \in Threads : \A o : AtCache(u, o)' <=> AtCache(u, o) /\ ~(o = b /\ u = t)
    <2> TAKE u \in Threads
    <2> TAKE o
    <2>1. CASE u # t
      BY <2>1 DEF AtCache, OneList
    <2>2. CASE u = t
      <3>1. \A d \in Classes : o \in ToSet(tl'[t][d].objs) <=> o \in ToSet(tl[t][d].objs) /\ o # b
        BY <1>7 DEF OneList
      <3> QED
        BY <2>2, <3>1 DEF AtCache
    <2> QED
      BY <2>1, <2>2
  <1>9. \A o : AtHeld(o)' <=> AtHeld(o) \/ o = b
    BY HeldMore
  <1>10. \A o : /\ AtFree(o)' <=> AtFree(o)
                /\ AtHeap(o)' <=> AtHeap(o)
                /\ AtUnused(o)' <=> AtUnused(o)
                /\ \A u \in Threads : /\ AtBatch(u, o)' <=> AtBatch(u, o)
                                      /\ AtGive(u, o)' <=> AtGive(u, o)
    BY DEF AtFree, AtHeap, AtUnused, AtBatch, AtGive
  <1>11. ASSUME NEW s \in Spans, NEW o \in Cut(s)
         PROVE  Placed(o)'
    <2>1. Placed(o)
      BY DEF PlaceInv
    <2>2. CASE o # b
      <3>1. SameAll(o)
        BY <1>8, <1>9, <1>10, <2>2 DEF SameAll
      <3> QED
        BY <2>1, <3>1, Stays
    <2>3. CASE o = b
      <3>1. Holds(PCache(t), o) /\ Holds(PHeld, o)'
        BY <1>9, <2>3, HoldsIs, HoldsIsNext DEF AtCache
      <3>2. ~Holds(PCache(t), o)'
        BY <1>8, <2>3, HoldsIsNext
      <3>3. Arrives(PHeld, o)
        BY <1>8, <1>10 DEF Arrives
      <3> QED
        BY <2>1, <3>1, <3>2, <3>3, PlacesDiffer, Moves
    <2> QED
      BY <2>2, <2>3
  <1> QED
    BY <1>1, <1>4, <1>5, <1>6, <1>11 DEF PlaceInv

\* The invariant after a step of a thread that is ready and writes one of its lists.
LEMMA OneListStep ==
    ASSUME IInv, NEW t \in Threads, NEW c \in Classes, NEW v \in ListType, OneList(t, c, v),
           v.max_length = tl[t][c].max_length, v.objlen = Len(v.objs), v.objlen <= v.max_length,
           pc[t] = "ready", UNCHANGED <<fields, rings, heap, central, pc, act>>,
           ops' \in 0 .. MaxOps, held' \subseteq Objects \X ({0} \cup Classes), PlaceInv'
    PROVE  IInv'
  <1>1. TypeOK /\ LockInv /\ CacheBounded /\ RingInv /\ ThreadInv(t)
    BY DEF IInv
  <1>2. OthersSame(t)
    BY DEF OthersSame, OneList
  <1>3. TypeOK'
    BY <1>1 DEF TypeOK, OneList, ListType, fields, rings, heap
  <1>4. LockInv'
    BY <1>1, <1>2, LockStep
  <1>5. CacheBounded'
    BY <1>1, BoundedStep
  <1>6. RingInv'
    BY <1>1, RingFrame DEF fields
  <1>7. ThreadInv(t)'
    <2>1. \A d \in Classes : tl'[t][d].max_length = tl[t][d].max_length
      BY DEF OneList
    <2> QED
      BY <1>1, <2>1 DEF ThreadInv, Starting, Fetching
  <1>8. \A u \in Threads : ThreadInv(u)'
    BY <1>1, <1>2, <1>7, ThreadStep, Types DEF IInv
  <1>9. \A u \in Threads : SpanInv(u)'
    BY SpanFrame DEF IInv, fields
  <1>10. \A s \in Spans : CountInv(s)'
    BY CountFrame DEF IInv, fields
  <1> QED
    BY <1>3, <1>4, <1>5, <1>6, <1>8, <1>9, <1>10 DEF IInv

\* tc_malloc takes an object of the thread's list.
LEMMA AllocateHitStep ==
    ASSUME IInv, NEW t \in Threads, NEW c \in Classes, AllocateHit(t, c)
    PROVE  IInv'
  <1>1. TypeOK /\ CacheBounded /\ PlaceInv
    BY DEF IInv
  <1>2. PICK l \in ListType : l = tl[t][c]
    BY <1>1, Types
  <1>3. PICK v : v = freelist_pop(l)
    OBVIOUS
  <1>4. PICK b : b = Head(l.objs)
    OBVIOUS
  <1>5. /\ pc[t] = "ready" /\ l.objs # <<>> /\ held' = held \cup {<<b, c>>}
        /\ tl' = [tl EXCEPT ![t][c] = v] /\ ops < MaxOps /\ ops' = ops + 1
        /\ UNCHANGED <<fields, rings, heap, central, pc, act>>
    BY <1>2, <1>3, <1>4 DEF AllocateHit
  <1>6. l.objlen = Len(l.objs) /\ l.objlen <= l.max_length /\ IsInjective(l.objs)
    BY <1>1, <1>2 DEF CacheBounded, PlaceInv, ListsSound
  <1>7. /\ v \in ListType /\ v.max_length = l.max_length
        /\ v.objlen = Len(v.objs) /\ v.objlen <= v.max_length
        /\ IsInjective(v.objs) /\ ToSet(v.objs) = ToSet(l.objs) \ {b}
        /\ b \in Objects /\ b \in ToSet(l.objs)
    BY <1>3, <1>4, <1>5, <1>6, PopIs
  <1>8. OneList(t, c, v)
    BY <1>1, <1>5, <1>7, SetList, Types
  <1>9. ops' \in 0 .. MaxOps
    <2>1. ops \in 0 .. MaxOps /\ MaxOps \in Nat
      BY <1>1, Types, Consts
    <2> QED
      BY <1>5, <2>1
  <1>10. held' \subseteq Objects \X ({0} \cup Classes)
    BY <1>1, <1>5, <1>7, Types
  <1>11. PlaceInv'
    <2>1. UNCHANGED <<objs, objs_size, pgcache, unused, pc, act>>
      BY <1>5 DEF fields, heap
    <2> QED
      BY <1>1, <1>2, <1>5, <1>7, <1>8, <2>1, HitPlaces
  <1> QED
    BY <1>2, <1>5, <1>7, <1>8, <1>9, <1>10, <1>11, OneListStep

-----------------------------------------------------------------------------
(* The central cache: fetching *)

\* A call keeps its other local variables when it gets a span.
LEMMA SetSpan ==
    ASSUME NEW a \in ActType, NEW s \in Spans, NEW b, b = [a EXCEPT !.span = s]
    PROVE  /\ b \in ActType /\ b.cls = a.cls /\ b.num = a.num /\ b.batch = a.batch
           /\ b.span = s /\ b.pop = a.pop
  BY DEF ActType

\* The span that the search stops at is on the list's side, of the class and has a
\* free object.
LEMMA SearchFinds ==
    ASSUME TypeOK, NEW L \in SUBSET Spans, Sides(L), NEW c \in Classes, Usable(c) # {}, NEW s,
           s = Walk(list[c], next)[CHOOSE k \in Usable(c) : \A j \in Usable(c) : k <= j]
    PROVE  s \in L /\ objs_size[s] = c /\ objs[s] # <<>>
  <1>1. list[c] # NULL /\ list[c] \in L /\ objs_size[list[c]] = c
    BY DEF Usable, Sides
  <1> DEFINE D == {x \in L : objs_size[x] = c}
             at == Walk(list[c], next)
  <1>2. \A x \in D : next[x] \in D
    <2> TAKE x \in D
    <2>1. x \in Spans /\ next[x] \in Spans /\ Colour(L)[next[x]] = Colour(L)[x]
      BY DEF Sides, Cycles
    <2>2. <<objs_size[next[x]], next[x] \in L>> = <<objs_size[x], x \in L>>
      BY <2>1 DEF Colour
    <2> QED
      BY <2>1, <2>2
  <1> HIDE DEF D
  <1>3. list[c] \in D
    BY <1>1 DEF D
  <1>4. /\ DOMAIN at = 0 .. Cardinality(Spans) /\ Cardinality(Spans) \in Nat
        /\ \A k \in 0 .. Cardinality(Spans) : at[k] \in D
    BY <1>2, <1>3, WalkStays
  <1> HIDE DEF at
  <1>5. Usable(c) = {k \in DOMAIN at : objs[at[k]] # <<>>}
    BY <1>1 DEF Usable, at
  <1>6. Usable(c) \in SUBSET Nat
    BY <1>4, <1>5
  <1>7. \E m \in Usable(c) : \A j \in Usable(c) : m <= j
    BY <1>6, LeastNat
  <1>8. PICK m \in Usable(c) : m = CHOOSE k \in Usable(c) : \A j \in Usable(c) : k <= j
    BY <1>7
  <1>9. s = at[m]
    BY <1>8 DEF at
  <1> QED
    BY <1>4, <1>5, <1>8, <1>9 DEF D

\* get_span_central searches the list of the class.
LEMMA SearchListStep ==
    ASSUME IInv, NEW t \in Threads, SearchList(t)
    PROVE  IInv'
  <1>1. TypeOK /\ LockInv /\ CacheBounded /\ PlaceInv /\ ThreadInv(t)
    BY DEF IInv
  <1>2. PICK L \in SUBSET Spans : Sides(L)
    BY DEF IInv, RingInv
  <1>3. PICK c \in Classes : c = act[t].cls
    BY <1>1, Types DEF ActType
  <1>4. PICK s : s = Walk(list[c], next)[CHOOSE k \in Usable(c) : \A j \in Usable(c) : k <= j]
    OBVIOUS
  <1>5. /\ pc[t] = "fetch" /\ central = NULL /\ central' = t
        /\ \/ pc' = [pc EXCEPT ![t] = "span"] /\ act' = act
           \/ /\ Usable(c) # {} /\ pc' = [pc EXCEPT ![t] = "take"]
              /\ act' = [act EXCEPT ![t].span = s]
        /\ UNCHANGED <<fields, rings, heap, tl, held, ops>>
    BY <1>3, <1>4 DEF SearchList
  <1>6. \E p \in {"span", "take"}, a \in ActType :
           /\ OneThread(t, p, a)
           /\ a.cls = act[t].cls /\ a.num = act[t].num /\ a.batch = act[t].batch /\ a.pop = act[t].pop
           /\ p = "take" => a.span \in L /\ objs_size[a.span] = c /\ objs[a.span] # <<>>
    <2>1. "span" \in ThreadPC /\ "take" \in ThreadPC
      BY DEF ThreadPC
    <2>2. PICK b \in ActType : b = act[t]
      BY <1>1, Types
    <2>3. CASE pc' = [pc EXCEPT ![t] = "span"] /\ act' = act
      <3>1. act' = [act EXCEPT ![t] = b]
        BY <1>1, <2>2, <2>3, Types
      <3>2. OneThread(t, "span", b)
        BY <1>1, <2>1, <2>3, <3>1, SetThread, Types
      <3> QED
        BY <2>2, <3>2
    <2>4. CASE /\ Usable(c) # {} /\ pc' = [pc EXCEPT ![t] = "take"]
               /\ act' = [act EXCEPT ![t].span = s]
      <3>1. s \in L /\ objs_size[s] = c /\ objs[s] # <<>>
        BY <1>1, <1>2, <1>4, <2>4, SearchFinds
      <3>2. PICK a : a = [b EXCEPT !.span = s]
        OBVIOUS
      <3>3. /\ a \in ActType /\ a.cls = b.cls /\ a.num = b.num /\ a.batch = b.batch
            /\ a.span = s /\ a.pop = b.pop
        BY <3>1, <3>2, SetSpan
      <3>4. act' = [act EXCEPT ![t] = a]
        BY <1>1, <2>2, <2>4, <3>2, Types
      <3>5. OneThread(t, "take", a)
        BY <1>1, <2>1, <2>4, <3>3, <3>4, SetThread, Types
      <3> QED
        BY <2>2, <3>1, <3>3, <3>5
    <2> QED
      BY <1>5, <2>3, <2>4
  <1>7. PICK p \in {"span", "take"}, a \in ActType :
           /\ OneThread(t, p, a)
           /\ a.cls = act[t].cls /\ a.num = act[t].num /\ a.batch = act[t].batch /\ a.pop = act[t].pop
           /\ p = "take" => a.span \in L /\ objs_size[a.span] = c /\ objs[a.span] # <<>>
    BY <1>6
  <1>8. OthersSame(t)
    BY <1>5, <1>7 DEF OthersSame, OneThread
  <1>9. TypeOK'
    BY <1>1, <1>5, <1>7 DEF TypeOK, OneThread, ActType, fields, rings, heap
  <1>10. LockInv'
    BY <1>1, <1>5, <1>7, <1>8, LockStep DEF OneThread
  <1>11. CacheBounded'
    BY <1>1, <1>5 DEF CacheBounded
  <1>12. PlaceInv'
    <2>1. \A u \in Threads : /\ act'[u].batch = act[u].batch
                             /\ act'[u].cls = act[u].cls
                             /\ pc[u] = "giveback" <=> pc'[u] = "giveback"
                             /\ pc[u] = "giveback" => act'[u] = act[u]
      BY <1>5, <1>7 DEF OneThread
    <2> QED
      BY <1>1, <1>5, <2>1, PlaceFrame DEF fields, heap
  <1>13. \A u \in Threads : u # t => pc[u] \notin {"span", "take", "giveback"}
    BY <1>1, <1>5, LockAlone
  <1>14. RingInv'
    <2>1. \A u \in Threads : pc'[u] = "take" => act'[u].span \in L
      BY <1>7, <1>13 DEF OneThread
    <2> QED
      BY <1>2, <1>5, <2>1, SidesFrame DEF fields
  <1>15. ThreadInv(t)'
    <2>1. /\ pc'[t] \in {"span", "take"} /\ act'[t].batch = act[t].batch /\ act'[t].cls = act[t].cls
          /\ act'[t].pop = act[t].pop /\ act'[t].num = act[t].num
      BY <1>7 DEF OneThread
    <2> QED
      BY <1>1, <1>5, <2>1 DEF ThreadInv, Starting, Fetching
  <1>16. \A u \in Threads : ThreadInv(u)'
    BY <1>1, <1>8, <1>15, ThreadStep, Types DEF IInv
  <1>17. \A u \in Threads : SpanInv(u)'
    <2> TAKE u \in Threads
    <2>1. CASE u = t
      BY <1>3, <1>5, <1>7, <2>1 DEF SpanInv, OneThread, fields
    <2>2. CASE u # t
      BY <1>7, <1>13, <2>2 DEF SpanInv, OneThread
    <2> QED
      BY <2>1, <2>2
  <1>18. \A x \in Spans : CountInv(x)'
    BY <1>5, CountFrame DEF IInv, fields
  <1> QED
    BY <1>9, <1>10, <1>11, <1>12, <1>14, <1>16, <1>17, <1>18 DEF IInv

-----------------------------------------------------------------------------
(* tc_free *)

\* r is the sequence a followed by b, which have no element in common.
Joined(S, a, b, r) ==
    /\ r \in Seq(S) /\ Len(r) = Len(a) + Len(b)
    /\ ToSet(r) = ToSet(a) \cup ToSet(b) /\ IsInjective(r)

\* By what a sequence has at each number.
LEMMA JoinAt ==
    ASSUME NEW S, NEW a \in Seq(S), NEW b \in Seq(S), IsInjective(a), IsInjective(b),
           ToSet(a) \cap ToSet(b) = {}, NEW m \in Nat, NEW n \in Nat, m = Len(a), n = Len(b),
           NEW r \in Seq(S), Len(r) = m + n,
           \A i \in 1 .. m + n : r[i] = IF i <= m THEN a[i] ELSE b[i - m]
    PROVE  Joined(S, a, b, r)
  <1>1. m = Len(a) /\ n = Len(b)
    OBVIOUS
  <1>2. /\ r \in Seq(S) /\ Len(r) = m + n
        /\ \A i \in 1 .. m + n : r[i] = IF i <= m THEN a[i] ELSE b[i - m]
    OBVIOUS
  <1>3. \A i \in 1 .. m : i \in 1 .. m + n /\ r[i] = a[i]
    BY <1>2
  <1>4. \A i \in 1 .. n : m + i \in 1 .. m + n /\ r[m + i] = b[i]
    <2> TAKE i \in 1 .. n
    <2>1. m + i \in 1 .. m + n /\ ~(m + i <= m) /\ (m + i) - m = i
      OBVIOUS
    <2> QED
      BY <1>2, <2>1
  <1>5. \A k \in 1 .. m + n : \/ k \in 1 .. m /\ r[k] = a[k]
                              \/ k - m \in 1 .. n /\ r[k] = b[k - m]
    BY <1>2
  <1>6. /\ \A x : x \in ToSet(a) <=> \E i \in 1 .. m : a[i] = x
        /\ \A x : x \in ToSet(b) <=> \E i \in 1 .. n : b[i] = x
        /\ \A x : x \in ToSet(r) <=> \E i \in 1 .. m + n : r[i] = x
    BY <1>1, <1>2, ToSetIs
  <1>7. \A x : x \in ToSet(r) <=> x \in ToSet(a) \/ x \in ToSet(b)
    <2> TAKE x
    <2>1. x \in ToSet(a) => x \in ToSet(r)
      BY <1>3, <1>6
    <2>2. ASSUME x \in ToSet(b)
          PROVE  x \in ToSet(r)
      <3>1. PICK i \in 1 .. n : b[i] = x
        BY <1>6, <2>2
      <3>2. m + i \in 1 .. m + n /\ r[m + i] = x
        BY <1>4, <3>1
      <3> QED
        BY <1>6, <3>2
    <2>3. ASSUME x \in ToSet(r)
          PROVE  x \in ToSet(a) \/ x \in ToSet(b)
      <3>1. PICK k \in 1 .. m + n : r[k] = x
        BY <1>6, <2>3
      <3> QED
        BY <1>5, <1>6, <3>1
    <2> QED
      BY <2>1, <2>2, <2>3
  <1>8. /\ \A i, j \in 1 .. m : a[i] = a[j] => i = j
        /\ \A i, j \in 1 .. n : b[i] = b[j] => i = j
    BY <1>1, ToSetIs
  <1>9. \A i \in 1 .. m, j \in 1 .. n : a[i] # b[j]
    BY <1>6
  <1>10. ASSUME NEW i \in 1 .. m + n, NEW j \in 1 .. m + n, r[i] = r[j]
         PROVE  i = j
    <2>1. CASE i \in 1 .. m /\ r[i] = a[i] /\ j \in 1 .. m /\ r[j] = a[j]
      BY <1>8, <1>10, <2>1
    <2>2. CASE i - m \in 1 .. n /\ r[i] = b[i - m] /\ j - m \in 1 .. n /\ r[j] = b[j - m]
      <3>1. i - m = j - m
        BY <1>8, <1>10, <2>2
      <3> QED
        BY <3>1
    <2> QED
      BY <1>5, <1>9, <1>10, <2>1, <2>2
  <1>11. IsInjective(r)
    <2>1. r \in Seq(S) /\ Len(r) = m + n
      BY <1>2
    <2>2. IsInjective(r) <=> \A i, j \in 1 .. Len(r) : r[i] = r[j] => i = j
      BY <2>1, ToSetIs
    <2> QED
      BY <1>10, <2>1, <2>2
  <1> QED
    BY <1>1, <1>2, <1>7, <1>11 DEF Joined

\* That is what the concatenation gives.
LEMMA JoinSeq ==
    ASSUME NEW S, NEW a \in Seq(S), NEW b \in Seq(S), IsInjective(a), IsInjective(b),
           ToSet(a) \cap ToSet(b) = {}, NEW r, r = a \o b
    PROVE  Joined(S, a, b, r)
  <1>1. PICK m \in Nat, n \in Nat : m = Len(a) /\ n = Len(b)
    BY LenProperties
  <1>2. /\ r \in Seq(S) /\ Len(r) = m + n
        /\ \A i \in 1 .. m + n : r[i] = IF i <= m THEN a[i] ELSE b[i - m]
    BY <1>1, ConcatProperties
  <1> QED
    BY <1>1, <1>2, JoinAt

\* insert_to_threadcache.
LEMMA InsertIs ==
    ASSUME NEW l \in ListType, l.objlen = Len(l.objs), IsInjective(l.objs),
           NEW mv \in Seq(Objects), IsInjective(mv), ToSet(mv) \cap ToSet(l.objs) = {},
           Len(mv) + l.objlen <= l.max_length, NEW v, v = insert_to_threadcache(l, mv)
    PROVE  /\ v \in ListType /\ v.max_length = l.max_length
           /\ v.objlen = Len(v.objs) /\ v.objlen <= v.max_length
           /\ IsInjective(v.objs) /\ ToSet(v.objs) = ToSet(mv) \cup ToSet(l.objs)
  <1>1. PICK q \in Seq(Objects), n \in Nat, k \in Nat :
           q = l.objs /\ n = Len(q) /\ n = l.objlen /\ k = l.max_length
    BY LenProperties DEF ListType
  <1>2. PICK r \in Seq(Objects) : r = Reverse(mv) /\ Len(r) = Len(mv) /\ ToSet(r) = ToSet(mv) /\ IsInjective(r)
    BY ReverseSeq
  <1>3. PICK z : z = r \o q
    OBVIOUS
  <1>4. Joined(Objects, r, q, z)
    BY <1>1, <1>2, <1>3, JoinSeq
  <1>5. PICK m \in Nat : m = Len(mv)
    BY LenProperties
  <1>6. v = [l EXCEPT !.objs = z, !.objlen = n + m]
    BY <1>1, <1>2, <1>3, <1>5 DEF insert_to_threadcache
  <1>7. z \in Seq(Objects) /\ Len(z) = m + n /\ ToSet(z) = ToSet(mv) \cup ToSet(q) /\ IsInjective(z)
    BY <1>1, <1>2, <1>4, <1>5 DEF Joined
  <1>8. v.objs = z /\ v.objlen = n + m /\ v.max_length = k /\ v \in ListType
    <2>1. PICK j \in Nat : j = n + m
      OBVIOUS
    <2>2. v = [l EXCEPT !.objs = z, !.objlen = j] /\ z \in Seq(Objects)
      BY <1>6, <1>7, <2>1
    <2>3. v \in ListType /\ v.objs = z /\ v.objlen = j /\ v.max_length = l.max_length
      BY <2>2 DEF ListType
    <2> QED
      BY <1>1, <2>1, <2>3
  <1>9. n + m = m + n /\ n + m <= k
    BY <1>1, <1>5
  <1> QED
    BY <1>1, <1>7, <1>8, <1>9

\* A block is in no second place.
LEMMA Exclusive ==
    ASSUME PlaceInv, NEW s \in Spans, NEW o \in Cut(s), NEW p \in Places, NEW q \in Places,
           Holds(p, o), Holds(q, o)
    PROVE  p = q
  <1>1. Placed(o)
    BY DEF PlaceInv
  <1> QED
    BY <1>1 DEF Placed

\* A block that the program has: its span, its class, and that it is nowhere else.
LEMMA HeldIs ==
    ASSUME TypeOK, PlaceInv, NEW h \in held, NEW o, o = h[1]
    PROVE  /\ o \in Objects /\ o[1] \in Spans /\ h[2] = objs_size[o[1]] /\ h = <<o, h[2]>>
           /\ Fits(o, h[2]) /\ o \in Cut(o[1]) /\ Holds(PHeld, o)
           /\ \A p \in Places : Holds(p, o) => p = PHeld
  <1>1. o \in Objects /\ o[1] \in Spans /\ h = <<o, h[2]>>
    BY Types DEF Objects
  <1>2. Fits(o, h[2]) /\ h[2] = objs_size[o[1]] /\ o \in Cut(o[1])
    BY DEF PlaceInv, Fits
  <1>3. Holds(PHeld, o)
    BY HoldsIs DEF AtHeld
  <1> QED
    BY <1>1, <1>2, <1>3, Exclusive, PlacesDiffer

\* The program gives a block back.
LEMMA HeldLess ==
    ASSUME TypeOK, PlaceInv, NEW h \in held, NEW b, b = h[1], held' = held \ {h}
    PROVE  \A o : AtHeld(o)' <=> AtHeld(o) /\ o # b
  <1>1. \A g \in held : g[1] = b => g = h
    <2> TAKE g \in held
    <2>1. g[1] = b => g = <<b, objs_size[b[1]]>>
      BY HeldIs
    <2>2. h = <<b, objs_size[b[1]]>>
      BY HeldIs
    <2> QED
      BY <2>1, <2>2
  <1> QED
    BY <1>1 DEF AtHeld

\* A block goes from the program to a thread's cache.
LEMMA FreePlaces ==
    ASSUME TypeOK, PlaceInv, NEW t \in Threads, NEW c \in Classes, NEW v, OneList(t, c, v),
           NEW h \in held, NEW b, b = h[1], c = objs_size[b[1]], IsInjective(v.objs),
           ToSet(v.objs) = {b} \cup ToSet(tl[t][c].objs), held' = held \ {h},
           UNCHANGED <<objs, objs_size, pgcache, unused, pc, act>>
    PROVE  PlaceInv'
  <1>1. \A s : Cut(s)' = Cut(s)
    BY DEF Cut
  <1>2. \A o, d : Fits(o, d)' <=> Fits(o, d)
    BY <1>1 DEF Fits
  <1>3. ListsSound /\ \A u \in Threads, d \in Classes : \A o \in ToSet(tl[u][d].objs) : Fits(o, d)
    BY DEF PlaceInv, ListsSound
  <1>4. Fits(b, c) /\ Holds(PHeld, b)
    BY HeldIs
  <1>5. ListsSound'
    BY <1>3, <1>4, ListsStep
  <1>6. \A g \in held' : Fits(g[1], g[2])'
    BY <1>2 DEF PlaceInv
  <1>7. \A s \in unused' \cup ToSet(pgcache') : objs_size'[s] = 0
    BY DEF PlaceInv
  <1>8. \A u \in Threads : \A o : AtCache(u, o)' <=> AtCache(u, o) \/ (o = b /\ u = t)
    <2> TAKE u \in Threads
    <2> TAKE o
    <2>1. CASE u # t
      BY <2>1 DEF AtCache, OneList
    <2>2. CASE u = t
      <3>1. \A d \in Classes : o \in ToSet(tl'[t][d].objs) <=> o \in ToSet(tl[t][d].objs) \/ (o = b /\ d = c)
        BY DEF OneList
      <3> QED
        BY <2>2, <3>1 DEF AtCache
    <2> QED
      BY <2>1, <2>2
  <1>9. \A o : AtHeld(o)' <=> AtHeld(o) /\ o # b
    BY HeldLess
  <1>10. \A o : /\ AtFree(o)' <=> AtFree(o)
                /\ AtHeap(o)' <=> AtHeap(o)
                /\ AtUnused(o)' <=> AtUnused(o)
                /\ \A u \in Threads : /\ AtBatch(u, o)' <=> AtBatch(u, o)
                                      /\ AtGive(u, o)' <=> AtGive(u, o)
    BY DEF AtFree, AtHeap, AtUnused, AtBatch, AtGive
  <1>11. ASSUME NEW s \in Spans, NEW o \in Cut(s)
         PROVE  Placed(o)'
    <2>1. Placed(o)
      BY DEF PlaceInv
    <2>2. CASE o # b
      <3>1. SameAll(o)
        BY <1>8, <1>9, <1>10, <2>2 DEF SameAll
      <3> QED
        BY <2>1, <3>1, Stays
    <2>3. CASE o = b
      <3>1. Holds(PCache(t), o)' /\ ~Holds(PHeld, o)'
        BY <1>8, <1>9, <2>3, HoldsIsNext
      <3>2. Arrives(PCache(t), o)
        BY <1>8, <1>9, <1>10 DEF Arrives
      <3> QED
        BY <1>4, <2>1, <2>3, <3>1, <3>2, PlacesDiffer, Moves
    <2> QED
      BY <2>2, <2>3
  <1> QED
    BY <1>1, <1>5, <1>6, <1>7, <1>11 DEF PlaceInv

\* tc_free of a small block, the thread's list being short enough.
LEMMA DeallocateLocalStep ==
    ASSUME IInv, NEW t \in Threads, DeallocateLocal(t)
    PROVE  IInv'
  <1>1. TypeOK /\ CacheBounded /\ PlaceInv
    BY DEF IInv
  <1>2. PICK h \in held :
           LET o == h[1]
               c == objs_size[o[1]]
           IN  /\ c # 0 /\ ~AtLimit(tl[t][c])
               /\ held' = held \ {h}
               /\ tl' = [tl EXCEPT ![t][c] = insert_to_threadcache(@, <<o>>)]
    BY DEF DeallocateLocal
  <1>3. pc[t] = "ready" /\ UNCHANGED <<fields, rings, heap, central, pc, act, ops>>
    BY DEF DeallocateLocal
  <1>4. PICK b : b = h[1]
    OBVIOUS
  <1>5. /\ b \in Objects /\ b[1] \in Spans /\ Fits(b, h[2]) /\ b \in Cut(b[1]) /\ Holds(PHeld, b)
        /\ \A p \in Places : Holds(p, b) => p = PHeld
    BY <1>1, <1>4, HeldIs
  <1>6. PICK c \in Classes : c = objs_size[b[1]]
    BY <1>1, <1>2, <1>4, <1>5, Types
  <1>7. PICK l \in ListType : l = tl[t][c]
    BY <1>1, Types
  <1>8. PICK v : v = insert_to_threadcache(l, <<b>>)
    OBVIOUS
  <1>9. ~AtLimit(l) /\ held' = held \ {h} /\ tl' = [tl EXCEPT ![t][c] = v]
    BY <1>2, <1>4, <1>6, <1>7, <1>8
  <1>10. l.objlen = Len(l.objs) /\ l.objlen <= l.max_length /\ IsInjective(l.objs)
    BY <1>1, <1>7 DEF CacheBounded, PlaceInv, ListsSound
  <1>11. 1 + l.objlen <= l.max_length
    <2>1. l.objlen \in Nat /\ l.max_length \in Nat
      BY DEF ListType
    <2> QED
      BY <1>9, <1>10, <2>1 DEF AtLimit
  <1>12. b \notin ToSet(l.objs)
    <2>1. ~Holds(PCache(t), b)
      BY <1>5, PlacesDiffer
    <2> QED
      BY <1>7, <2>1, HoldsIs DEF AtCache
  <1>13. PICK w \in Seq(Objects) : w = <<b>> /\ Len(w) = 1 /\ IsInjective(w) /\ ToSet(w) = {b}
    BY <1>5, SingleIs
  <1>14. /\ v \in ListType /\ v.max_length = l.max_length
         /\ v.objlen = Len(v.objs) /\ v.objlen <= v.max_length
         /\ IsInjective(v.objs) /\ ToSet(v.objs) = {b} \cup ToSet(l.objs)
    <2>1. /\ v = insert_to_threadcache(l, w) /\ ToSet(w) \cap ToSet(l.objs) = {}
          /\ Len(w) + l.objlen <= l.max_length /\ IsInjective(w)
      BY <1>8, <1>11, <1>12, <1>13
    <2>2. /\ v \in ListType /\ v.max_length = l.max_length
          /\ v.objlen = Len(v.objs) /\ v.objlen <= v.max_length
          /\ IsInjective(v.objs) /\ ToSet(v.objs) = ToSet(w) \cup ToSet(l.objs)
      BY <1>10, <2>1, InsertIs
    <2> QED
      BY <1>13, <2>2, Zenon
  <1>15. OneList(t, c, v)
    BY <1>1, <1>9, <1>14, SetList, Types
  <1>16. PlaceInv'
    <2>1. UNCHANGED <<objs, objs_size, pgcache, unused, pc, act>>
      BY <1>3 DEF fields, heap
    <2> QED
      BY <1>1, <1>4, <1>6, <1>7, <1>9, <1>14, <1>15, <2>1, FreePlaces
  <1>17. held' \subseteq Objects \X ({0} \cup Classes) /\ ops' \in 0 .. MaxOps
    BY <1>1, <1>3, <1>9, Types
  <1> QED
    BY <1>3, <1>7, <1>14, <1>15, <1>16, <1>17, OneListStep

\* A block of the program and all of a thread's list go to the thread's batch.
LEMMA FlushPlaces ==
    ASSUME TypeOK, PlaceInv, NEW t \in Threads, NEW c \in Classes, NEW v, OneList(t, c, v),
           NEW h \in held, NEW b, b = h[1], c = objs_size[b[1]], v.objs = <<>>,
           pc[t] = "ready", act[t].batch = <<>>, NEW a, OneThread(t, "return", a), a.cls = c,
           IsInjective(a.batch), ToSet(a.batch) = {b} \cup ToSet(tl[t][c].objs), held' = held \ {h},
           UNCHANGED <<objs, objs_size, pgcache, unused>>
    PROVE  PlaceInv'
  <1>1. \A s : Cut(s)' = Cut(s)
    BY DEF Cut
  <1>2. \A o, d : Fits(o, d)' <=> Fits(o, d)
    BY <1>1 DEF Fits
  <1>3. ListsSound /\ \A u \in Threads, d \in Classes : \A o \in ToSet(tl[u][d].objs) : Fits(o, d)
    BY DEF PlaceInv, ListsSound
  <1>4. Fits(b, c) /\ Holds(PHeld, b)
    BY HeldIs
  <1>5. tl'[t][c].objs = <<>> /\ \A u \in Threads, d \in Classes : u # t \/ d # c => tl'[u][d] = tl[u][d]
    BY DEF OneList
  <1>6. pc'[t] = "return" /\ act'[t] = a /\ \A u \in Threads : u # t => pc'[u] = pc[u] /\ act'[u] = act[u]
    BY DEF OneThread
  <1>7. ListsSound'
    <2>1. \A u \in Threads, d \in Classes :
             IsInjective(tl'[u][d].objs) /\ \A o \in ToSet(tl'[u][d].objs) : Fits(o, d)
      <3> TAKE u \in Threads, d \in Classes
      <3>1. CASE u = t /\ d = c
        BY <1>5, <3>1, EmptyIs
      <3>2. CASE u # t \/ d # c
        BY <1>5, <3>2 DEF PlaceInv, ListsSound
      <3> QED
        BY <3>1, <3>2
    <2>2. \A u \in Threads : IsInjective(act'[u].batch) /\ \A o \in ToSet(act'[u].batch) : Fits(o, act'[u].cls)
      <3> TAKE u \in Threads
      <3>1. CASE u = t
        BY <1>3, <1>4, <1>6, <3>1
      <3>2. CASE u # t
        BY <1>3, <1>6, <3>2 DEF ListsSound
      <3> QED
        BY <3>1, <3>2
    <2>3. \A s \in Spans : IsInjective(objs'[s]) /\ ToSet(objs'[s]) \subseteq Cut(s)
      BY <1>3 DEF ListsSound
    <2>4. IsInjective(pgcache')
      BY <1>3 DEF ListsSound
    <2> QED
      BY <1>1, <1>2, <2>1, <2>2, <2>3, <2>4 DEF ListsSound
  <1>8. \A g \in held' : Fits(g[1], g[2])'
    BY <1>2 DEF PlaceInv
  <1>9. \A s \in unused' \cup ToSet(pgcache') : objs_size'[s] = 0
    BY DEF PlaceInv
  <1>10. \A u \in Threads : \A o : AtCache(u, o)' <=> AtCache(u, o) /\ ~(u = t /\ o \in ToSet(tl[t][c].objs))
    <2> TAKE u \in Threads
    <2> TAKE o
    <2>1. CASE u # t
      BY <1>5, <2>1 DEF AtCache
    <2>2. CASE u = t
      <3>1. \A d \in Classes : d # c => ~(o \in ToSet(tl[t][d].objs) /\ o \in ToSet(tl[t][c].objs))
        BY <1>3 DEF Fits
      <3>2. o \notin ToSet(tl'[t][c].objs)
        BY <1>5, EmptyIs
      <3> QED
        BY <1>5, <2>2, <3>1, <3>2 DEF AtCache
    <2> QED
      BY <2>1, <2>2
  <1>11. \A o : AtHeld(o)' <=> AtHeld(o) /\ o # b
    BY HeldLess
  <1>12. \A u \in Threads : \A o : AtBatch(u, o)' <=> AtBatch(u, o) \/ (u = t /\ (o = b \/ o \in ToSet(tl[t][c].objs)))
    BY <1>6, EmptyIs DEF AtBatch
  <1>13. \A o : /\ AtFree(o)' <=> AtFree(o)
                /\ AtHeap(o)' <=> AtHeap(o)
                /\ AtUnused(o)' <=> AtUnused(o)
                /\ \A u \in Threads : AtGive(u, o)' <=> AtGive(u, o)
    BY <1>6 DEF AtFree, AtHeap, AtUnused, AtGive
  <1>14. ASSUME NEW s \in Spans, NEW o \in Cut(s)
         PROVE  Placed(o)'
    <2>1. Placed(o)
      BY DEF PlaceInv
    <2>2. CASE o # b /\ o \notin ToSet(tl[t][c].objs)
      <3>1. SameAll(o)
        BY <1>10, <1>11, <1>12, <1>13, <2>2 DEF SameAll
      <3> QED
        BY <2>1, <3>1, Stays
    <2>3. CASE o = b \/ o \in ToSet(tl[t][c].objs)
      <3>1. Holds(PBatch(t), o)'
        BY <1>12, <2>3, HoldsIsNext
      <3>2. Arrives(PBatch(t), o)
        BY <1>10, <1>11, <1>12, <1>13 DEF Arrives
      <3>3. CASE o = b
        <4>1. ~Holds(PHeld, o)'
          BY <1>11, <3>3, HoldsIsNext
        <4> QED
          BY <1>4, <2>1, <3>1, <3>2, <3>3, <4>1, PlacesDiffer, Moves
      <3>4. CASE o \in ToSet(tl[t][c].objs)
        <4>1. Holds(PCache(t), o) /\ ~Holds(PCache(t), o)'
          BY <1>10, <3>4, HoldsIs, HoldsIsNext DEF AtCache
        <4> QED
          BY <2>1, <3>1, <3>2, <4>1, PlacesDiffer, Moves
      <3> QED
        BY <2>3, <3>3, <3>4
    <2> QED
      BY <2>2, <2>3
  <1> QED
    BY <1>1, <1>7, <1>8, <1>9, <1>14 DEF PlaceInv

\* tc_free of a small block, the thread's list being full.
LEMMA DeallocateFlushStep ==
    ASSUME IInv, NEW t \in Threads, DeallocateFlush(t)
    PROVE  IInv'
  <1>1. TypeOK /\ LockInv /\ CacheBounded /\ PlaceInv /\ RingInv /\ ThreadInv(t)
    BY DEF IInv
  <1>2. PICK h \in held :
           LET o == h[1]
               c == objs_size[o[1]]
           IN  /\ c # 0 /\ held' = held \ {h}
               /\ act' = [act EXCEPT ![t] = Local(c, 0, FALSE, <<o>> \o tl[t][c].objs, NULL)]
               /\ tl' = [tl EXCEPT ![t][c] = [@ EXCEPT !.objs = <<>>, !.objlen = 0]]
    BY DEF DeallocateFlush
  <1>3. /\ pc[t] = "ready" /\ pc' = [pc EXCEPT ![t] = "return"]
        /\ UNCHANGED <<fields, rings, heap, central, ops>>
    BY DEF DeallocateFlush
  <1>4. PICK b : b = h[1]
    OBVIOUS
  <1>5. /\ b \in Objects /\ b[1] \in Spans /\ Fits(b, h[2]) /\ b \in Cut(b[1]) /\ Holds(PHeld, b)
        /\ \A p \in Places : Holds(p, b) => p = PHeld
    BY <1>1, <1>4, HeldIs
  <1>6. PICK c \in Classes : c = objs_size[b[1]]
    BY <1>1, <1>2, <1>4, <1>5, Types
  <1>7. PICK l \in ListType, q \in Seq(Objects) : l = tl[t][c] /\ q = l.objs /\ IsInjective(q)
    BY <1>1, Types DEF ListType, PlaceInv, ListsSound
  <1>8. PICK z : z = <<b>> \o q
    OBVIOUS
  <1>9. PICK v : v = [l EXCEPT !.objs = <<>>, !.objlen = 0]
    OBVIOUS
  <1>10. PICK a : a = Local(c, 0, FALSE, z, NULL)
    OBVIOUS
  <1>11. /\ held' = held \ {h} /\ tl' = [tl EXCEPT ![t][c] = v]
         /\ act' = [act EXCEPT ![t] = a]
    BY <1>2, <1>4, <1>6, <1>7, <1>8, <1>9, <1>10
  <1>12. b \notin ToSet(q)
    <2>1. ~Holds(PCache(t), b)
      BY <1>5, PlacesDiffer
    <2> QED
      BY <1>7, <2>1, HoldsIs DEF AtCache
  <1>13. z \in Seq(Objects) /\ z # <<>> /\ IsInjective(z) /\ ToSet(z) = {b} \cup ToSet(q)
    <2>1. Pushed(Objects, q, b, z)
      BY <1>5, <1>8, PushSeq
    <2> QED
      BY <1>7, <1>12, <2>1 DEF Pushed
  <1>14. v \in ListType /\ v.objs = <<>> /\ v.objlen = 0 /\ v.max_length = l.max_length
    BY <1>9, EmptyIs DEF ListType
  <1>15. a \in ActType /\ a.cls = c /\ a.pop = FALSE /\ a.batch = z
    BY <1>10, <1>13 DEF Local, ActType
  <1>16. OneList(t, c, v)
    BY <1>1, <1>11, <1>14, SetList, Types
  <1>17. OneThread(t, "return", a)
    <2>1. "return" \in ThreadPC
      BY DEF ThreadPC
    <2> QED
      BY <1>1, <1>3, <1>11, <1>15, <2>1, SetThread, Types
  <1>18. OthersSame(t)
    BY <1>16, <1>17 DEF OthersSame, OneList, OneThread
  <1>19. TypeOK'
    <2>1. held' \subseteq Objects \X ({0} \cup Classes)
      BY <1>1, <1>11, Types
    <2> QED
      BY <1>1, <1>3, <1>16, <1>17, <2>1 DEF TypeOK, OneList, OneThread, ListType, ActType, fields, rings, heap
  <1>20. LockInv'
    BY <1>1, <1>3, <1>17, <1>18, LockStep DEF OneThread
  <1>21. CacheBounded'
    <2>1. v.objlen = Len(v.objs) /\ v.objlen <= v.max_length
      BY <1>14, EmptyIs DEF ListType
    <2> QED
      BY <1>1, <1>16, <2>1, BoundedStep
  <1>22. act[t].batch = <<>> /\ ~act[t].pop
    BY <1>1, <1>3 DEF ThreadInv, Fetching
  <1>23. PlaceInv'
    <2>1. UNCHANGED <<objs, objs_size, pgcache, unused>>
      BY <1>3 DEF fields, heap
    <2>2. IsInjective(a.batch) /\ ToSet(a.batch) = {b} \cup ToSet(tl[t][c].objs)
      BY <1>7, <1>13, <1>15
    <2> QED
      BY <1>1, <1>3, <1>4, <1>6, <1>11, <1>14, <1>15, <1>16, <1>17, <1>22, <2>1, <2>2, FlushPlaces
  <1>24. RingInv'
    <2>1. \A u \in Threads : pc'[u] = "take" => pc[u] = "take" /\ act'[u] = act[u]
      BY <1>17 DEF OneThread
    <2>2. UNCHANGED <<objs_size, loc, rings>>
      BY <1>3 DEF fields
    <2> QED
      BY <1>1, <2>1, <2>2, RingFrame
  <1>25. ThreadInv(t)'
    <2>1. pc'[t] = "return" /\ act'[t].batch # <<>> /\ ~act'[t].pop
      BY <1>13, <1>15, <1>17 DEF OneThread
    <2>2. \A d \in Classes : tl'[t][d].max_length = tl[t][d].max_length
      BY <1>7, <1>14, <1>16 DEF OneList
    <2> QED
      BY <1>1, <1>3, <2>1, <2>2 DEF ThreadInv, Starting, Fetching
  <1>26. \A u \in Threads : ThreadInv(u)'
    BY <1>1, <1>18, <1>25, ThreadStep, Types DEF IInv
  <1>27. \A u \in Threads : SpanInv(u)'
    <2>1. \A u \in Threads : /\ pc'[u] = "take" => pc[u] = "take" /\ act'[u] = act[u]
                             /\ pc'[u] = "giveback" => pc[u] = "giveback" /\ act'[u] = act[u]
      BY <1>17 DEF OneThread
    <2>2. UNCHANGED <<objs, objs_size>>
      BY <1>3 DEF fields
    <2> QED
      BY <2>1, <2>2, SpanFrame DEF IInv
  <1>28. \A s \in Spans : CountInv(s)'
    BY <1>3, CountFrame DEF IInv, fields
  <1> QED
    BY <1>19, <1>20, <1>21, <1>23, <1>24, <1>26, <1>27, <1>28 DEF IInv

-----------------------------------------------------------------------------
(* Spans of the page heap *)

\* What the callers of fetch_span get: a span that is not carved and whose block
\* was in the page heap, and is there no more.
LEMMA FetchSpanIs ==
    ASSUME TypeOK, PlaceInv, NEW s \in Spans, fetch_span(s)
    PROVE  /\ pgcache' \in Seq(Spans) /\ unused' \subseteq Spans /\ IsInjective(pgcache')
           /\ \A x : x \in ToSet(pgcache') <=> x \in ToSet(pgcache) /\ x # s
           /\ \A x : x \in unused' <=> x \in unused /\ x # s
           /\ objs_size[s] = 0 /\ <<s, 0>> \in Cut(s)
           /\ \E p \in {PHeap, PUnused} : Holds(p, <<s, 0>>)
  <1>1. pgcache \in Seq(Spans) /\ unused \subseteq Spans /\ IsInjective(pgcache)
    BY Types DEF PlaceInv, ListsSound
  <1> DEFINE o == <<s, 0>>
  <1>2. o[1] = s /\ o[2] = 0
    OBVIOUS
  <1>3. CASE pgcache # <<>> /\ s = Head(pgcache) /\ pgcache' = Tail(pgcache) /\ unused' = unused
    <2>1. /\ Tail(pgcache) \in Seq(Spans) /\ s \in ToSet(pgcache)
          /\ IsInjective(Tail(pgcache)) /\ ToSet(Tail(pgcache)) = ToSet(pgcache) \ {s}
      BY <1>1, <1>3, PopSeq
    <2>2. objs_size[s] = 0
      BY <2>1 DEF PlaceInv
    <2>3. Holds(PHeap, o) /\ o \in Cut(s)
      BY <1>2, <2>1, <2>2, HoldsIs DEF AtHeap, Cut
    <2>4. ~Holds(PUnused, o)
      BY <2>3, Exclusive, PlacesDiffer
    <2>5. s \notin unused
      BY <1>2, <2>4, HoldsIs DEF AtUnused
    <2> QED
      BY <1>1, <1>3, <2>1, <2>2, <2>3, <2>5
  <1>4. CASE pgcache = <<>> /\ s \in unused /\ unused' = unused \ {s} /\ pgcache' = pgcache
    <2>1. objs_size[s] = 0
      BY <1>4 DEF PlaceInv
    <2>2. Holds(PUnused, o) /\ o \in Cut(s)
      BY <1>2, <1>4, <2>1, HoldsIs DEF AtUnused, Cut
    <2>3. ToSet(pgcache) = {}
      BY <1>4, EmptyIs
    <2> QED
      BY <1>1, <1>4, <2>1, <2>2, <2>3
  <1> QED
    BY <1>3, <1>4 DEF fetch_span

\* return_span_to_pgcache of a span that is not carved: its fields are as they were,
\* and it is the head of the page heap's list.
LEMMA ReturnSpanIs ==
    ASSUME TypeOK, \A x \in Spans : CountInv(x), IsInjective(pgcache), NEW s \in Spans,
           objs_size[s] = 0, s \notin ToSet(pgcache),
           return_span_to_pgcache(s), obj_refcount' = obj_refcount
    PROVE  /\ UNCHANGED <<objs_size, objs, unused>> /\ obj_len' \in [Spans -> Nat]
           /\ loc' \in [Spans -> {"pageheap", "central_list", "central_idle"}]
           /\ \A x \in Spans : objs_size[x] = 0 \/ loc'[x] = loc[x]
           /\ \A x \in Spans : CountInv(x)'
           /\ pgcache' \in Seq(Spans) /\ IsInjective(pgcache') /\ ToSet(pgcache') = {s} \cup ToSet(pgcache)
  <1>1. /\ objs \in [Spans -> Seq(Objects)] /\ obj_len \in [Spans -> Nat]
        /\ objs_size \in [Spans -> {0} \cup Classes] /\ pgcache \in Seq(Spans)
        /\ loc \in [Spans -> {"pageheap", "central_list", "central_idle"}]
    BY Types DEF TypeOK
  <1>2. objs[s] = <<>>
    BY DEF CountInv
  <1>3. /\ objs_size' = [objs_size EXCEPT ![s] = 0] /\ obj_len' = [obj_len EXCEPT ![s] = 0]
        /\ objs' = [objs EXCEPT ![s] = <<>>] /\ loc' = [loc EXCEPT ![s] = "pageheap"]
        /\ unused' = unused
    BY DEF return_span_to_pgcache
  <1>4. objs_size' = objs_size /\ objs' = objs
    BY <1>1, <1>2, <1>3
  <1>5. /\ obj_len' \in [Spans -> Nat] /\ \A x \in Spans : objs_size[x] = 0 \/ obj_len'[x] = obj_len[x]
    BY <1>1, <1>3
  <1>6. /\ loc' \in [Spans -> {"pageheap", "central_list", "central_idle"}]
        /\ \A x \in Spans : objs_size[x] = 0 \/ loc'[x] = loc[x]
    BY <1>1, <1>3
  <1>7. \A x \in Spans : CountInv(x)'
    BY <1>4, <1>5 DEF CountInv
  <1>8. PICK z : z = <<s>> \o pgcache /\ pgcache' = z
    BY DEF return_span_to_pgcache
  <1>9. Pushed(Spans, pgcache, s, z)
    BY <1>1, <1>8, PushSeq
  <1>10. z \in Seq(Spans) /\ IsInjective(z) /\ ToSet(z) = {s} \cup ToSet(pgcache)
    BY <1>9 DEF Pushed
  <1> QED
    BY <1>3, <1>4, <1>5, <1>6, <1>7, <1>8, <1>10

\* A block as large as a span goes from the page heap to the program.
LEMMA LargePlaces ==
    ASSUME TypeOK, PlaceInv, NEW s \in Spans, fetch_span(s), held' = held \cup {<<<<s, 0>>, 0>>},
           UNCHANGED <<objs, objs_size, tl, pc, act>>
    PROVE  PlaceInv'
  <1>1. \A x : Cut(x)' = Cut(x)
    BY DEF Cut
  <1>2. \A o, d : Fits(o, d)' <=> Fits(o, d)
    BY <1>1 DEF Fits
  <1>3. /\ pgcache' \in Seq(Spans) /\ unused' \subseteq Spans /\ IsInjective(pgcache')
        /\ \A x : x \in ToSet(pgcache') <=> x \in ToSet(pgcache) /\ x # s
        /\ \A x : x \in unused' <=> x \in unused /\ x # s
        /\ objs_size[s] = 0 /\ <<s, 0>> \in Cut(s)
        /\ \E p \in {PHeap, PUnused} : Holds(p, <<s, 0>>)
    BY FetchSpanIs
  <1>4. PICK b : b = <<s, 0>> /\ b[1] = s /\ b[2] = 0
    <2>1. PICK k : k = <<s, 0>>
      OBVIOUS
    <2>2. k[1] = s /\ k[2] = 0
      BY <2>1
    <2> QED
      BY <2>1, <2>2
  <1>5. PICK p \in {PHeap, PUnused} : Holds(p, b)
    BY <1>3, <1>4
  <1>6. ListsSound'
    BY <1>1, <1>2, <1>3 DEF PlaceInv, ListsSound
  <1>7. \A g \in held' : Fits(g[1], g[2])'
    <2>1. Fits(b, 0)
      BY <1>3, <1>4 DEF Fits
    <2>2. PICK k : k = <<b, 0>> /\ k[1] = b /\ k[2] = 0
      <3>1. PICK k : k = <<b, 0>>
        OBVIOUS
      <3>2. k[1] = b /\ k[2] = 0
        BY <3>1
      <3> QED
        BY <3>1, <3>2
    <2>3. held' = held \cup {k}
      BY <1>4, <2>2
    <2> QED
      BY <1>2, <2>1, <2>2, <2>3 DEF PlaceInv
  <1>8. \A x \in unused' \cup ToSet(pgcache') : objs_size'[x] = 0
    BY <1>3 DEF PlaceInv
  <1>9. \A o : AtHeld(o)' <=> AtHeld(o) \/ o = b
    BY <1>4, HeldMore
  <1>10. \A o \in Objects : /\ AtHeap(o)' <=> AtHeap(o) /\ o # b
                            /\ AtUnused(o)' <=> AtUnused(o) /\ o # b
    BY <1>3, <1>4 DEF AtHeap, AtUnused, Objects
  <1>11. \A o : /\ AtFree(o)' <=> AtFree(o)
                /\ \A u \in Threads : /\ AtCache(u, o)' <=> AtCache(u, o)
                                      /\ AtBatch(u, o)' <=> AtBatch(u, o)
                                      /\ AtGive(u, o)' <=> AtGive(u, o)
    BY DEF AtFree, AtCache, AtBatch, AtGive
  <1>12. ASSUME NEW x \in Spans, NEW o \in Cut(x)
         PROVE  Placed(o)'
    <2>1. Placed(o) /\ o \in Objects
      BY CutIs, Types DEF PlaceInv
    <2>2. CASE o # b
      <3>1. SameAll(o)
        BY <1>9, <1>10, <1>11, <2>1, <2>2 DEF SameAll
      <3> QED
        BY <2>1, <3>1, Stays
    <2>3. CASE o = b
      <3>1. Holds(PHeld, o)' /\ ~Holds(PHeap, o)' /\ ~Holds(PUnused, o)'
        BY <1>9, <1>10, <2>1, <2>3, HoldsIsNext
      <3>2. Arrives(PHeld, o)
        BY <1>9, <1>10, <1>11, <2>1 DEF Arrives
      <3>3. p \in Places /\ ~Holds(p, o)' /\ Holds(p, o)
        BY <1>5, <2>3, <3>1, PlacesDiffer
      <3> QED
        BY <2>1, <3>1, <3>2, <3>3, PlacesDiffer, Moves
    <2> QED
      BY <2>2, <2>3
  <1> QED
    BY <1>1, <1>6, <1>7, <1>8, <1>12 DEF PlaceInv

\* tc_malloc of a large block.
LEMMA MallocLargeStep ==
    ASSUME IInv, NEW t \in Threads, MallocLarge(t)
    PROVE  IInv'
  <1>1. TypeOK /\ LockInv /\ CacheBounded /\ PlaceInv /\ RingInv
    BY DEF IInv
  <1>2. PICK s \in Spans : fetch_span(s) /\ held' = held \cup {<<<<s, 0>>, 0>>}
    BY DEF MallocLarge
  <1>3. /\ ops < MaxOps /\ ops' = ops + 1
        /\ UNCHANGED <<fields, rings, central, tl, pc, act>>
    BY DEF MallocLarge
  <1>4. pgcache' \in Seq(Spans) /\ unused' \subseteq Spans
    BY <1>1, <1>2, FetchSpanIs
  <1>5. PlaceInv'
    BY <1>1, <1>2, <1>3, LargePlaces DEF fields
  <1>6. TypeOK'
    <2>1. ops' \in 0 .. MaxOps
      <3>1. ops \in 0 .. MaxOps /\ MaxOps \in Nat
        BY <1>1, Types, Consts
      <3> QED
        BY <1>3, <3>1
    <2>2. held' \subseteq Objects \X ({0} \cup Classes)
      <3>1. <<<<s, 0>>, 0>> \in Objects \X ({0} \cup Classes)
        BY DEF Objects
      <3> QED
        BY <1>1, <1>2, <3>1, Types
    <2> QED
      BY <1>1, <1>3, <1>4, <2>1, <2>2 DEF TypeOK, fields, rings
  <1>7. LockInv' /\ CacheBounded'
    BY <1>1, <1>3 DEF LockInv, CacheBounded
  <1>8. RingInv'
    BY <1>1, <1>3, RingFrame DEF fields
  <1>9. \A u \in Threads : ThreadInv(u)'
    BY <1>3 DEF IInv, ThreadInv, Starting, Fetching
  <1>10. \A u \in Threads : SpanInv(u)'
    BY <1>3, SpanFrame DEF IInv, fields
  <1>11. \A x \in Spans : CountInv(x)'
    BY <1>3, CountFrame DEF IInv, fields
  <1> QED
    BY <1>5, <1>6, <1>7, <1>8, <1>9, <1>10, <1>11 DEF IInv

\* The block of a span comes to the page heap's list, from the program or from a
\* thread's hand.
LEMMA HeapPlaces ==
    ASSUME TypeOK, PlaceInv, NEW s \in Spans, objs_size[s] = 0, UNCHANGED <<objs_size, objs, unused, tl>>,
           IsInjective(pgcache'), ToSet(pgcache') = {s} \cup ToSet(pgcache),
           NEW b, b = <<s, 0>>, NEW p \in Places, p # PHeap, Holds(p, b), ~Holds(p, b)', held' \subseteq held,
           \A u \in Threads : act'[u].batch = act[u].batch
                              /\ (act[u].batch # <<>> => act'[u].cls = act[u].cls),
           \A o : o # b => (AtHeld(o)' <=> AtHeld(o)),
           \A o : AtHeld(o)' => AtHeld(o),
           \A u \in Threads : \A o : /\ o # b => (AtGive(u, o)' <=> AtGive(u, o))
                                     /\ AtGive(u, o)' => AtGive(u, o)
    PROVE  PlaceInv'
  <1>1. \A x : Cut(x)' = Cut(x)
    BY DEF Cut
  <1>2. \A o, d : Fits(o, d)' <=> Fits(o, d)
    BY <1>1 DEF Fits
  <1>3. b[1] = s /\ b[2] = 0
    OBVIOUS
  <1>4. ListsSound'
    <2>1. \A u \in Threads : act[u].batch = <<>> => ToSet(act[u].batch) = {}
      BY EmptyIs
    <2>2. \A u \in Threads : IsInjective(act'[u].batch) /\ \A o \in ToSet(act'[u].batch) : Fits(o, act'[u].cls)
      BY <2>1 DEF PlaceInv, ListsSound
    <2> QED
      BY <1>1, <1>2, <2>2 DEF PlaceInv, ListsSound
  <1>5. \A g \in held' : Fits(g[1], g[2])'
    BY <1>2 DEF PlaceInv
  <1>6. \A x \in unused' \cup ToSet(pgcache') : objs_size'[x] = 0
    BY DEF PlaceInv
  <1>7. \A o \in Objects : AtHeap(o)' <=> AtHeap(o) \/ o = b
    BY <1>3 DEF AtHeap, Objects
  <1>8. \A o : /\ AtFree(o)' <=> AtFree(o)
               /\ AtUnused(o)' <=> AtUnused(o)
               /\ \A u \in Threads : /\ AtCache(u, o)' <=> AtCache(u, o)
                                     /\ AtBatch(u, o)' <=> AtBatch(u, o)
    BY DEF AtFree, AtUnused, AtCache, AtBatch
  <1>9. ASSUME NEW x \in Spans, NEW o \in Cut(x)
        PROVE  Placed(o)'
    <2>1. Placed(o) /\ o \in Objects
      BY CutIs, Types DEF PlaceInv
    <2>2. CASE o # b
      <3>1. SameAll(o)
        BY <1>7, <1>8, <2>1, <2>2 DEF SameAll
      <3> QED
        BY <2>1, <3>1, Stays
    <2>3. CASE o = b
      <3>1. Holds(PHeap, o)'
        BY <1>7, <2>1, <2>3, HoldsIsNext
      <3>2. Arrives(PHeap, o)
        BY <1>8 DEF Arrives
      <3> QED
        BY <2>1, <2>3, <3>1, <3>2, PlacesDiffer, Moves
    <2> QED
      BY <2>2, <2>3
  <1> QED
    BY <1>1, <1>4, <1>5, <1>6, <1>9 DEF PlaceInv

\* tc_free of a large block.
LEMMA FreeLargeStep ==
    ASSUME IInv, NEW t \in Threads, FreeLarge(t)
    PROVE  IInv'
  <1>1. TypeOK /\ LockInv /\ CacheBounded /\ PlaceInv /\ RingInv /\ \A x \in Spans : CountInv(x)
    BY DEF IInv
  <1>2. PICK h \in held : objs_size[h[1][1]] = 0 /\ held' = held \ {h} /\ return_span_to_pgcache(h[1][1])
    BY DEF FreeLarge
  <1>3. UNCHANGED <<obj_refcount, rings, central, tl, pc, act, ops>>
    BY DEF FreeLarge
  <1>4. PICK b : b = h[1]
    OBVIOUS
  <1>5. /\ b \in Objects /\ b[1] \in Spans /\ b \in Cut(b[1]) /\ Holds(PHeld, b)
        /\ \A p \in Places : Holds(p, b) => p = PHeld
    BY <1>1, <1>4, HeldIs
  <1>6. PICK s \in Spans : s = b[1]
    BY <1>5
  <1>7. objs_size[s] = 0 /\ b = <<s, 0>> /\ b[2] = 0 /\ return_span_to_pgcache(s)
    BY <1>2, <1>4, <1>5, <1>6 DEF Cut
  <1>8. s \notin ToSet(pgcache)
    <2>1. ~Holds(PHeap, b)
      BY <1>5, PlacesDiffer
    <2> QED
      BY <1>6, <1>7, <2>1, HoldsIs DEF AtHeap
  <1>9. /\ UNCHANGED <<objs_size, objs, unused>> /\ obj_len' \in [Spans -> Nat]
        /\ loc' \in [Spans -> {"pageheap", "central_list", "central_idle"}]
        /\ \A x \in Spans : objs_size[x] = 0 \/ loc'[x] = loc[x]
        /\ \A x \in Spans : CountInv(x)'
        /\ pgcache' \in Seq(Spans) /\ IsInjective(pgcache') /\ ToSet(pgcache') = {s} \cup ToSet(pgcache)
    BY <1>1, <1>3, <1>7, <1>8, ReturnSpanIs DEF PlaceInv, ListsSound
  <1>10. PlaceInv'
    <2>1. \A o : AtHeld(o)' <=> AtHeld(o) /\ o # b
      BY <1>1, <1>2, <1>4, HeldLess
    <2>2. ~Holds(PHeld, b)'
      BY <2>1, HoldsIsNext
    <2>3. \A u \in Threads : \A o : AtGive(u, o)' <=> AtGive(u, o)
      BY <1>3 DEF AtGive
    <2>4. held' \subseteq held
      BY <1>2
    <2> QED
      BY <1>1, <1>3, <1>5, <1>7, <1>9, <2>1, <2>2, <2>3, <2>4, HeapPlaces, PlacesDiffer
  <1>11. TypeOK'
    <2>1. held' \subseteq Objects \X ({0} \cup Classes)
      BY <1>1, <1>2, Types
    <2> QED
      BY <1>1, <1>3, <1>9, <2>1 DEF TypeOK, rings
  <1>12. LockInv' /\ CacheBounded'
    BY <1>1, <1>3 DEF LockInv, CacheBounded
  <1>13. RingInv'
    <2>1. PICK L \in SUBSET Spans : Sides(L)
      BY <1>1 DEF RingInv
    <2>2. \A u \in Threads : pc'[u] = "take" => act'[u].span \in L
      BY <1>3, <2>1 DEF Sides
    <2> QED
      BY <1>3, <1>9, <2>1, <2>2, SidesFrame
  <1>14. \A u \in Threads : ThreadInv(u)'
    BY <1>3 DEF IInv, ThreadInv, Starting, Fetching
  <1>15. \A u \in Threads : SpanInv(u)'
    BY <1>3, <1>9, SpanFrame DEF IInv
  <1> QED
    BY <1>9, <1>10, <1>11, <1>12, <1>13, <1>14, <1>15 DEF IInv

\* The span whose last object came back goes to the page heap.
LEMMA GiveBackSpanStep ==
    ASSUME IInv, NEW t \in Threads, GiveBackSpan(t)
    PROVE  IInv'
  <1>1. /\ TypeOK /\ LockInv /\ CacheBounded /\ PlaceInv /\ RingInv /\ ThreadInv(t) /\ SpanInv(t)
        /\ \A x \in Spans : CountInv(x)
    BY DEF IInv
  <1>2. /\ pc[t] = "giveback" /\ return_span_to_pgcache(act[t].span) /\ central' = NULL
        /\ pc' = [pc EXCEPT ![t] = "ready"] /\ act' = [act EXCEPT ![t] = Idle]
        /\ UNCHANGED <<obj_refcount, rings, tl, held, ops>>
    BY DEF GiveBackSpan
  <1>3. PICK s \in Spans : s = act[t].span /\ objs_size[s] = 0
    BY <1>1, <1>2 DEF SpanInv
  <1>4. PICK b : b = <<s, 0>> /\ b[1] = s /\ b[2] = 0
    <2>1. PICK k : k = <<s, 0>>
      OBVIOUS
    <2>2. k[1] = s /\ k[2] = 0
      BY <2>1
    <2> QED
      BY <2>1, <2>2
  <1>5. Holds(PGive(t), b) /\ b \in Cut(s)
    BY <1>2, <1>3, <1>4, HoldsIs DEF AtGive, Cut
  <1>6. s \notin ToSet(pgcache)
    <2>1. ~Holds(PHeap, b)
      BY <1>1, <1>5, PlacesDiffer, Exclusive
    <2> QED
      BY <1>4, <2>1, HoldsIs DEF AtHeap
  <1>7. /\ UNCHANGED <<objs_size, objs, unused>> /\ obj_len' \in [Spans -> Nat]
        /\ loc' \in [Spans -> {"pageheap", "central_list", "central_idle"}]
        /\ \A x \in Spans : objs_size[x] = 0 \/ loc'[x] = loc[x]
        /\ \A x \in Spans : CountInv(x)'
        /\ pgcache' \in Seq(Spans) /\ IsInjective(pgcache') /\ ToSet(pgcache') = {s} \cup ToSet(pgcache)
    BY <1>1, <1>2, <1>3, <1>6, ReturnSpanIs DEF PlaceInv, ListsSound
  <1>8. OneThread(t, "ready", Idle)
    <2>1. "ready" \in ThreadPC
      BY DEF ThreadPC
    <2> QED
      BY <1>1, <1>2, <2>1, Consts, SetThread, Types
  <1>9. Idle.batch = <<>> /\ Idle.pop = FALSE
    BY DEF Idle, Local
  <1>10. OthersSame(t)
    BY <1>2, <1>8 DEF OthersSame, OneThread
  <1>11. /\ pc'[t] = "ready" /\ act'[t].batch = <<>> /\ ~act'[t].pop /\ act[t].batch = <<>>
         /\ \A u \in Threads : u # t => pc'[u] = pc[u] /\ act'[u] = act[u]
    BY <1>1, <1>2, <1>8, <1>9 DEF OneThread, ThreadInv
  <1>12. PlaceInv'
    <2>1. \A u \in Threads : \A o : AtGive(u, o)' <=> AtGive(u, o) /\ ~(u = t /\ o = b)
      BY <1>2, <1>3, <1>4, <1>11 DEF AtGive
    <2>2. ~Holds(PGive(t), b)'
      BY <2>1, HoldsIsNext
    <2>3. \A o : AtHeld(o)' <=> AtHeld(o)
      BY <1>2 DEF AtHeld
    <2>4. \A u \in Threads : \A o : /\ o # b => (AtGive(u, o)' <=> AtGive(u, o))
                                    /\ AtGive(u, o)' => AtGive(u, o)
      BY <2>1
    <2>5. \A u \in Threads : act'[u].batch = act[u].batch
                              /\ (act[u].batch # <<>> => act'[u].cls = act[u].cls)
      BY <1>11
    <2> QED
      BY <1>1, <1>2, <1>3, <1>4, <1>5, <1>7, <2>2, <2>3, <2>4, <2>5, HeapPlaces, PlacesDiffer
  <1>13. TypeOK'
    BY <1>1, <1>2, <1>7, <1>8 DEF TypeOK, OneThread, ActType, rings
  <1>14. central = t
    BY <1>1, <1>2 DEF LockInv
  <1>15. LockInv'
    BY <1>1, <1>2, <1>10, <1>11, <1>14, LockStep
  <1>16. CacheBounded'
    BY <1>1, <1>2 DEF CacheBounded
  <1>17. RingInv'
    <2>1. PICK L \in SUBSET Spans : Sides(L)
      BY <1>1 DEF RingInv
    <2>2. \A u \in Threads : pc'[u] = "take" => act'[u].span \in L
      BY <1>11, <2>1 DEF Sides
    <2> QED
      BY <1>2, <1>7, <2>1, <2>2, SidesFrame
  <1>18. ThreadInv(t)'
    BY <1>1, <1>2, <1>11 DEF ThreadInv, Starting, Fetching
  <1>19. \A u \in Threads : ThreadInv(u)'
    BY <1>1, <1>10, <1>18, ThreadStep, Types DEF IInv
  <1>20. \A u \in Threads : SpanInv(u)'
    <2>1. \A u \in Threads : /\ pc'[u] = "take" => pc[u] = "take" /\ act'[u] = act[u]
                             /\ pc'[u] = "giveback" => pc[u] = "giveback" /\ act'[u] = act[u]
      BY <1>11
    <2> QED
      BY <1>7, <2>1, SpanFrame DEF IInv
  <1> QED
    BY <1>7, <1>12, <1>13, <1>15, <1>16, <1>17, <1>19, <1>20 DEF IInv

-----------------------------------------------------------------------------
(* The central cache: a span is carved *)

\* The free list of a span that has just been carved.
LEMMA CarvedIs ==
    ASSUME NEW s \in Spans, NEW c \in Classes, NEW z, z \in {Carved(s, c), Carved(s, c) \o <<>>}
    PROVE  /\ z \in Seq(Objects) /\ Len(z) = ObjsPerSpan[c] /\ IsInjective(z) /\ z # <<>>
           /\ \A o : o \in ToSet(z) <=> \E i \in 1 .. ObjsPerSpan[c] : o = <<s, i>>
  <1>1. PICK n \in Nat \ {0} : n = ObjsPerSpan[c]
    BY Consts
  <1>2. PICK w : w = [i \in 1 .. n |-> <<s, (n + 1) - i>>]
    OBVIOUS
  <1>3. Carved(s, c) = w
    <2>1. \A i \in 1 .. n : n + 1 - i = (n + 1) - i
      OBVIOUS
    <2> QED
      BY <1>1, <1>2, <2>1 DEF Carved
  <1>4. \A i \in 1 .. n : (n + 1) - i \in 1 .. n /\ (n + 1) - i \in Nat /\ (n + 1) - ((n + 1) - i) = i
    OBVIOUS
  <1>5. w \in [1 .. n -> Objects]
    BY <1>2, <1>4 DEF Objects
  <1>6. w \in Seq(Objects) /\ Len(w) = n
    BY <1>5
  <1>7. z = w
    BY <1>3, <1>6, ConcatEmptySeq
  <1>8. \A i \in 1 .. n : w[i] = <<s, (n + 1) - i>>
    BY <1>2
  <1>9. \A o : o \in ToSet(w) <=> \E i \in 1 .. n : o = <<s, i>>
    <2>1. \A o : o \in ToSet(w) <=> \E i \in 1 .. n : w[i] = o
      BY <1>6, ToSetIs
    <2>2. \A i \in 1 .. n : w[(n + 1) - i] = <<s, i>>
      BY <1>4, <1>8
    <2>3. ASSUME NEW o, NEW i \in 1 .. n, w[i] = o
          PROVE  \E j \in 1 .. n : o = <<s, j>>
      BY <1>4, <1>8, <2>3
    <2>4. ASSUME NEW i \in 1 .. n
          PROVE  \E j \in 1 .. n : w[j] = <<s, i>>
      BY <1>4, <2>2
    <2> QED
      BY <2>1, <2>3, <2>4
  <1>10. ASSUME NEW i \in 1 .. n, NEW j \in 1 .. n, w[i] = w[j]
         PROVE  i = j
    <2>1. <<s, (n + 1) - i>> = <<s, (n + 1) - j>>
      BY <1>8, <1>10
    <2>2. (n + 1) - i = (n + 1) - j
      BY <2>1
    <2> QED
      BY <2>2
  <1>11. IsInjective(w) /\ w # <<>>
    BY <1>6, <1>10, ToSetIs
  <1> QED
    BY <1>1, <1>6, <1>7, <1>9, <1>11

\* The blocks of the span are on its free list, and its former block is nowhere.
LEMMA CarvePlaces ==
    ASSUME TypeOK, PlaceInv, \A u \in Threads : SpanInv(u),
           NEW s \in Spans, NEW c \in Classes, fetch_span(s),
           objs_size' = [objs_size EXCEPT ![s] = c],
           NEW z, objs' = [objs EXCEPT ![s] = z], IsInjective(z),
           \A o : o \in ToSet(z) <=> \E i \in 1 .. ObjsPerSpan[c] : o = <<s, i>>,
           UNCHANGED <<tl, held>>,
           \A u \in Threads : /\ act'[u].batch = act[u].batch /\ act'[u].cls = act[u].cls
                              /\ pc[u] = "giveback" <=> pc'[u] = "giveback"
                              /\ pc[u] = "giveback" => act'[u] = act[u]
    PROVE  PlaceInv'
  <1>1. /\ objs \in [Spans -> Seq(Objects)] /\ objs_size \in [Spans -> {0} \cup Classes] /\ 0 \notin Classes
    BY Types, Consts
  <1>2. /\ IsInjective(pgcache')
        /\ \A x : x \in ToSet(pgcache') <=> x \in ToSet(pgcache) /\ x # s
        /\ \A x : x \in unused' <=> x \in unused /\ x # s
        /\ objs_size[s] = 0 /\ <<s, 0>> \in Cut(s)
        /\ \E p \in {PHeap, PUnused} : Holds(p, <<s, 0>>)
    BY FetchSpanIs
  <1>3. \A x \in Spans : x # s => objs'[x] = objs[x] /\ objs_size'[x] = objs_size[x]
    BY <1>1
  <1>4. objs'[s] = z /\ objs_size'[s] = c /\ c # 0
    BY <1>1
  <1>5. \A x \in Spans : x # s => Cut(x)' = Cut(x)
    BY <1>3 DEF Cut
  <1>6. \A o : o \in Cut(s)' <=> o \in ToSet(z)
    BY <1>4 DEF Cut
  <1>7. \A o \in Objects, d \in {0} \cup Classes : Fits(o, d) /\ o[1] # s => Fits(o, d)'
    BY <1>3, <1>5 DEF Fits, Objects
  <1>8. \A o, d : Fits(o, d) /\ o[1] = s => d = 0 /\ o = <<s, 0>>
    BY <1>2 DEF Fits, Cut
  <1>9. ListsSound'
    <2>1. \A u \in Threads, d \in Classes : IsInjective(tl'[u][d].objs) /\ \A o \in ToSet(tl'[u][d].objs) : Fits(o, d)'
      <3> TAKE u \in Threads, d \in Classes
      <3>1. IsInjective(tl[u][d].objs) /\ \A o \in ToSet(tl[u][d].objs) : Fits(o, d)
        BY DEF PlaceInv, ListsSound
      <3>2. ToSet(tl[u][d].objs) \subseteq Objects
        <4>1. tl[u][d].objs \in Seq(Objects)
          BY Types DEF ListType
        <4> QED
          BY <4>1, ToSetIs
      <3> QED
        BY <1>1, <1>7, <1>8, <3>1, <3>2
    <2>2. \A u \in Threads : IsInjective(act'[u].batch) /\ \A o \in ToSet(act'[u].batch) : Fits(o, act[u].cls)'
      <3> TAKE u \in Threads
      <3>1. IsInjective(act[u].batch) /\ \A o \in ToSet(act[u].batch) : Fits(o, act[u].cls)
        BY DEF PlaceInv, ListsSound
      <3>2. ToSet(act[u].batch) \subseteq Objects /\ act[u].cls \in Classes
        <4>1. act[u].batch \in Seq(Objects) /\ act[u].cls \in Classes
          BY Types DEF ActType
        <4> QED
          BY <4>1, ToSetIs
      <3>3. act'[u].batch = act[u].batch /\ act'[u].cls = act[u].cls
        OBVIOUS
      <3>4. \A o \in ToSet(act[u].batch) : Fits(o, act[u].cls)'
        <4> TAKE o \in ToSet(act[u].batch)
        <4>1. o[1] # s /\ o \in Objects /\ Fits(o, act[u].cls)
          BY <1>1, <1>8, <3>1, <3>2
        <4>2. objs_size'[o[1]] = act[u].cls /\ o \in Cut(o[1])'
          BY <1>7, <3>2, <4>1 DEF Fits
        <4> QED
          BY <3>3, <4>2 DEF Fits
      <3> QED
        BY <3>1, <3>3, <3>4
    <2>3. \A x \in Spans : IsInjective(objs'[x]) /\ ToSet(objs'[x]) \subseteq Cut(x)'
      <3> TAKE x \in Spans
      <3>1. CASE x = s
        BY <1>4, <1>6, <3>1
      <3>2. CASE x # s
        BY <1>3, <1>5, <3>2 DEF PlaceInv, ListsSound
      <3> QED
        BY <3>1, <3>2
    <2> QED
      BY <1>2, <2>1, <2>2, <2>3 DEF ListsSound
  <1>10. \A h \in held' : Fits(h[1], h[2])'
    <2> SUFFICES ASSUME NEW h \in held
                 PROVE  Fits(h[1], h[2])'
      OBVIOUS
    <2>1. /\ h[1] \in Objects /\ h[2] \in {0} \cup Classes /\ Fits(h[1], h[2])
          /\ \A p \in Places : Holds(p, h[1]) => p = PHeld
      BY HeldIs, Types
    <2>2. h[1] # <<s, 0>>
      BY <1>2, <2>1, PlacesDiffer
    <2> QED
      BY <1>7, <1>8, <2>1, <2>2
  <1>11. \A x \in unused' \cup ToSet(pgcache') : objs_size'[x] = 0
    <2>1. \A x \in unused' \cup ToSet(pgcache') : x \in Spans /\ x # s /\ objs_size[x] = 0
      <3>1. ToSet(pgcache) \subseteq Spans /\ unused \subseteq Spans
        BY Types, ToSetIs
      <3> QED
        BY <1>2, <3>1 DEF PlaceInv
    <2> QED
      BY <1>3, <2>1
  <1>12. \A o \in Objects : /\ AtHeap(o)' => AtHeap(o)
                            /\ AtUnused(o)' => AtUnused(o)
                            /\ o[1] # s => (AtHeap(o)' <=> AtHeap(o))
                            /\ o[1] # s => (AtUnused(o)' <=> AtUnused(o))
                            /\ o[1] # s => (AtFree(o)' <=> AtFree(o))
    BY <1>2, <1>3 DEF AtHeap, AtUnused, AtFree, Objects
  <1>13. \A o : /\ AtHeld(o)' <=> AtHeld(o)
                /\ \A u \in Threads : /\ AtCache(u, o)' <=> AtCache(u, o)
                                      /\ AtBatch(u, o)' <=> AtBatch(u, o)
                                      /\ AtGive(u, o)' <=> AtGive(u, o)
    BY DEF AtHeld, AtCache, AtBatch, AtGive
  <1>14. ASSUME NEW x \in Spans, NEW o \in Cut(x)'
         PROVE  Placed(o)'
    <2>1. CASE x # s
      <3>1. o \in Cut(x) /\ o \in Objects /\ o[1] = x
        BY <1>1, <1>5, <1>14, <2>1, CutIs
      <3>2. Placed(o)
        BY <3>1 DEF PlaceInv
      <3>3. SameAll(o)
        BY <1>12, <1>13, <2>1, <3>1 DEF SameAll
      <3> QED
        BY <3>2, <3>3, Stays
    <2>2. CASE x = s
      <3>1. o \in ToSet(z)
        BY <1>6, <1>14, <2>2
      <3>2. PICK i \in Nat : i # 0 /\ o = <<s, i>> /\ o[1] = s
        BY <1>1, <3>1, Consts
      <3>3. o \in Objects /\ o \notin Cut(s)
        BY <1>2, <3>2 DEF Objects, Cut
      <3>4. \A p \in Places : ~Holds(p, o)
        BY <3>2, <3>3, OnlyCut
      <3>5. Holds(PFree, o)'
        BY <1>4, <3>1, <3>2, HoldsIsNext DEF AtFree
      <3>6. Arrives(PFree, o)
        BY <1>12, <1>13, <3>3 DEF Arrives
      <3> QED
        BY <3>4, <3>5, <3>6, PlacesDiffer, Appears
    <2> QED
      BY <2>1, <2>2
  <1> QED
    BY <1>9, <1>10, <1>11, <1>14 DEF PlaceInv

\* A span that is alone in its ring may change its colour.
LEMMA LooseColour ==
    ASSUME NEW nx, NEW pv, NEW K, Cycles(nx, pv, K), NEW s \in Spans, nx[s] = s,
           NEW M, \A x \in Spans \ {s} : M[x] = K[x]
    PROVE  Loose(nx, pv, s, M)
  <1>1. /\ nx \in [Spans -> Spans] /\ pv \in [Spans -> Spans]
        /\ \A x \in Spans : nx[pv[x]] = x /\ pv[nx[x]] = x /\ K[nx[x]] = K[x]
    BY DEF Cycles
  <1>2. pv[s] = s /\ [pv EXCEPT ![s] = s] = pv
    BY <1>1
  <1>3. \A x \in Spans : M[nx[x]] = M[x]
    <2> TAKE x \in Spans
    <2>1. CASE x = s
      BY <2>1
    <2>2. CASE x # s
      <3>1. nx[x] # s /\ nx[x] \in Spans
        BY <1>1, <1>2, <2>2
      <3> QED
        BY <1>1, <2>2, <3>1
    <2> QED
      BY <2>1, <2>2
  <1> QED
    BY <1>1, <1>2, <1>3 DEF Loose, Cycles

\* The span is pushed on the list of the class.
LEMMA CarveRings ==
    ASSUME TypeOK, NEW L \in SUBSET Spans, Sides(L), NEW s \in Spans, NEW c \in Classes, objs_size[s] = 0,
           objs_size' = [objs_size EXCEPT ![s] = c], loc' = [loc EXCEPT ![s] = "central_list"],
           NEW r, r = spanlist_push([head |-> list[c], next |-> next, prev |-> prev], s),
           next' = r.next, prev' = r.prev, list' = [list EXCEPT ![c] = r.head], idle' = idle,
           \A u \in Threads : pc'[u] = "take" => act'[u].span = s
    PROVE  RingInv'
  <1>1. /\ objs_size \in [Spans -> {0} \cup Classes] /\ 0 \notin Classes
        /\ list \in [Classes -> Spans \cup {NULL}] /\ idle \in [Classes -> Spans \cup {NULL}]
        /\ loc \in [Spans -> {"pageheap", "central_list", "central_idle"}]
    BY Consts DEF TypeOK
  <1>2. /\ Cycles(next, prev, Colour(L)) /\ next[s] = s
        /\ \A x \in Spans : objs_size[x] = 0 => next[x] = x
        /\ \A x \in Spans \ L : objs_size[x] = 0 \/ loc[x] = "central_idle"
    BY DEF Sides
  <1>3. /\ \A d \in Classes : list[d] # NULL => list[d] \in L /\ objs_size[list[d]] = d /\ list[d] # s
        /\ \A d \in Classes : idle[d] # NULL => idle[d] \notin L /\ objs_size[idle[d]] = d
                                                /\ idle[d] # s /\ idle[d] \in Spans
    BY <1>1 DEF Sides
  <1>4. /\ objs_size'[s] = c /\ \A x \in Spans : x # s => objs_size'[x] = objs_size[x] /\ loc'[x] = loc[x]
    BY <1>1
  <1> DEFINE N == L \cup {s}
             M == Colour(N)'
  <1>5. M = [x \in Spans |-> <<objs_size'[x], x \in N>>]
    BY DEF Colour
  <1>6. /\ \A x \in L : x # s /\ objs_size[x] = c => M[x] = M[s]
        /\ \A x \in Spans \ {s} : M[x] = Colour(L)[x]
    <2>1. M[s] = <<c, TRUE>>
      BY <1>4, <1>5
    <2>2. \A x \in Spans \ {s} : M[x] = <<objs_size[x], x \in L>> /\ Colour(L)[x] = <<objs_size[x], x \in L>>
      BY <1>4, <1>5 DEF Colour
    <2> QED
      BY <2>1, <2>2
  <1> HIDE DEF M, N
  <1>7. Loose(next, prev, s, M)
    BY <1>2, <1>6, LooseColour
  <1>8. list[c] # NULL => M[list[c]] = M[s]
    BY <1>3, <1>6
  <1>9. list[c] \in Spans \cup {NULL}
    BY <1>1
  <1>10. /\ r.head = s /\ Cycles(r.next, r.prev, M)
         /\ \A x \in Spans : next[x] = x /\ x # s /\ x # list[c] => r.next[x] = x
    BY <1>7, <1>8, <1>9, PushRing
  <1>11. Sides(N)'
    <2>1. N \subseteq Spans
      BY DEF N
    <2>2. Cycles(next', prev', M)
      BY <1>10
    <2>3. \A x \in Spans : objs_size'[x] = 0 => next'[x] = x
      <3> TAKE x \in Spans
      <3>1. ASSUME objs_size'[x] = 0
            PROVE  next'[x] = x
        <4>1. x # s /\ objs_size[x] = 0 /\ next[x] = x
          BY <1>1, <1>2, <1>4, <3>1
        <4>2. x # list[c]
          BY <1>1, <1>3, <4>1, NullAssumption
        <4> QED
          BY <1>10, <4>1, <4>2
      <3> QED
        BY <3>1
    <2>4. \A x \in Spans \ N : objs_size'[x] = 0 \/ loc'[x] = "central_idle"
      BY <1>2, <1>4 DEF N
    <2>5. \A d \in Classes : list'[d] # NULL => list'[d] \in N /\ objs_size'[list'[d]] = d
      <3> TAKE d \in Classes
      <3>1. CASE d = c
        BY <1>1, <1>4, <1>10, <3>1 DEF N
      <3>2. CASE d # c
        <4>1. list'[d] = list[d]
          BY <1>1, <3>2
        <4> QED
          BY <1>3, <1>4, <4>1 DEF N
      <3> QED
        BY <3>1, <3>2
    <2>6. \A d \in Classes : idle'[d] # NULL => idle'[d] \notin N /\ objs_size'[idle'[d]] = d
      BY <1>3, <1>4 DEF N
    <2>7. \A u \in Threads : pc'[u] = "take" => act'[u].span \in N
      BY DEF N
    <2> QED
      BY <2>1, <2>2, <2>3, <2>4, <2>5, <2>6, <2>7 DEF Sides, M
  <1> QED
    BY <1>11 DEF RingInv, N

\* get_span_central carves a span of the page heap.
LEMMA CarveSpanStep ==
    ASSUME IInv, NEW t \in Threads, CarveSpan(t)
    PROVE  IInv'
  <1>1. /\ TypeOK /\ LockInv /\ CacheBounded /\ PlaceInv /\ RingInv /\ ThreadInv(t)
        /\ \A u \in Threads : SpanInv(u)
        /\ \A x \in Spans : CountInv(x)
    BY DEF IInv
  <1>2. PICK c \in Classes : c = act[t].cls
    BY <1>1, Types DEF ActType
  <1>3. PICK s \in Spans :
           LET r == spanlist_push([head |-> list[c], next |-> next, prev |-> prev], s)
           IN  /\ fetch_span(s)
               /\ objs_size' = [objs_size EXCEPT ![s] = c]
               /\ objs' = [objs EXCEPT ![s] = Carved(s, c) \o @]
               /\ obj_len' = [obj_len EXCEPT ![s] = @ + ObjsPerSpan[c]]
               /\ loc' = [loc EXCEPT ![s] = "central_list"]
               /\ next' = r.next /\ prev' = r.prev
               /\ list' = [list EXCEPT ![c] = r.head]
               /\ act' = [act EXCEPT ![t].span = s]
    BY <1>2 DEF CarveSpan
  <1>4. /\ pc[t] = "span" /\ pc' = [pc EXCEPT ![t] = "take"]
        /\ UNCHANGED <<obj_refcount, idle, central, tl, held, ops>>
    BY DEF CarveSpan
  <1>5. PICK r : r = spanlist_push([head |-> list[c], next |-> next, prev |-> prev], s)
    OBVIOUS
  <1>6. /\ next' = r.next /\ prev' = r.prev /\ list' = [list EXCEPT ![c] = r.head]
    BY <1>3, <1>5
  <1>7. /\ fetch_span(s) /\ objs_size' = [objs_size EXCEPT ![s] = c]
        /\ objs' = [objs EXCEPT ![s] = Carved(s, c) \o @]
        /\ obj_len' = [obj_len EXCEPT ![s] = @ + ObjsPerSpan[c]]
        /\ loc' = [loc EXCEPT ![s] = "central_list"] /\ act' = [act EXCEPT ![t].span = s]
    BY <1>3
  <1>8. /\ pgcache' \in Seq(Spans) /\ unused' \subseteq Spans /\ objs_size[s] = 0
    BY <1>1, <1>7, FetchSpanIs
  <1>9. objs[s] = <<>> /\ obj_refcount[s] = 0
    BY <1>1, <1>8 DEF CountInv
  <1>10. PICK z : z = Carved(s, c) \o <<>>
    OBVIOUS
  <1>11. objs' = [objs EXCEPT ![s] = z]
    BY <1>1, <1>7, <1>9, <1>10, Types
  <1>12. /\ z \in Seq(Objects) /\ Len(z) = ObjsPerSpan[c] /\ IsInjective(z) /\ z # <<>>
         /\ \A o : o \in ToSet(z) <=> \E i \in 1 .. ObjsPerSpan[c] : o = <<s, i>>
    BY <1>10, CarvedIs
  <1>13. PICK b \in ActType : b = act[t]
    BY <1>1, Types
  <1>14. PICK a : a = [b EXCEPT !.span = s]
    OBVIOUS
  <1>15. /\ a \in ActType /\ a.cls = b.cls /\ a.num = b.num /\ a.batch = b.batch
         /\ a.span = s /\ a.pop = b.pop
    BY <1>14, SetSpan
  <1>16. OneThread(t, "take", a)
    <2>1. "take" \in ThreadPC
      BY DEF ThreadPC
    <2>2. act' = [act EXCEPT ![t] = a]
      BY <1>1, <1>7, <1>13, <1>14, Types
    <2> QED
      BY <1>1, <1>4, <1>15, <2>1, <2>2, SetThread, Types
  <1>17. /\ pc'[t] = "take" /\ act'[t].cls = c /\ act'[t].num = act[t].num /\ act'[t].batch = act[t].batch
         /\ act'[t].span = s /\ act'[t].pop = act[t].pop
         /\ \A u \in Threads : u # t => pc'[u] = pc[u] /\ act'[u] = act[u]
    BY <1>2, <1>13, <1>15, <1>16 DEF OneThread
  <1>18. OthersSame(t)
    BY <1>4, <1>17 DEF OthersSame
  <1>19. central = t
    BY <1>1, <1>4 DEF LockInv
  <1>20. \A u \in Threads : u # t => pc[u] \notin {"span", "take", "giveback"}
    BY <1>1, <1>19, LockAlone
  <1>21. PICK n \in Nat \ {0} : n = ObjsPerSpan[c]
    BY Consts
  <1>22. /\ objs_size'[s] = c /\ objs'[s] = z /\ obj_len'[s] = obj_len[s] + n
         /\ \A x \in Spans : x # s => objs_size'[x] = objs_size[x] /\ objs'[x] = objs[x] /\ obj_len'[x] = obj_len[x]
    BY <1>1, <1>7, <1>11, <1>21, Types
  <1>23. PlaceInv'
    <2>1. \A u \in Threads : /\ act'[u].batch = act[u].batch /\ act'[u].cls = act[u].cls
                             /\ pc[u] = "giveback" <=> pc'[u] = "giveback"
                             /\ pc[u] = "giveback" => act'[u] = act[u]
      BY <1>2, <1>4, <1>17
    <2> QED
      BY <1>1, <1>4, <1>7, <1>11, <1>12, <2>1, CarvePlaces
  <1>24. RingInv'
    <2>1. PICK L \in SUBSET Spans : Sides(L)
      BY <1>1 DEF RingInv
    <2>2. \A u \in Threads : pc'[u] = "take" => act'[u].span = s
      BY <1>17, <1>20
    <2> QED
      BY <1>1, <1>4, <1>5, <1>6, <1>7, <1>8, <2>1, <2>2, CarveRings
  <1>25. next' \in [Spans -> Spans] /\ prev' \in [Spans -> Spans]
    BY <1>24 DEF RingInv, Sides, Cycles
  <1>26. list' \in [Classes -> Spans \cup {NULL}]
    <2>1. r.head = s
      BY <1>5 DEF spanlist_push
    <2> QED
      BY <1>1, <1>6, <2>1 DEF TypeOK
  <1>27. objs' \in [Spans -> Seq(Objects)] /\ objs_size' \in [Spans -> {0} \cup Classes]
    BY <1>1, <1>7, <1>11, <1>12, Types
  <1>28. obj_len' \in [Spans -> Nat]
    BY <1>1, <1>7, <1>21, Types
  <1>29. loc' \in [Spans -> {"pageheap", "central_list", "central_idle"}]
    BY <1>1, <1>7 DEF TypeOK
  <1>30. TypeOK'
    BY <1>1, <1>4, <1>8, <1>16, <1>25, <1>26, <1>27, <1>28, <1>29 DEF TypeOK, OneThread, ActType
  <1>31. LockInv'
    BY <1>1, <1>4, <1>17, <1>18, LockStep
  <1>32. CacheBounded'
    BY <1>1, <1>4 DEF CacheBounded
  <1>33. ThreadInv(t)'
    BY <1>1, <1>2, <1>4, <1>17 DEF ThreadInv, Starting, Fetching
  <1>34. \A u \in Threads : ThreadInv(u)'
    BY <1>1, <1>18, <1>33, ThreadStep, Types DEF IInv
  <1>35. \A u \in Threads : SpanInv(u)'
    BY <1>12, <1>17, <1>20, <1>22 DEF SpanInv
  <1>36. \A x \in Spans : CountInv(x)'
    <2> TAKE x \in Spans
    <2>1. CASE x = s
      <3>1. PICK m \in Nat : m = obj_len[s]
        BY <1>1, Types
      <3>2. obj_refcount'[x] + Len(objs'[x]) = n /\ obj_len'[x] >= n
        BY <1>4, <1>9, <1>12, <1>21, <1>22, <2>1, <3>1
      <3>3. c # 0
        BY Consts
      <3> QED
        BY <1>21, <1>22, <2>1, <3>2, <3>3 DEF CountInv
    <2>2. CASE x # s
      BY <1>1, <1>4, <1>22, <2>2 DEF CountInv
    <2> QED
      BY <2>1, <2>2
  <1> QED
    BY <1>23, <1>24, <1>30, <1>31, <1>32, <1>34, <1>35, <1>36 DEF IInv

-----------------------------------------------------------------------------
(* The central cache: objects are fetched *)

\* The object that allocate pops from the list it has just filled, if it does.
Popped(pop, l) == IF pop THEN {Head(l.objs)} ELSE {}

\* The thread's list after a fetch.
LEMMA FilledIs ==
    ASSUME NEW l0 \in ListType, l0.objs = <<>>, l0.objlen = 0, NEW mv \in Seq(Objects), IsInjective(mv),
           Len(mv) >= 1, Len(mv) <= l0.max_length, NEW pop \in BOOLEAN,
           NEW l, l = insert_to_threadcache(l0, mv), NEW v, v = IF pop THEN freelist_pop(l) ELSE l
    PROVE  /\ v \in ListType /\ v.max_length = l0.max_length
           /\ v.objlen = Len(v.objs) /\ v.objlen <= v.max_length /\ IsInjective(v.objs)
           /\ Popped(pop, l) \subseteq ToSet(mv) /\ ToSet(v.objs) = ToSet(mv) \ Popped(pop, l)
  <1>1. /\ l0.objlen = Len(l0.objs) /\ IsInjective(l0.objs) /\ ToSet(l0.objs) = {}
    BY EmptyIs
  <1>2. Len(mv) + l0.objlen <= l0.max_length
    <2>1. Len(mv) \in Nat /\ l0.max_length \in Nat
      BY LenProperties DEF ListType
    <2> QED
      BY <2>1
  <1>3. /\ l \in ListType /\ l.max_length = l0.max_length
        /\ l.objlen = Len(l.objs) /\ l.objlen <= l.max_length
        /\ IsInjective(l.objs) /\ ToSet(l.objs) = ToSet(mv)
    <2>1. ToSet(mv) \cap ToSet(l0.objs) = {}
      BY <1>1
    <2>2. /\ l \in ListType /\ l.max_length = l0.max_length
          /\ l.objlen = Len(l.objs) /\ l.objlen <= l.max_length
          /\ IsInjective(l.objs) /\ ToSet(l.objs) = ToSet(mv) \cup ToSet(l0.objs)
      BY <1>1, <1>2, <2>1, InsertIs
    <2> QED
      BY <1>1, <2>2
  <1>4. CASE ~pop
    BY <1>3, <1>4 DEF Popped
  <1>5. CASE pop
    <2>1. l.objs # <<>>
      <3>1. mv # <<>>
        BY ToSetIs
      <3>2. l.objs \in Seq(Objects)
        BY <1>3 DEF ListType
      <3> QED
        BY <1>3, <3>1, <3>2, ToSetIs
    <2>2. /\ v \in ListType /\ v.max_length = l.max_length
          /\ v.objlen = Len(v.objs) /\ v.objlen <= v.max_length
          /\ IsInjective(v.objs) /\ ToSet(v.objs) = ToSet(l.objs) \ {Head(l.objs)}
          /\ Head(l.objs) \in ToSet(l.objs)
      BY <1>3, <1>5, <2>1, PopIs
    <2> QED
      BY <1>3, <1>5, <2>2 DEF Popped
  <1> QED
    BY <1>4, <1>5

\* The program gets the blocks of H, having asked for class c.
Given(H, c) == held' = held \cup {<<o, c>> : o \in H}

\* Objects A of a span's free list go to a thread's cache, and those of H to the program.
Fetched(t, c, v, s, A, H, w) ==
    /\ OneList(t, c, v) /\ tl[t][c].objs = <<>> /\ objs_size[s] = c
    /\ A \subseteq ToSet(objs[s]) /\ H \subseteq A
    /\ IsInjective(v.objs) /\ ToSet(v.objs) = A \ H /\ Given(H, c)
    /\ objs' = [objs EXCEPT ![s] = w] /\ IsInjective(w) /\ ToSet(w) = ToSet(objs[s]) \ A
    /\ UNCHANGED <<objs_size, pgcache, unused>>
    /\ \A u \in Threads : /\ act'[u].batch = act[u].batch
                          /\ act[u].batch # <<>> => act'[u].cls = act[u].cls
                          /\ pc[u] = "giveback" <=> pc'[u] = "giveback"
                          /\ pc[u] = "giveback" => act'[u] = act[u]

\* Each block is in one place after that.
LEMMA FetchPlaces ==
    ASSUME TypeOK, PlaceInv, NEW t \in Threads, NEW c \in Classes, NEW v, NEW s \in Spans,
           NEW A, NEW H, NEW w, Fetched(t, c, v, s, A, H, w)
    PROVE  PlaceInv'
  <1> USE DEF Fetched
  <1>1. \A x : Cut(x)' = Cut(x)
    BY DEF Cut
  <1>2. \A o, d : Fits(o, d)' <=> Fits(o, d)
    BY <1>1 DEF Fits
  <1>3. ListsSound /\ objs \in [Spans -> Seq(Objects)]
    BY Types DEF PlaceInv
  <1>4. objs'[s] = w /\ \A x \in Spans : x # s => objs'[x] = objs[x]
    BY <1>3
  <1>5. \A o \in A : o \in Cut(s) /\ o[1] = s /\ o \in Objects /\ Fits(o, c)
    <2>1. ToSet(objs[s]) \subseteq Cut(s)
      BY <1>3 DEF ListsSound
    <2>2. \A o \in Cut(s) : o[1] = s /\ o \in Objects
      BY CutIs, Types
    <2> QED
      BY <2>1, <2>2 DEF Fits
  <1>6. tl'[t][c] = v /\ \A u \in Threads, d \in Classes : u # t \/ d # c => tl'[u][d] = tl[u][d]
    BY DEF OneList
  <1>7. ListsSound'
    <2>1. \A u \in Threads, d \in Classes :
             IsInjective(tl'[u][d].objs) /\ \A o \in ToSet(tl'[u][d].objs) : Fits(o, d)
      <3> TAKE u \in Threads, d \in Classes
      <3>1. CASE u = t /\ d = c
        BY <1>5, <1>6, <3>1
      <3>2. CASE u # t \/ d # c
        BY <1>3, <1>6, <3>2 DEF ListsSound
      <3> QED
        BY <3>1, <3>2
    <2>2. \A u \in Threads : act[u].batch = <<>> => ToSet(act[u].batch) = {}
      BY EmptyIs
    <2>3. \A u \in Threads : IsInjective(act'[u].batch) /\ \A o \in ToSet(act'[u].batch) : Fits(o, act'[u].cls)
      BY <1>3, <2>2 DEF ListsSound
    <2>4. \A x \in Spans : IsInjective(objs'[x]) /\ ToSet(objs'[x]) \subseteq Cut(x)
      BY <1>3, <1>4 DEF ListsSound
    <2>5. IsInjective(pgcache')
      BY <1>3 DEF ListsSound
    <2> QED
      BY <1>1, <1>2, <2>1, <2>3, <2>4, <2>5 DEF ListsSound
  <1>8. \A g \in held' : Fits(g[1], g[2])'
    <2> TAKE g \in held'
    <2>1. CASE g \in held
      BY <1>2, <2>1 DEF PlaceInv
    <2>2. CASE g \notin held
      <3>1. PICK o \in H : g = <<o, c>>
        BY <2>2 DEF Given
      <3>2. g[1] = o /\ g[2] = c
        BY <3>1
      <3> QED
        BY <1>2, <1>5, <3>1, <3>2
    <2> QED
      BY <2>1, <2>2
  <1>9. \A x \in unused' \cup ToSet(pgcache') : objs_size'[x] = 0
    BY DEF PlaceInv
  <1>10. \A o : AtHeld(o)' <=> AtHeld(o) \/ o \in H
    <2> TAKE o
    <2>1. AtHeld(o) => AtHeld(o)'
      BY DEF AtHeld, Given
    <2>2. ASSUME o \in H
          PROVE  AtHeld(o)'
      <3>1. <<o, c>> \in held' /\ <<o, c>>[1] = o
        BY <2>2 DEF Given
      <3> QED
        BY <3>1 DEF AtHeld
    <2>3. ASSUME AtHeld(o)'
          PROVE  AtHeld(o) \/ o \in H
      <3>1. PICK g \in held' : g[1] = o
        BY <2>3 DEF AtHeld
      <3>2. CASE g \in held
        BY <3>1, <3>2 DEF AtHeld
      <3>3. CASE g \notin held
        <4>1. PICK k \in H : g = <<k, c>>
          BY <3>3 DEF Given
        <4> QED
          BY <3>1, <4>1
      <3> QED
        BY <3>2, <3>3
    <2> QED
      BY <2>1, <2>2, <2>3
  <1>11. \A u \in Threads : \A o : AtCache(u, o)' <=> AtCache(u, o) \/ (u = t /\ o \in A \ H)
    <2> TAKE u \in Threads
    <2> TAKE o
    <2>1. CASE u # t
      BY <1>6, <2>1 DEF AtCache
    <2>2. CASE u = t
      <3>1. o \notin ToSet(tl[t][c].objs)
        BY EmptyIs
      <3>2. o \in ToSet(tl'[t][c].objs) <=> o \in A \ H
        BY <1>6
      <3> QED
        BY <1>6, <2>2, <3>1, <3>2 DEF AtCache
    <2> QED
      BY <2>1, <2>2
  <1>12. \A o \in Objects : AtFree(o)' <=> AtFree(o) /\ o \notin A
    <2> TAKE o \in Objects
    <2>1. o[1] \in Spans
      BY DEF Objects
    <2>2. CASE o[1] = s
      BY <1>4, <2>2 DEF AtFree
    <2>3. CASE o[1] # s
      BY <1>4, <1>5, <2>1, <2>3 DEF AtFree
    <2> QED
      BY <2>2, <2>3
  <1>13. \A o : /\ AtHeap(o)' <=> AtHeap(o)
                /\ AtUnused(o)' <=> AtUnused(o)
                /\ \A u \in Threads : /\ AtBatch(u, o)' <=> AtBatch(u, o)
                                      /\ AtGive(u, o)' <=> AtGive(u, o)
    BY DEF AtHeap, AtUnused, AtBatch, AtGive
  <1>14. ASSUME NEW x \in Spans, NEW o \in Cut(x)
         PROVE  Placed(o)'
    <2>1. Placed(o) /\ o \in Objects
      BY CutIs, Types DEF PlaceInv
    <2>2. CASE o \notin A
      <3>1. SameAll(o)
        BY <1>10, <1>11, <1>12, <1>13, <2>1, <2>2 DEF SameAll
      <3> QED
        BY <2>1, <3>1, Stays
    <2>3. CASE o \in A
      <3>1. Holds(PFree, o) /\ ~Holds(PFree, o)'
        BY <1>5, <1>12, <2>1, <2>3, HoldsIs, HoldsIsNext DEF AtFree
      <3>2. CASE o \in H
        <4>1. Holds(PHeld, o)'
          BY <1>10, <3>2, HoldsIsNext
        <4>2. Arrives(PHeld, o)
          BY <1>11, <1>12, <1>13, <2>1, <3>2 DEF Arrives
        <4> QED
          BY <2>1, <3>1, <4>1, <4>2, PlacesDiffer, Moves
      <3>3. CASE o \notin H
        <4>1. Holds(PCache(t), o)'
          BY <1>11, <2>3, <3>3, HoldsIsNext
        <4>2. Arrives(PCache(t), o)
          BY <1>10, <1>11, <1>12, <1>13, <2>1, <3>3 DEF Arrives
        <4> QED
          BY <2>1, <3>1, <4>1, <4>2, PlacesDiffer, Moves
      <3> QED
        BY <3>2, <3>3
    <2> QED
      BY <2>2, <2>3
  <1> QED
    BY <1>1, <1>7, <1>8, <1>9, <1>14 DEF PlaceInv

\* When two spans have the same colour.
LEMMA Colours ==
    ASSUME NEW L, NEW x \in Spans, NEW y \in Spans
    PROVE  Colour(L)[x] = Colour(L)[y] <=> objs_size[x] = objs_size[y] /\ (x \in L <=> y \in L)
  <1>1. Colour(L)[x] = <<objs_size[x], x \in L>> /\ Colour(L)[y] = <<objs_size[y], y \in L>>
    BY DEF Colour
  <1>2. PICK a, b, p, q : a = objs_size[x] /\ b = objs_size[y] /\ p = (x \in L) /\ q = (y \in L)
    OBVIOUS
  <1>3. <<a, p>> = <<b, q>> <=> a = b /\ p = q
    OBVIOUS
  <1>4. p = q <=> (x \in L <=> y \in L)
    BY <1>2
  <1> QED
    BY <1>1, <1>2, <1>3, <1>4

\* r is the record of the head h and the links nx and pv.
Rec(r, h, nx, pv) == r = [head |-> h, next |-> nx, prev |-> pv]

\* Records that the calls make of others: the span removed, the span pushed, and the
\* same links with another head.
Removal(r, s, out) == out = remove_span(r, s)
Insertion(r, s, in) == in = spanlist_push(r, s)
OtherHead(r, g, q) == q = [r EXCEPT !.head = g]

\* Its fields, and the same links with another head.
LEMMA RecIs ==
    ASSUME NEW r, NEW h, NEW nx, NEW pv, Rec(r, h, nx, pv)
    PROVE  /\ r.head = h /\ r.next = nx /\ r.prev = pv
           /\ \A g, q : OtherHead(r, g, q) => Rec(q, g, nx, pv)
  BY DEF Rec, OtherHead

\* remove_span and spanlist_push on such records.
LEMMA RemoveRec ==
    ASSUME NEW h \in Spans \cup {NULL}, NEW nx, NEW pv, NEW K, Cycles(nx, pv, K),
           NEW s \in Spans, NEW M, \A x \in Spans \ {s} : M[x] = K[x],
           NEW r, Rec(r, h, nx, pv), NEW out, Removal(r, s, out)
    PROVE  \E hd, ny, py :
              /\ Rec(out, hd, ny, py) /\ Loose(ny, py, s, M)
              /\ hd = IF h # s THEN h ELSE IF nx[s] = s THEN NULL ELSE nx[s]
              /\ \A x \in Spans : nx[x] = x => ny[x] = x
  <1>1. out = remove_span([head |-> h, next |-> nx, prev |-> pv], s)
    BY DEF Rec, Removal, Insertion
  <1>2. /\ out = [head |-> out.head, next |-> out.next, prev |-> out.prev]
        /\ out.head = IF h # s THEN h ELSE IF nx[s] = s THEN NULL ELSE nx[s]
        /\ Loose(out.next, out.prev, s, M)
        /\ \A x \in Spans : nx[x] = x => out.next[x] = x
    BY <1>1, RemoveRing
  <1>3. PICK ny, py, hd : ny = out.next /\ py = out.prev /\ hd = out.head
    OBVIOUS
  <1>4. Rec(out, hd, ny, py)
    BY <1>2, <1>3 DEF Rec
  <1> QED
    BY <1>2, <1>3, <1>4

\* The span s, alone so far, is pushed on the ring of a head of its colour ...
Pushing(h, nx, pv, s, K, r, in) ==
    /\ h \in Spans \cup {NULL} /\ s \in Spans /\ Loose(nx, pv, s, K)
    /\ h # NULL => K[h] = K[s]
    /\ Rec(r, h, nx, pv) /\ Insertion(r, s, in)

\* ... and is its head then.
PushDone(h, nx, s, K, in) ==
    \E ny, py : /\ Rec(in, s, ny, py) /\ Cycles(ny, py, K)
               /\ \A x \in Spans : nx[x] = x /\ x # s /\ x # h => ny[x] = x

\* That is what spanlist_push does.
LEMMA PushRec ==
    ASSUME NEW h, NEW nx, NEW pv, NEW s, NEW K, NEW r, NEW in, Pushing(h, nx, pv, s, K, r, in)
    PROVE  PushDone(h, nx, s, K, in)
  <1>1. /\ h \in Spans \cup {NULL} /\ s \in Spans /\ Loose(nx, pv, s, K)
        /\ h # NULL => K[h] = K[s]
        /\ in = spanlist_push([head |-> h, next |-> nx, prev |-> pv], s)
    BY DEF Pushing, Rec, Insertion
  <1>2. /\ in = [head |-> in.head, next |-> in.next, prev |-> in.prev]
        /\ in.head = s /\ Cycles(in.next, in.prev, K)
        /\ \A x \in Spans : nx[x] = x /\ x # s /\ x # h => in.next[x] = x
    BY <1>1, PushRing
  <1>3. PICK ny, py : ny = in.next /\ py = in.prev
    OBVIOUS
  <1>4. Rec(in, s, ny, py)
    BY <1>2, <1>3 DEF Rec
  <1> QED
    BY <1>2, <1>3, <1>4 DEF PushDone

\* remove_span from one ring and spanlist_push to another of the colour that the span
\* then has.
Moving(h, g, nx, pv, K, s, M, r, out, q, in) ==
    /\ h \in Spans \cup {NULL} /\ g \in Spans \cup {NULL} /\ s \in Spans /\ Cycles(nx, pv, K)
    /\ \A x \in Spans \ {s} : M[x] = K[x]
    /\ g # NULL => M[g] = M[s]
    /\ Rec(r, h, nx, pv) /\ Removal(r, s, out) /\ OtherHead(out, g, q) /\ Insertion(q, s, in)

\* The head that remove_span leaves, and the rings after both calls.
LEMMA MoveRec ==
    ASSUME NEW h, NEW g, NEW nx, NEW pv, NEW K, NEW s, NEW M, NEW r, NEW out, NEW q, NEW in,
           Moving(h, g, nx, pv, K, s, M, r, out, q, in)
    PROVE  /\ out.head = IF h # s THEN h ELSE IF nx[s] = s THEN NULL ELSE nx[s]
           /\ PushDone(g, nx, s, M, in)
  <1>1. PICK hd, ny, py :
           /\ Rec(out, hd, ny, py) /\ Loose(ny, py, s, M)
           /\ hd = IF h # s THEN h ELSE IF nx[s] = s THEN NULL ELSE nx[s]
           /\ \A x \in Spans : nx[x] = x => ny[x] = x
    BY RemoveRec DEF Moving
  <1>2. out.head = hd /\ Rec(q, g, ny, py)
    BY <1>1, RecIs DEF Moving
  <1>3. Pushing(g, ny, py, s, M, q, in)
    BY <1>1, <1>2 DEF Pushing, Moving
  <1>4. PushDone(g, ny, s, M, in)
    BY <1>3, PushRec
  <1>5. PushDone(g, nx, s, M, in)
    BY <1>1, <1>4 DEF PushDone
  <1> QED
    BY <1>1, <1>2, <1>5

\* A span that has no object left goes from the list of its class to the idle ring.
LEMMA FullRings ==
    ASSUME TypeOK, NEW L \in SUBSET Spans, Sides(L), NEW s \in L, NEW c \in Classes, objs_size[s] = c,
           UNCHANGED objs_size, loc' = [loc EXCEPT ![s] = "central_idle"],
           NEW r, Rec(r, list[c], next, prev), NEW out, Removal(r, s, out),
           NEW q, OtherHead(out, idle[c], q), NEW in, Insertion(q, s, in),
           list' = [list EXCEPT ![c] = out.head], idle' = [idle EXCEPT ![c] = in.head],
           next' = in.next, prev' = in.prev,
           \A u \in Threads : pc'[u] # "take"
    PROVE  RingInv' /\ list' \in [Classes -> Spans \cup {NULL}] /\ idle' \in [Classes -> Spans \cup {NULL}]
  <1>1. /\ objs_size \in [Spans -> {0} \cup Classes] /\ 0 \notin Classes /\ NULL \notin Spans
        /\ list \in [Classes -> Spans \cup {NULL}] /\ idle \in [Classes -> Spans \cup {NULL}]
        /\ loc \in [Spans -> {"pageheap", "central_list", "central_idle"}] /\ s \in Spans
    BY Consts DEF TypeOK
  <1>2. /\ Cycles(next, prev, Colour(L))
        /\ \A x \in Spans : objs_size[x] = 0 => next[x] = x
        /\ \A x \in Spans \ L : objs_size[x] = 0 \/ loc[x] = "central_idle"
        /\ \A d \in Classes : list[d] # NULL => list[d] \in L /\ objs_size[list[d]] = d
        /\ \A d \in Classes : idle[d] # NULL => idle[d] \notin L /\ objs_size[idle[d]] = d
    BY DEF Sides
  <1>3. next[s] \in L /\ objs_size[next[s]] = c
    <2>1. next[s] \in Spans /\ Colour(L)[next[s]] = Colour(L)[s]
      BY <1>1, <1>2 DEF Cycles
    <2> QED
      BY <1>1, <2>1, Colours
  <1> DEFINE N == L \ {s}
             M == Colour(N)
  <1>4. \A x \in Spans \ {s} : M[x] = Colour(L)[x]
    <2> TAKE x \in Spans \ {s}
    <2>1. Colour(L)[x] = <<objs_size[x], x \in L>> /\ M[x] = <<objs_size[x], x \in N>>
      BY DEF Colour
    <2>2. (x \in N) = (x \in L)
      OBVIOUS
    <2> HIDE DEF M, N
    <2> QED
      BY <2>1, <2>2
  <1>5. list[c] \in Spans \cup {NULL} /\ idle[c] \in Spans \cup {NULL}
    BY <1>1
  <1>6. idle[c] # NULL => M[idle[c]] = M[s]
    BY <1>1, <1>2, <1>5, Colours
  <1> HIDE DEF M, N
  <1>7. PICK hd : hd = out.head
    OBVIOUS
  <1>10. /\ out.head = IF list[c] # s THEN list[c] ELSE IF next[s] = s THEN NULL ELSE next[s]
         /\ PushDone(idle[c], next, s, M, in)
    <2>1. Moving(list[c], idle[c], next, prev, Colour(L), s, M, r, out, q, in)
      BY <1>1, <1>2, <1>4, <1>5, <1>6 DEF Moving
    <2> QED
      BY <2>1, MoveRec
  <1>11. /\ in.head = s /\ Cycles(in.next, in.prev, M)
         /\ \A x \in Spans : next[x] = x /\ x # s /\ x # idle[c] => in.next[x] = x
    <2>1. PICK ny, py :
             /\ Rec(in, s, ny, py) /\ Cycles(ny, py, M)
             /\ \A x \in Spans : next[x] = x /\ x # s /\ x # idle[c] => ny[x] = x
      BY <1>10 DEF PushDone
    <2>2. in.head = s /\ in.next = ny /\ in.prev = py
      BY <2>1, RecIs
    <2> QED
      BY <2>1, <2>2
  <1>12. /\ hd # NULL => hd \in N /\ objs_size[hd] = c
         /\ hd \in Spans \cup {NULL}
    BY <1>1, <1>2, <1>3, <1>7, <1>10 DEF N
  <1>13. /\ list'[c] = hd /\ idle'[c] = s
         /\ \A d \in Classes : d # c => list'[d] = list[d] /\ idle'[d] = idle[d]
         /\ list' \in [Classes -> Spans \cup {NULL}] /\ idle' \in [Classes -> Spans \cup {NULL}]
    BY <1>1, <1>7, <1>11, <1>12
  <1>14. Sides(N)'
    <2>1. N \subseteq Spans
      BY DEF N
    <2>2. Cycles(next', prev', M) /\ M = Colour(N)'
      BY <1>11 DEF M, Colour
    <2>3. \A x \in Spans : objs_size[x] = 0 => next'[x] = x
      <3> TAKE x \in Spans
      <3>1. ASSUME objs_size[x] = 0
            PROVE  next'[x] = x
        <4>1. x # s /\ next[x] = x /\ x # idle[c]
          BY <1>1, <1>2, <3>1
        <4> QED
          BY <1>11, <4>1
      <3> QED
        BY <3>1
    <2>4. \A x \in Spans \ N : objs_size[x] = 0 \/ loc'[x] = "central_idle"
      BY <1>1, <1>2 DEF N
    <2>5. \A d \in Classes : list'[d] # NULL => list'[d] \in N /\ objs_size[list'[d]] = d
      BY <1>2, <1>12, <1>13 DEF N
    <2>6. \A d \in Classes : idle'[d] # NULL => idle'[d] \notin N /\ objs_size[idle'[d]] = d
      BY <1>2, <1>13 DEF N
    <2> QED
      BY <2>1, <2>2, <2>3, <2>4, <2>5, <2>6 DEF Sides
  <1>15. N \in SUBSET Spans
    BY DEF N
  <1> QED
    BY <1>13, <1>14, <1>15 DEF RingInv

\* How many objects fetch_objs takes: one at least, and no more than were asked for
\* and than there are.
LEMMA FetchCount ==
    ASSUME NEW k \in Nat, NEW le \in Nat, NEW re \in Nat, NEW m \in Nat, k >= 1, m >= 1,
           re + m <= le, NEW n, n = Lesser(k, Lesser(le - re, m))
    PROVE  n \in Nat /\ n >= 1 /\ n <= k /\ n <= m
  BY DEF Lesser

\* Where the thread goes on.
LEMMA ResumeIs ==
    ASSUME TypeOK, NEW t \in Threads, NEW c \in Classes, c = act[t].cls, Resume(t)
    PROVE  \/ /\ ~act[t].pop /\ c < NClasses /\ c + 1 \in Classes
              /\ OneThread(t, "init", Local(c + 1, 0, FALSE, <<>>, NULL))
           \/ /\ act[t].pop \/ c = NClasses
              /\ OneThread(t, "ready", Idle)
  <1>1. "init" \in ThreadPC /\ "ready" \in ThreadPC
    BY DEF ThreadPC
  <1>2. CASE ~act[t].pop /\ c < NClasses
    <2>1. c + 1 \in Classes
      BY <1>2, Consts
    <2>2. Local(c + 1, 0, FALSE, <<>>, NULL) \in ActType
      BY <2>1, EmptyIs DEF Local, ActType
    <2>3. /\ pc' = [pc EXCEPT ![t] = "init"]
          /\ act' = [act EXCEPT ![t] = Local(c + 1, 0, FALSE, <<>>, NULL)]
      BY <1>2 DEF Resume
    <2> QED
      BY <1>1, <1>2, <2>1, <2>2, <2>3, SetThread, Types
  <1>3. CASE ~(~act[t].pop /\ c < NClasses)
    <2>1. pc' = [pc EXCEPT ![t] = "ready"] /\ act' = [act EXCEPT ![t] = Idle]
      BY <1>3 DEF Resume
    <2>2. OneThread(t, "ready", Idle)
      BY <1>1, <2>1, Consts, SetThread, Types
    <2>3. act[t].pop \/ c = NClasses
      <3>1. c \in Nat /\ NClasses \in Nat /\ c <= NClasses
        BY Consts
      <3> QED
        BY <1>3, <3>1
    <2> QED
      BY <2>2, <2>3
  <1> QED
    BY <1>2, <1>3

\* What is known of a thread that goes on after a fetch.
LEMMA ResumeInv ==
    ASSUME TypeOK, NEW t \in Threads, ThreadInv(t), pc[t] = "take", NEW c \in Classes, c = act[t].cls,
           Resume(t), NEW v, OneList(t, c, v), v.max_length = tl[t][c].max_length
    PROVE  /\ ThreadInv(t)' /\ pc'[t] \in {"init", "ready"} /\ act'[t].batch = <<>>
           /\ pc' \in [Threads -> ThreadPC] /\ act' \in [Threads -> ActType]
           /\ \A u \in Threads : u # t => pc'[u] = pc[u] /\ act'[u] = act[u]
  <1>1. /\ tl'[t][c].max_length = tl[t][c].max_length
        /\ \A d \in Classes : d # c => tl'[t][d] = tl[t][d]
    BY DEF OneList
  <1>2. tl[t][c].max_length >= 1
    <2>1. act[t].num >= 1 /\ act[t].num <= tl[t][c].max_length
      BY DEF ThreadInv, Fetching
    <2>2. act[t].num \in Nat /\ tl[t][c].max_length \in Nat
      BY Types DEF ActType, ListType
    <2> QED
      BY <2>1, <2>2
  <1>3. CASE /\ ~act[t].pop /\ c < NClasses /\ c + 1 \in Classes
             /\ OneThread(t, "init", Local(c + 1, 0, FALSE, <<>>, NULL))
    <2> DEFINE a == Local(c + 1, 0, FALSE, <<>>, NULL)
    <2>1. a.cls = c + 1 /\ a.batch = <<>> /\ a.pop = FALSE
      BY DEF Local
    <2> HIDE DEF a
    <2>2. pc'[t] = "init" /\ act'[t].cls = c + 1 /\ act'[t].batch = <<>> /\ ~act'[t].pop
      BY <1>3, <2>1 DEF OneThread, a
    <2>3. \A d \in Classes : d > c => tl[t][d].objs = <<>>
      BY <1>3 DEF ThreadInv, Starting, Fetching
    <2>4. \A d \in Classes : d < c => tl[t][d].max_length >= 1
      BY DEF ThreadInv
    <2>5. \A d \in Classes : /\ d > c + 1 => d > c /\ d # c
                             /\ d < c + 1 => d < c \/ d = c
      BY Consts
    <2>6. c + 1 > c /\ c + 1 # c
      BY Consts
    <2>7. \A d \in Classes : d > c + 1 => tl'[t][d].objs = <<>>
      BY <1>1, <2>3, <2>5
    <2>8. \A d \in Classes : d < c + 1 => tl'[t][d].max_length >= 1
      BY <1>1, <1>2, <2>4, <2>5
    <2>9. tl'[t][c + 1].objs = <<>>
      BY <1>1, <1>3, <2>3, <2>6
    <2>10. ThreadInv(t)'
      BY <2>2, <2>7, <2>8, <2>9 DEF ThreadInv, Starting, Fetching
    <2> QED
      BY <1>3, <2>2, <2>10 DEF OneThread
  <1>4. CASE (act[t].pop \/ c = NClasses) /\ OneThread(t, "ready", Idle)
    <2>1. Idle.batch = <<>> /\ Idle.pop = FALSE
      BY DEF Idle, Local
    <2>2. pc'[t] = "ready" /\ act'[t].batch = <<>> /\ ~act'[t].pop
      BY <1>4, <2>1 DEF OneThread
    <2>3. \A d \in Classes : d # c => tl[t][d].max_length >= 1
      <3> TAKE d \in Classes
      <3>1. c = NClasses /\ d # c => d < c
        BY Consts
      <3>2. act[t].pop => ~Starting(t)
        BY DEF Starting
      <3> QED
        BY <1>4, <3>1, <3>2 DEF ThreadInv
    <2>4. ThreadInv(t)'
      BY <1>1, <1>2, <2>2, <2>3 DEF ThreadInv, Starting, Fetching
    <2> QED
      BY <1>4, <2>2, <2>4 DEF OneThread
  <1> QED
    BY <1>3, <1>4, ResumeIs

\* When tc_malloc waits for it the program gets one of the fetched objects.
Gave(t) ==
    IF act[t].pop
    THEN \E o : AtFree(o) /\ o \in Cut(o[1]) /\ o[1] \in Spans /\ held' = held \cup {<<o, act[t].cls>>}
    ELSE held' = held

\* fetch_objs, the unlock, insert_to_threadcache and the pop.
LEMMA FetchObjsStep ==
    ASSUME IInv, NEW t \in Threads, FetchObjs(t)
    PROVE  IInv' /\ Gave(t)
  <1>1. /\ TypeOK /\ LockInv /\ CacheBounded /\ PlaceInv /\ RingInv /\ ThreadInv(t) /\ SpanInv(t)
        /\ \A x \in Spans : CountInv(x)
    BY DEF IInv
  <1>2. pc[t] = "take" /\ central' = NULL /\ Resume(t) /\ UNCHANGED <<obj_len, objs_size, heap, ops>>
    BY DEF FetchObjs
  <1>3. PICK c \in Classes, k \in Nat, pop \in BOOLEAN : c = act[t].cls /\ k = act[t].num /\ pop = act[t].pop
    BY <1>1, Types DEF ActType
  <1>4. PICK s \in Spans : s = act[t].span /\ objs[s] # <<>> /\ objs_size[s] = c
    BY <1>1, <1>2, <1>3 DEF SpanInv
  <1>5. PICK fr \in Seq(Objects), le \in Nat, re \in Nat, m \in Nat :
           fr = objs[s] /\ le = obj_len[s] /\ re = obj_refcount[s] /\ m = Len(fr)
    BY <1>1, Types, LenProperties
  <1>6. PICK N \in Nat : N = ObjsPerSpan[c] /\ re + m = N /\ le >= N
    <2>1. ObjsPerSpan[c] \in Nat /\ c # 0
      BY Consts
    <2> QED
      BY <1>1, <1>4, <1>5, <2>1 DEF CountInv
  <1>7. PICK l0 \in ListType : l0 = tl[t][c] /\ l0.objs = <<>> /\ l0.objlen = 0 /\ k >= 1 /\ k <= l0.max_length
    <2>1. tl[t][c].objs = <<>> /\ k >= 1 /\ k <= tl[t][c].max_length
      BY <1>1, <1>2, <1>3 DEF ThreadInv, Fetching
    <2>2. tl[t][c].objlen = 0
      BY <1>1, <2>1, EmptyIs DEF CacheBounded
    <2> QED
      BY <1>1, <2>1, <2>2, Types
  <1>8. m >= 1
    BY <1>4, <1>5, ToSetIs
  <1>9. PICK n : n = Lesser(k, Lesser(le - re, m))
    OBVIOUS
  <1>10. n \in Nat /\ n >= 1 /\ n <= k /\ n <= m
    BY <1>6, <1>7, <1>8, <1>9, FetchCount
  <1>11. PICK mv, w : SplitAt(Objects, fr, n, mv, w)
    <2>1. IsInjective(fr) /\ n \in Nat /\ n <= Len(fr)
      BY <1>1, <1>5, <1>10 DEF PlaceInv, ListsSound
    <2> QED
      BY <2>1, CutSeq
  <1>43. /\ mv \in Seq(Objects) /\ Len(mv) = n /\ IsInjective(mv)
         /\ w \in Seq(Objects) /\ Len(w) = m - n /\ IsInjective(w)
         /\ ToSet(mv) \cap ToSet(w) = {} /\ ToSet(mv) \cup ToSet(w) = ToSet(fr)
    BY <1>5, <1>11 DEF SplitAt
  <1>44. mv = SubSeq(fr, 1, n) /\ w = SubSeq(fr, n + 1, Len(fr))
    BY <1>11 DEF SplitAt
  <1>12. PICK l : l = insert_to_threadcache(l0, mv)
    OBVIOUS
  <1>13. PICK v : v = IF pop THEN freelist_pop(l) ELSE l
    OBVIOUS
  <1>14. PICK r : Rec(r, list[c], next, prev)
    BY DEF Rec
  <1>15. PICK out : Removal(r, s, out)
    BY DEF Removal
  <1>16. PICK q : OtherHead(out, idle[c], q)
    BY DEF OtherHead
  <1>17. PICK in : Insertion(q, s, in)
    BY DEF Insertion
  <1>18. objs' = [objs EXCEPT ![s] = w] /\ obj_refcount' = [obj_refcount EXCEPT ![s] = re + n]
    BY <1>1, <1>3, <1>4, <1>5, <1>9, <1>44, Types DEF FetchObjs
  <1>19. tl' = [tl EXCEPT ![t][c] = v]
    BY <1>3, <1>4, <1>5, <1>7, <1>9, <1>44, <1>12, <1>13 DEF FetchObjs
  <1>20. held' = IF pop THEN held \cup {<<Head(l.objs), c>>} ELSE held
    BY <1>3, <1>4, <1>5, <1>7, <1>9, <1>44, <1>12 DEF FetchObjs
  <1>21. \/ /\ list' = [list EXCEPT ![c] = out.head] /\ idle' = [idle EXCEPT ![c] = in.head]
            /\ next' = in.next /\ prev' = in.prev /\ loc' = [loc EXCEPT ![s] = "central_idle"]
         \/ UNCHANGED <<rings, loc>>
    BY <1>3, <1>4, <1>14, <1>15, <1>16, <1>17 DEF FetchObjs, Rec, Removal, OtherHead, Insertion
  <1> DEFINE H == Popped(pop, l)
  <1>22. /\ v \in ListType /\ v.max_length = l0.max_length
         /\ v.objlen = Len(v.objs) /\ v.objlen <= v.max_length /\ IsInjective(v.objs)
         /\ H \subseteq ToSet(mv) /\ ToSet(v.objs) = ToSet(mv) \ H
    <2>1. Len(mv) >= 1 /\ Len(mv) <= l0.max_length /\ IsInjective(mv)
      <3>1. l0.max_length \in Nat
        BY DEF ListType
      <3> QED
        BY <1>7, <1>10, <1>43, <3>1
    <2> QED
      BY <1>7, <1>12, <1>13, <1>43, <2>1, FilledIs
  <1>23. Given(H, c)
    <2>1. CASE pop
      BY <1>20, <2>1 DEF Popped, Given
    <2>2. CASE ~pop
      BY <1>20, <2>2 DEF Popped, Given
    <2> QED
      BY <2>1, <2>2
  <1> HIDE DEF H
  <1>24. OneList(t, c, v)
    BY <1>1, <1>19, <1>22, SetList, Types
  <1>25. /\ ThreadInv(t)' /\ pc'[t] \in {"init", "ready"} /\ act'[t].batch = <<>>
         /\ pc' \in [Threads -> ThreadPC] /\ act' \in [Threads -> ActType]
         /\ \A u \in Threads : u # t => pc'[u] = pc[u] /\ act'[u] = act[u]
    BY <1>1, <1>2, <1>3, <1>7, <1>22, <1>24, ResumeInv
  <1>26. OthersSame(t)
    BY <1>24, <1>25 DEF OthersSame, OneList
  <1>27. central = t
    BY <1>1, <1>2 DEF LockInv
  <1>28. \A u \in Threads : u # t => pc[u] \notin {"span", "take", "giveback"}
    BY <1>1, <1>27, LockAlone
  <1>29. \A u \in Threads : pc'[u] # "take" /\ pc'[u] # "giveback"
    BY <1>25, <1>28
  <1>30. ToSet(w) = ToSet(objs[s]) \ ToSet(mv) /\ ToSet(mv) \subseteq ToSet(objs[s])
    BY <1>5, <1>43
  <1>31. PlaceInv'
    <2>1. \A u \in Threads : /\ act'[u].batch = act[u].batch
                             /\ act[u].batch # <<>> => act'[u].cls = act[u].cls
                             /\ pc[u] = "giveback" <=> pc'[u] = "giveback"
                             /\ pc[u] = "giveback" => act'[u] = act[u]
      BY <1>1, <1>2, <1>25, <1>28 DEF ThreadInv
    <2>2. IsInjective(w) /\ UNCHANGED <<objs_size, pgcache, unused>> /\ tl[t][c].objs = <<>>
      BY <1>2, <1>7, <1>43 DEF heap
    <2> QED
      <3>1. Fetched(t, c, v, s, ToSet(mv), H, w)
        BY <1>4, <1>18, <1>22, <1>23, <1>24, <1>30, <2>1, <2>2 DEF Fetched
      <3> QED
        BY <1>1, <3>1, FetchPlaces
  <1>32. RingInv' /\ list' \in [Classes -> Spans \cup {NULL}] /\ idle' \in [Classes -> Spans \cup {NULL}]
         /\ loc' \in [Spans -> {"pageheap", "central_list", "central_idle"}]
    <2>1. PICK L \in SUBSET Spans : Sides(L)
      BY <1>1 DEF RingInv
    <2>2. s \in L
      BY <1>2, <1>4, <2>1 DEF Sides
    <2>3. CASE /\ list' = [list EXCEPT ![c] = out.head] /\ idle' = [idle EXCEPT ![c] = in.head]
               /\ next' = in.next /\ prev' = in.prev /\ loc' = [loc EXCEPT ![s] = "central_idle"]
      <3>1. RingInv' /\ list' \in [Classes -> Spans \cup {NULL}] /\ idle' \in [Classes -> Spans \cup {NULL}]
        BY <1>1, <1>2, <1>4, <1>14, <1>15, <1>16, <1>17, <1>29, <2>1, <2>2, <2>3, FullRings
      <3>2. loc' \in [Spans -> {"pageheap", "central_list", "central_idle"}]
        BY <1>1, <2>3 DEF TypeOK
      <3> QED
        BY <3>1, <3>2
    <2>4. CASE UNCHANGED <<rings, loc>>
      <3>1. RingInv'
        BY <1>2, <1>29, <2>1, <2>4, SidesFrame
      <3> QED
        BY <1>1, <2>4, <3>1 DEF TypeOK, rings
    <2> QED
      BY <1>21, <2>3, <2>4
  <1>33. next' \in [Spans -> Spans] /\ prev' \in [Spans -> Spans]
    BY <1>32 DEF RingInv, Sides, Cycles
  <1>34. objs' \in [Spans -> Seq(Objects)] /\ obj_refcount' \in [Spans -> Nat]
    BY <1>1, <1>10, <1>18, <1>43, Types
  <1>35. held' \subseteq Objects \X ({0} \cup Classes)
    <2>1. ToSet(mv) \subseteq Objects
      BY <1>43, ToSetIs
    <2> QED
      BY <1>1, <1>22, <1>23, <2>1, Types DEF Given
  <1>36. tl' \in [Threads -> [Classes -> ListType]]
    BY <1>24 DEF OneList
  <1>37. TypeOK'
    <2>1. pgcache' = pgcache /\ unused' = unused
      BY <1>2 DEF heap
    <2> QED
      BY <1>1, <1>2, <1>25, <1>32, <1>33, <1>34, <1>35, <1>36, <2>1 DEF TypeOK, ActType, ListType
  <1>38. LockInv'
    BY <1>1, <1>2, <1>25, <1>26, <1>27, LockStep
  <1>39. CacheBounded'
    BY <1>1, <1>22, <1>24, BoundedStep
  <1>40. \A u \in Threads : ThreadInv(u)'
    BY <1>1, <1>25, <1>26, ThreadStep, Types DEF IInv
  <1>41. \A u \in Threads : SpanInv(u)'
    BY <1>29 DEF SpanInv
  <1>42. \A x \in Spans : CountInv(x)'
    <2> TAKE x \in Spans
    <2>1. CASE x = s
      <3>1. objs'[s] = w /\ obj_refcount'[s] = re + n /\ obj_len'[s] = le /\ objs_size'[s] = c
        BY <1>1, <1>2, <1>4, <1>5, <1>18, Types
      <3>2. (re + n) + Len(w) = N
        BY <1>6, <1>10, <1>43
      <3>3. c # 0
        BY Consts
      <3> QED
        BY <1>6, <2>1, <3>1, <3>2, <3>3 DEF CountInv
    <2>2. CASE x # s
      BY <1>1, <1>2, <1>18, <2>2, Types DEF CountInv
    <2> QED
      BY <2>1, <2>2
  <1>45. Gave(t)
    <2>1. CASE pop
      <3>1. PICK o : o = Head(l.objs)
        OBVIOUS
      <3>2. o \in ToSet(objs[s])
        BY <1>22, <1>30, <2>1, <3>1 DEF H, Popped
      <3>3. o \in Cut(s) /\ o[1] = s
        BY <1>1, <3>2, CutIs, Types DEF PlaceInv, ListsSound
      <3> QED
        BY <1>3, <1>20, <2>1, <3>1, <3>2, <3>3 DEF Gave, AtFree
    <2>2. CASE ~pop
      BY <1>3, <1>20, <2>2 DEF Gave
    <2> QED
      BY <2>1, <2>2
  <1> QED
    BY <1>31, <1>32, <1>37, <1>38, <1>39, <1>40, <1>41, <1>42, <1>45 DEF IInv

-----------------------------------------------------------------------------
(* The central cache: objects come back *)

\* A sequence without repetition is no longer than another that has all its
\* elements.
LEMMA PartCount ==
    ASSUME NEW S, NEW a \in Seq(S), NEW b \in Seq(S), IsInjective(a), IsInjective(b),
           ToSet(a) \subseteq ToSet(b)
    PROVE  Len(a) <= Len(b)
  BY InjectiveCount, FS_Subset

\* The free list ob[x] of a span after the loop.
Refilled(batch, ob, x) ==
    /\ IsInjective(ob[x]) /\ ToSet(ob[x]) \subseteq Cut(x)
    /\ \A o : o \in ToSet(ob[x]) <=> o \in ToSet(objs[x]) \/ (o \in ToSet(batch) /\ o[1] = x)

\* The counters of a span after the loop.
Counted(ob, le, re, x) ==
    IF objs_size[x] = 0 THEN ob[x] = <<>> /\ re[x] = 0
    ELSE /\ re[x] + Len(ob[x]) = ObjsPerSpan[objs_size[x]]
         /\ le[x] >= ObjsPerSpan[objs_size[x]]

\* The loop brings every object of the batch to the free list of its span, and the
\* counters agree with the free lists then.
LoopDone(batch, ob, le, re) ==
    /\ ob \in [Spans -> Seq(Objects)] /\ le \in [Spans -> Nat] /\ re \in [Spans -> Nat]
    /\ \A x \in Spans : Refilled(batch, ob, x) /\ Counted(ob, le, re, x)

\* That is what the loop does to a thread's batch.
LEMMA LoopIs ==
    ASSUME TypeOK, PlaceInv, \A x \in Spans : CountInv(x), NEW t \in Threads,
           NEW batch, batch = act[t].batch, NEW b, b = ReturnAll(batch)
    PROVE  LoopDone(batch, b.objs, b.obj_len, b.obj_refcount)
  <1>1. /\ objs \in [Spans -> Seq(Objects)] /\ objs_size \in [Spans -> {0} \cup Classes]
        /\ obj_len \in [Spans -> Nat] /\ obj_refcount \in [Spans -> Nat] /\ batch \in Seq(Objects)
    BY Types DEF ActType
  <1>2. /\ IsInjective(batch) /\ \A x \in Spans : IsInjective(objs[x]) /\ ToSet(objs[x]) \subseteq Cut(x)
        /\ \A o \in ToSet(batch) : Fits(o, act[t].cls)
    BY DEF PlaceInv, ListsSound
  <1>3. PICK c \in Classes : c = act[t].cls
    BY Types DEF ActType
  <1>4. \A o \in ToSet(batch) : o \in Objects /\ o[1] \in Spans /\ objs_size[o[1]] = c /\ o \in Cut(o[1])
    <2>1. ToSet(batch) \subseteq Objects
      BY <1>1, ToSetIs
    <2> QED
      BY <1>2, <1>3, <2>1 DEF Fits, Objects
  <1>5. \A x \in Spans : ToSet(objs[x]) \cap ToSet(batch) = {}
    <2> SUFFICES ASSUME NEW x \in Spans, NEW o \in ToSet(batch), o \in ToSet(objs[x])
                 PROVE  FALSE
      OBVIOUS
    <2>1. o \in Cut(x) /\ o[1] = x
      BY <1>1, <1>2, CutIs
    <2>2. Holds(PFree, o) /\ Holds(PBatch(t), o)
      BY <2>1, HoldsIs DEF AtFree, AtBatch
    <2> QED
      BY <2>1, <2>2, Exclusive, PlacesDiffer
  <1>6. ReturnedUpTo(batch, Len(batch), b)
    BY <1>1, <1>2, <1>5, ReturnLoop
  <1>7. PICK ob, le, re : ob = b.objs /\ le = b.obj_len /\ re = b.obj_refcount
    OBVIOUS
  <1>8. Back(batch, Len(batch), ob, le, re)
    BY <1>6, <1>7 DEF ReturnedUpTo
  <1>9. ob \in [Spans -> Seq(Objects)] /\ le \in [Spans -> Nat] /\ re \in [Spans -> Int]
    BY <1>8 DEF Back
  <1>10. ASSUME NEW x \in Spans
         PROVE  Refilled(batch, ob, x) /\ Counted(ob, le, re, x) /\ re[x] \in Nat
    <2>1. BackAt(batch, Len(batch), ob, le, re, x)
      BY <1>8 DEF Back
    <2>2. \A o : o \in ToSet(batch) <=> \E j \in 1 .. Len(batch) : batch[j] = o
      <3>1. batch \in Seq(Objects)
        BY <1>1
      <3> QED
        BY <3>1, ToSetIs
    <2>3. IsInjective(ob[x]) /\ \A o : o \in ToSet(ob[x]) <=> o \in ToSet(objs[x]) \/ (o \in ToSet(batch) /\ o[1] = x)
      BY <2>1, <2>2 DEF BackAt
    <2>4. ToSet(ob[x]) \subseteq Cut(x)
      BY <1>2, <1>4, <2>3
    <2>5. Refilled(batch, ob, x)
      BY <2>3, <2>4 DEF Refilled
    <2>6. PICK r0 \in Nat, l0 \in Nat, n0 \in Nat, r1 \in Int, l1 \in Nat, n1 \in Nat :
             /\ r0 = obj_refcount[x] /\ l0 = obj_len[x] /\ n0 = Len(objs[x])
             /\ r1 = re[x] /\ l1 = le[x] /\ n1 = Len(ob[x])
      BY <1>1, <1>9, LenProperties
    <2>7. r1 + n1 = r0 + n0 /\ l1 + r1 = l0 + r0
      BY <2>1, <2>6 DEF BackAt
    <2>8. n0 <= n1
      <3>1. objs[x] \in Seq(Objects) /\ ob[x] \in Seq(Objects) /\ ToSet(objs[x]) \subseteq ToSet(ob[x])
        BY <1>1, <1>9, <2>3
      <3> QED
        BY <1>2, <2>3, <2>6, <3>1, PartCount
    <2>9. CASE objs_size[x] = 0
      <3>1. objs[x] = <<>> /\ r0 = 0 /\ n0 = 0
        BY <2>6, <2>9, EmptyIs DEF CountInv
      <3>2. ToSet(ob[x]) = {}
        BY <1>4, <2>3, <2>9, <3>1, Consts, EmptyIs
      <3>3. ob[x] = <<>> /\ n1 = 0
        BY <1>9, <2>6, <3>2, ToSetIs
      <3>4. r1 = 0
        BY <2>7, <3>1, <3>3
      <3> QED
        BY <2>5, <2>6, <2>9, <3>3, <3>4 DEF Counted
    <2>10. CASE objs_size[x] # 0
      <3>1. PICK n \in Nat : n = ObjsPerSpan[objs_size[x]] /\ r0 + n0 = n /\ l0 >= n
        <4>1. ObjsPerSpan[objs_size[x]] \in Nat
          BY <1>1, <2>10, Consts
        <4> QED
          BY <2>6, <2>10, <4>1 DEF CountInv
      <3>2. n1 <= n
        <4>1. IsFiniteSet(Cut(x)) /\ Cardinality(Cut(x)) = n
          BY <1>1, <2>10, <3>1, CutCount
        <4>2. IsFiniteSet(ToSet(ob[x])) /\ Cardinality(ToSet(ob[x])) = n1
          <5>1. ob[x] \in Seq(Objects)
            BY <1>9
          <5> QED
            BY <2>3, <2>6, <5>1, InjectiveCount
        <4> QED
          BY <2>4, <4>1, <4>2, FS_Subset
      <3>3. r1 + n1 = n /\ r1 \in Nat /\ l1 >= n
        BY <2>7, <2>8, <3>1, <3>2
      <3> QED
        BY <2>5, <2>6, <2>10, <3>1, <3>3 DEF Counted
    <2> QED
      BY <2>9, <2>10
  <1>11. re \in [Spans -> Nat]
    BY <1>9, <1>10
  <1>12. LoopDone(batch, ob, le, re)
    BY <1>9, <1>10, <1>11 DEF LoopDone
  <1> QED
    BY <1>7, <1>12

\* The span s, of class c, is on the side N of the lists, the heads of its class being
\* hd and ih and the links ny and py.
OnList(s, c, N, ih, hd, ny, py) ==
    /\ N \in SUBSET Spans /\ s \in N /\ objs_size[s] = c
    /\ Cycles(ny, py, Colour(N))
    /\ \A x \in Spans : objs_size[x] = 0 => ny[x] = x
    /\ \A x \in Spans \ N : objs_size[x] = 0 \/ loc[x] = "central_idle"
    /\ hd \in Spans \cup {NULL} /\ (hd # NULL => hd \in N /\ objs_size[hd] = c)
    /\ ih \in Spans \cup {NULL} /\ (ih # NULL => ih \notin N /\ objs_size[ih] = c)
    /\ \A d \in Classes : d # c =>
          /\ list[d] # NULL => list[d] \in N /\ objs_size[list[d]] = d
          /\ idle[d] # NULL => idle[d] \notin N /\ objs_size[idle[d]] = d

\* A span that says it is idle goes to the list of its class, whichever side it is on;
\* one that does not is on the side of the lists already.
LEMMA ToList ==
    ASSUME TypeOK, RingInv, NEW s \in Spans, NEW c \in Classes, objs_size[s] = c,
           NEW r, Rec(r, idle[c], next, prev), NEW out, NEW q, OtherHead(out, list[c], q), NEW in,
           NEW w \in BOOLEAN, w <=> loc[s] = "central_idle",
           w => Removal(r, s, out) /\ Insertion(q, s, in), ~w => out = r /\ in = q
    PROVE  \E N, ih, hd, ny, py :
              OnList(s, c, N, ih, hd, ny, py) /\ Rec(in, hd, ny, py) /\ out.head = ih
  <1>1. /\ objs_size \in [Spans -> {0} \cup Classes] /\ 0 \notin Classes /\ NULL \notin Spans
        /\ list \in [Classes -> Spans \cup {NULL}] /\ idle \in [Classes -> Spans \cup {NULL}]
    BY Consts DEF TypeOK
  <1>2. PICK L \in SUBSET Spans : Sides(L)
    BY DEF RingInv
  <1>3. /\ Cycles(next, prev, Colour(L))
        /\ \A x \in Spans : objs_size[x] = 0 => next[x] = x
        /\ \A x \in Spans \ L : objs_size[x] = 0 \/ loc[x] = "central_idle"
        /\ \A d \in Classes : list[d] # NULL => list[d] \in L /\ objs_size[list[d]] = d
        /\ \A d \in Classes : idle[d] # NULL => idle[d] \notin L /\ objs_size[idle[d]] = d
    BY <1>2 DEF Sides
  <1>4. PICK g \in Spans \cup {NULL}, h \in Spans \cup {NULL} : g = list[c] /\ h = idle[c]
    BY <1>1
  <1>5. /\ g # NULL => g \in L /\ objs_size[g] = c
        /\ h # NULL => h \notin L /\ objs_size[h] = c
    BY <1>3, <1>4
  <1>6. CASE ~w
    <2>1. s \in L
      BY <1>1, <1>3, <1>6
    <2>2. OnList(s, c, L, h, g, next, prev)
      BY <1>3, <1>5, <2>1 DEF OnList
    <2>3. Rec(in, g, next, prev) /\ out.head = h
      BY <1>4, <1>6, RecIs
    <2> QED
      BY <2>2, <2>3
  <1>7. CASE w
    <2> DEFINE N == L \cup {s}
               M == Colour(N)
    <2>1. \A x \in Spans \ {s} : M[x] = Colour(L)[x]
      <3> TAKE x \in Spans \ {s}
      <3>1. Colour(L)[x] = <<objs_size[x], x \in L>> /\ M[x] = <<objs_size[x], x \in N>>
        BY DEF Colour
      <3>2. (x \in N) = (x \in L)
        OBVIOUS
      <3> HIDE DEF M, N
      <3> QED
        BY <3>1, <3>2
    <2>2. g # NULL => M[g] = M[s]
      BY <1>5, Colours
    <2> HIDE DEF M
    <2>3. Moving(h, g, next, prev, Colour(L), s, M, r, out, q, in)
      BY <1>3, <1>4, <1>7, <2>1, <2>2 DEF Moving
    <2>4. /\ out.head = IF h # s THEN h ELSE IF next[s] = s THEN NULL ELSE next[s]
          /\ PushDone(g, next, s, M, in)
      BY <2>3, MoveRec
    <2>5. PICK ny, py :
             /\ Rec(in, s, ny, py) /\ Cycles(ny, py, M)
             /\ \A x \in Spans : next[x] = x /\ x # s /\ x # g => ny[x] = x
      BY <2>4 DEF PushDone
    <2>6. PICK ih : ih = out.head
      OBVIOUS
    <2>7. ih \in Spans \cup {NULL} /\ (ih # NULL => ih \notin N /\ objs_size[ih] = c)
      <3>1. CASE h # s
        BY <1>5, <2>4, <2>6, <3>1
      <3>2. CASE h = s
        <4>1. next[s] \in Spans /\ Colour(L)[next[s]] = Colour(L)[s]
          BY <1>3 DEF Cycles
        <4>2. next[s] \notin L /\ objs_size[next[s]] = c
          BY <1>1, <1>5, <3>2, <4>1, Colours
        <4> QED
          BY <2>4, <2>6, <3>2, <4>1, <4>2
      <3> QED
        BY <3>1, <3>2
    <2>8. \A x \in Spans : objs_size[x] = 0 => ny[x] = x
      <3> TAKE x \in Spans
      <3>1. ASSUME objs_size[x] = 0
            PROVE  ny[x] = x
        <4>1. next[x] = x /\ x # s /\ x # g
          BY <1>1, <1>3, <1>5, <3>1
        <4> QED
          BY <2>5, <4>1
      <3> QED
        BY <3>1
    <2>9. \A d \in Classes : d # c =>
             /\ list[d] # NULL => list[d] \in N /\ objs_size[list[d]] = d
             /\ idle[d] # NULL => idle[d] \notin N /\ objs_size[idle[d]] = d
      BY <1>3
    <2>10. N \in SUBSET Spans /\ s \in N /\ \A x \in Spans \ N : objs_size[x] = 0 \/ loc[x] = "central_idle"
      BY <1>3
    <2>11. OnList(s, c, N, ih, s, ny, py)
      BY <2>5, <2>7, <2>8, <2>9, <2>10 DEF OnList, M
    <2> QED
      BY <2>5, <2>6, <2>11
  <1> QED
    BY <1>6, <1>7

\* The span stays on the list.
LEMMA ListRings ==
    ASSUME TypeOK, NEW s, NEW c \in Classes, NEW N, NEW ih, NEW hd, NEW ny, NEW py,
           OnList(s, c, N, ih, hd, ny, py), UNCHANGED <<objs_size, loc>>,
           next' = ny, prev' = py,
           list' = [list EXCEPT ![c] = hd], idle' = [idle EXCEPT ![c] = ih],
           \A u \in Threads : pc'[u] # "take"
    PROVE  RingInv' /\ list' \in [Classes -> Spans \cup {NULL}] /\ idle' \in [Classes -> Spans \cup {NULL}]
  <1>1. list \in [Classes -> Spans \cup {NULL}] /\ idle \in [Classes -> Spans \cup {NULL}]
    BY DEF TypeOK
  <1>2. /\ list'[c] = hd /\ idle'[c] = ih
        /\ \A d \in Classes : d # c => list'[d] = list[d] /\ idle'[d] = idle[d]
        /\ list' \in [Classes -> Spans \cup {NULL}] /\ idle' \in [Classes -> Spans \cup {NULL}]
    BY <1>1 DEF OnList
  <1>3. Sides(N)'
    <2>1. Cycles(next', prev', Colour(N)')
      BY DEF OnList, Colour
    <2>2. \A d \in Classes : /\ list'[d] # NULL => list'[d] \in N /\ objs_size[list'[d]] = d
                             /\ idle'[d] # NULL => idle'[d] \notin N /\ objs_size[idle'[d]] = d
      BY <1>2 DEF OnList
    <2>3. N \in SUBSET Spans /\ \A x \in Spans : objs_size[x] = 0 => next'[x] = x
      BY DEF OnList
    <2>4. \A x \in Spans \ N : objs_size[x] = 0 \/ loc[x] = "central_idle"
      BY DEF OnList
    <2> QED
      BY <2>1, <2>2, <2>3, <2>4 DEF Sides
  <1>4. N \in SUBSET Spans
    BY DEF OnList
  <1> QED
    BY <1>2, <1>3, <1>4 DEF RingInv

\* The span leaves the list and the class.
LEMMA EmptyRings ==
    ASSUME TypeOK, NEW s \in Spans, NEW c \in Classes, NEW N, NEW ih, NEW hd, NEW ny, NEW py,
           OnList(s, c, N, ih, hd, ny, py), NEW in, Rec(in, hd, ny, py), NEW fin, Removal(in, s, fin),
           objs_size' = [objs_size EXCEPT ![s] = 0], loc' = loc,
           next' = [fin.next EXCEPT ![s] = s], prev' = [fin.prev EXCEPT ![s] = s],
           list' = [list EXCEPT ![c] = fin.head], idle' = [idle EXCEPT ![c] = ih],
           \A u \in Threads : pc'[u] # "take"
    PROVE  RingInv' /\ list' \in [Classes -> Spans \cup {NULL}] /\ idle' \in [Classes -> Spans \cup {NULL}]
  <1>1. /\ objs_size \in [Spans -> {0} \cup Classes] /\ 0 \notin Classes /\ NULL \notin Spans
        /\ list \in [Classes -> Spans \cup {NULL}] /\ idle \in [Classes -> Spans \cup {NULL}]
    BY Consts DEF TypeOK
  <1>2. /\ N \in SUBSET Spans /\ s \in N /\ objs_size[s] = c
        /\ Cycles(ny, py, Colour(N))
        /\ \A x \in Spans : objs_size[x] = 0 => ny[x] = x
        /\ \A x \in Spans \ N : objs_size[x] = 0 \/ loc[x] = "central_idle"
        /\ hd \in Spans \cup {NULL} /\ (hd # NULL => hd \in N /\ objs_size[hd] = c)
        /\ ih \in Spans \cup {NULL} /\ (ih # NULL => ih \notin N /\ objs_size[ih] = c)
        /\ \A d \in Classes : d # c =>
              /\ list[d] # NULL => list[d] \in N /\ objs_size[list[d]] = d
              /\ idle[d] # NULL => idle[d] \notin N /\ objs_size[idle[d]] = d
    BY DEF OnList
  <1>3. objs_size'[s] = 0 /\ \A x \in Spans : x # s => objs_size'[x] = objs_size[x]
    BY <1>1
  <1> DEFINE M == Colour(N)'
  <1>4. \A x \in Spans \ {s} : M[x] = Colour(N)[x]
    BY <1>3 DEF Colour
  <1> HIDE DEF M
  <1>5. PICK hf, nz, pz :
           /\ Rec(fin, hf, nz, pz) /\ Loose(nz, pz, s, M)
           /\ hf = IF hd # s THEN hd ELSE IF ny[s] = s THEN NULL ELSE ny[s]
           /\ \A x \in Spans : ny[x] = x => nz[x] = x
    <2>1. PICK K : K = Colour(N)
      OBVIOUS
    <2>2. hd \in Spans \cup {NULL} /\ Cycles(ny, py, K) /\ \A x \in Spans \ {s} : M[x] = K[x]
      BY <1>2, <1>4, <2>1
    <2> QED
      BY <2>2, RemoveRec, SMTT(30)
  <1>6. fin.head = hf /\ fin.next = nz /\ fin.prev = pz
    BY <1>5, RecIs
  <1>7. next' = nz /\ prev' = [pz EXCEPT ![s] = s] /\ Cycles(nz, [pz EXCEPT ![s] = s], M) /\ nz[s] = s
    <2>1. nz[s] = s /\ Cycles(nz, [pz EXCEPT ![s] = s], M)
      BY <1>5 DEF Loose
    <2>2. nz \in [Spans -> Spans]
      BY <2>1 DEF Cycles
    <2> QED
      BY <1>6, <2>1, <2>2
  <1>8. hf \in Spans \cup {NULL} /\ (hf # NULL => hf \in N /\ objs_size[hf] = c /\ hf # s)
    <2>1. ny[s] \in N /\ objs_size[ny[s]] = c /\ ny[s] \in Spans
      <3>1. ny[s] \in Spans /\ Colour(N)[ny[s]] = Colour(N)[s]
        BY <1>2 DEF Cycles
      <3> QED
        BY <1>2, <3>1, Colours
    <2> QED
      BY <1>2, <1>5, <2>1
  <1>9. /\ list'[c] = hf /\ idle'[c] = ih
        /\ \A d \in Classes : d # c => list'[d] = list[d] /\ idle'[d] = idle[d]
        /\ list' \in [Classes -> Spans \cup {NULL}] /\ idle' \in [Classes -> Spans \cup {NULL}]
    BY <1>1, <1>2, <1>6, <1>8
  <1>10. Sides(N)'
    <2>1. Cycles(next', prev', Colour(N)')
      BY <1>7 DEF M
    <2>2. \A d \in Classes : list'[d] # NULL => list'[d] \in N /\ objs_size'[list'[d]] = d
      <3> TAKE d \in Classes
      <3>1. CASE d = c
        BY <1>2, <1>3, <1>8, <1>9, <3>1
      <3>2. CASE d # c
        BY <1>1, <1>2, <1>3, <1>9, <3>2
      <3> QED
        BY <3>1, <3>2
    <2>3. \A d \in Classes : idle'[d] # NULL => idle'[d] \notin N /\ objs_size'[idle'[d]] = d
      <3> TAKE d \in Classes
      <3>1. CASE d = c
        BY <1>2, <1>3, <1>9, <3>1
      <3>2. CASE d # c
        BY <1>1, <1>2, <1>3, <1>9, <3>2
      <3> QED
        BY <3>1, <3>2
    <2>4. \A x \in Spans : objs_size'[x] = 0 => next'[x] = x
      BY <1>2, <1>3, <1>5, <1>7
    <2>5. \A x \in Spans \ N : objs_size'[x] = 0 \/ loc'[x] = "central_idle"
      BY <1>2, <1>3
    <2> QED
      BY <1>2, <2>1, <2>2, <2>3, <2>4, <2>5 DEF Sides
  <1> QED
    BY <1>2, <1>9, <1>10 DEF RingInv

\* The objects of a thread's batch are on the free lists ob, and a span whose objects are
\* all there, the one of E, is one block again, in the thread's hand.
Brought(t, batch, ob, E, a) ==
    /\ \A x \in Spans : Refilled(batch, ob, x)
    /\ E \subseteq Spans
    /\ \A x \in Spans \ E : objs'[x] = ob[x] /\ objs_size'[x] = objs_size[x]
    /\ \A x \in E : objs'[x] = <<>> /\ objs_size'[x] = 0 /\ objs_size[x] # 0 /\ ToSet(ob[x]) = Cut(x)
    /\ pc[t] = "return" /\ act'[t] = a /\ a.batch = <<>>
    /\ \A u \in Threads : u # t => pc'[u] = pc[u] /\ act'[u] = act[u]
    /\ pc'[t] = "giveback" => E = {a.span}
    /\ pc'[t] # "giveback" => E = {}
    /\ UNCHANGED <<tl, held, pgcache, unused>>

\* The blocks of the spans after that.
LEMMA BroughtCut ==
    ASSUME NEW t, NEW batch, NEW ob, NEW E, NEW a, Brought(t, batch, ob, E, a)
    PROVE  /\ \A x \in Spans \ E : Cut(x)' = Cut(x)
           /\ \A x \in E : Cut(x)' = {<<x, 0>>}
  BY DEF Cut, Brought

\* Blocks that are neither free nor in the batch are of spans that stay carved.
LEMMA BroughtFits ==
    ASSUME TypeOK, PlaceInv, NEW t \in Threads, NEW batch, batch = act[t].batch, NEW ob, NEW E, NEW a,
           Brought(t, batch, ob, E, a), NEW o \in Objects, NEW d, NEW p \in Places,
           Fits(o, d), Holds(p, o), p # PFree, p # PBatch(t)
    PROVE  Fits(o, d)'
  <1>1. PICK x \in Spans : x = o[1]
    BY DEF Objects
  <1>2. o \in Cut(x) /\ objs_size[x] = d
    BY <1>1 DEF Fits
  <1>3. x \notin E
    <2> SUFFICES ASSUME x \in E
                 PROVE  FALSE
      OBVIOUS
    <2>1. o \in ToSet(objs[x]) \/ o \in ToSet(batch)
      BY <1>2 DEF Brought, Refilled
    <2>2. Holds(PFree, o) \/ Holds(PBatch(t), o)
      BY <1>1, <2>1, HoldsIs DEF AtFree, AtBatch
    <2> QED
      BY <1>2, <2>2, Exclusive, PlacesDiffer
  <1>4. objs_size'[x] = d
    BY <1>2, <1>3 DEF Brought
  <1>5. o \in Cut(x)'
    BY <1>2, <1>3, BroughtCut
  <1> QED
    BY <1>1, <1>4, <1>5 DEF Fits

\* Each block is in one place after that.
LEMMA BroughtPlaces ==
    ASSUME TypeOK, PlaceInv, \A u \in Threads : SpanInv(u), NEW t \in Threads,
           NEW batch, batch = act[t].batch, NEW ob, NEW E, NEW a, Brought(t, batch, ob, E, a)
    PROVE  PlaceInv'
  <1>1. /\ \A x \in Spans \ E : Cut(x)' = Cut(x)
        /\ \A x \in E : Cut(x)' = {<<x, 0>>}
    BY BroughtCut
  <1>2. ListsSound /\ batch \in Seq(Objects) /\ objs_size \in [Spans -> {0} \cup Classes]
    BY Types DEF PlaceInv, ActType
  <1>3. /\ pc[t] = "return" /\ act'[t] = a /\ a.batch = <<>> /\ act'[t].batch = <<>>
        /\ \A u \in Threads : u # t => pc'[u] = pc[u] /\ act'[u] = act[u]
        /\ tl' = tl /\ held' = held /\ pgcache' = pgcache /\ unused' = unused /\ E \subseteq Spans
    BY DEF Brought
  <1>4. \A x \in Spans : /\ x \notin E => IsInjective(objs'[x]) /\ ToSet(objs'[x]) \subseteq Cut(x)
                         /\ x \in E => objs'[x] = <<>>
    BY DEF Brought, Refilled
  <1>5. ListsSound'
    <2>1. \A u \in Threads, d \in Classes :
             IsInjective(tl'[u][d].objs) /\ \A o \in ToSet(tl'[u][d].objs) : Fits(o, d)'
      <3> TAKE u \in Threads, d \in Classes
      <3>1. IsInjective(tl[u][d].objs) /\ \A o \in ToSet(tl[u][d].objs) : Fits(o, d)
        BY <1>2 DEF ListsSound
      <3>2. ToSet(tl[u][d].objs) \subseteq Objects
        <4>1. tl[u][d].objs \in Seq(Objects)
          BY Types DEF ListType
        <4> QED
          BY <4>1, ToSetIs
      <3>3. \A o \in ToSet(tl[u][d].objs) : Holds(PCache(u), o)
        BY HoldsIs DEF AtCache
      <3>4. ASSUME NEW o \in ToSet(tl[u][d].objs)
            PROVE  Fits(o, d)'
        BY <3>1, <3>2, <3>3, PlacesDiffer, BroughtFits
      <3> QED
        BY <1>3, <3>1, <3>4
    <2>2. \A u \in Threads : IsInjective(act'[u].batch) /\ \A o \in ToSet(act'[u].batch) : Fits(o, act[u].cls)'
      <3> TAKE u \in Threads
      <3>1. CASE u = t
        BY <1>3, <3>1, EmptyIs
      <3>2. CASE u # t
        <4>1. IsInjective(act[u].batch) /\ \A o \in ToSet(act[u].batch) : Fits(o, act[u].cls)
          BY <1>2 DEF ListsSound
        <4>2. ToSet(act[u].batch) \subseteq Objects
          <5>1. act[u].batch \in Seq(Objects)
            BY Types DEF ActType
          <5> QED
            BY <5>1, ToSetIs
        <4>3. \A o \in ToSet(act[u].batch) : Holds(PBatch(u), o)
          BY HoldsIs DEF AtBatch
        <4>4. PBatch(u) \in Places /\ PBatch(u) # PFree /\ PBatch(u) # PBatch(t)
          BY <3>2, PlacesDiffer
        <4>5. PICK d : d = act[u].cls /\ act'[u].cls = d
          BY <1>3, <3>2
        <4>6. ASSUME NEW o \in ToSet(act[u].batch)
              PROVE  Fits(o, d)'
          BY <4>1, <4>2, <4>3, <4>4, <4>5, BroughtFits
        <4>7. act'[u] = act[u]
          BY <1>3, <3>2
        <4>8. \A o \in ToSet(act[u].batch) : Fits(o, act[u].cls)'
          BY <4>5, <4>6 DEF Fits
        <4> QED
          BY <4>1, <4>7, <4>8
      <3> QED
        BY <3>1, <3>2
    <2>3. \A x \in Spans : IsInjective(objs'[x]) /\ ToSet(objs'[x]) \subseteq Cut(x)'
      BY <1>1, <1>4, EmptyIs
    <2>4. IsInjective(pgcache')
      BY <1>2, <1>3 DEF ListsSound
    <2> QED
      BY <2>1, <2>2, <2>3, <2>4 DEF ListsSound
  <1>6. \A h \in held' : Fits(h[1], h[2])'
    <2> TAKE h \in held'
    <2>1. PICK o, d : o = h[1] /\ d = h[2]
      OBVIOUS
    <2>2. o \in Objects /\ Fits(o, d) /\ Holds(PHeld, o)
      BY <1>3, <2>1, HeldIs
    <2>3. Fits(o, d)'
      BY <2>2, PlacesDiffer, BroughtFits
    <2> QED
      BY <2>1, <2>3
  <1>7. \A x \in unused' \cup ToSet(pgcache') : objs_size'[x] = 0
    <2>1. \A x \in unused \cup ToSet(pgcache) : objs_size[x] = 0 /\ x \in Spans
      BY Types, ToSetIs DEF PlaceInv
    <2> QED
      BY <1>3, <2>1 DEF Brought
  <1>8. \A o \in Objects : IF o[1] \in E THEN ~AtFree(o)' ELSE AtFree(o)' <=> AtFree(o) \/ AtBatch(t, o)
    <2> TAKE o \in Objects
    <2>1. PICK x \in Spans : x = o[1]
      BY DEF Objects
    <2>2. AtFree(o)' <=> o \in ToSet(objs'[x])
      BY <2>1 DEF AtFree
    <2>3. CASE x \in E
      BY <1>4, <2>1, <2>2, <2>3, EmptyIs
    <2>4. CASE x \notin E
      <3>1. o \in ToSet(objs'[x]) <=> o \in ToSet(objs[x]) \/ o \in ToSet(batch)
        BY <2>1, <2>4 DEF Brought, Refilled
      <3> QED
        BY <2>1, <2>2, <2>4, <3>1 DEF AtFree, AtBatch
    <2> QED
      BY <2>3, <2>4
  <1>9. \A u \in Threads : \A o : AtBatch(u, o)' <=> AtBatch(u, o) /\ u # t
    BY <1>3, EmptyIs DEF AtBatch
  <1>10. \A u \in Threads : \A o : AtGive(u, o)' <=> AtGive(u, o) \/ (u = t /\ pc'[t] = "giveback" /\ o = <<a.span, 0>>)
    BY <1>3 DEF AtGive
  <1>11. \A o : /\ AtHeap(o)' <=> AtHeap(o)
                /\ AtUnused(o)' <=> AtUnused(o)
                /\ AtHeld(o)' <=> AtHeld(o)
                /\ \A u \in Threads : AtCache(u, o)' <=> AtCache(u, o)
    BY <1>3 DEF AtHeap, AtUnused, AtHeld, AtCache
  <1>12. ASSUME NEW x \in Spans, NEW o, o \in Cut(x)'
         PROVE  Placed(o)'
    <2>1. CASE x \in E
      <3>1. o = <<x, 0>> /\ o[1] = x /\ o[2] = 0 /\ o \in Objects
        <4>1. PICK b : b = <<x, 0>> /\ b[1] = x /\ b[2] = 0
          <5>1. PICK k : k = <<x, 0>>
            OBVIOUS
          <5>2. k[1] = x /\ k[2] = 0
            BY <5>1
          <5> QED
            BY <5>1, <5>2
        <4>2. b \in Objects
          BY <4>1 DEF Objects
        <4> QED
          BY <1>1, <1>12, <2>1, <4>1, <4>2
      <3>2. pc'[t] = "giveback" /\ a.span = x
        BY <2>1 DEF Brought
      <3>3. o \notin Cut(x)
        <4>1. objs_size[x] # 0
          BY <2>1 DEF Brought
        <4> QED
          BY <1>2, <3>1, <4>1, CutIs
      <3>4. \A p \in Places : ~Holds(p, o)
        BY <3>1, <3>3, OnlyCut
      <3>5. Holds(PGive(t), o)'
        BY <1>10, <3>1, <3>2, HoldsIsNext
      <3>6. Arrives(PGive(t), o)
        BY <1>8, <1>9, <1>10, <1>11, <2>1, <3>1 DEF Arrives
      <3> QED
        BY <3>4, <3>5, <3>6, PlacesDiffer, Appears
    <2>2. CASE x \notin E
      <3>1. o \in Cut(x) /\ Placed(o) /\ o \in Objects /\ o[1] = x
        <4>1. o \in Cut(x)
          BY <1>1, <1>12, <2>2
        <4> QED
          BY <1>2, <4>1, CutIs DEF PlaceInv
      <3>2. ~(pc'[t] = "giveback" /\ o = <<a.span, 0>>)
        <4>1. pc'[t] = "giveback" => a.span \in E
          BY DEF Brought
        <4>2. o = <<a.span, 0>> => o[1] = a.span
          OBVIOUS
        <4> QED
          BY <2>2, <3>1, <4>1, <4>2
      <3>3. CASE o \notin ToSet(batch)
        <4>1. ~AtBatch(t, o)
          BY <3>3 DEF AtBatch
        <4>2. SameAll(o)
          BY <1>8, <1>9, <1>10, <1>11, <2>2, <3>1, <3>2, <4>1 DEF SameAll
        <4> QED
          BY <3>1, <4>2, Stays
      <3>4. CASE o \in ToSet(batch)
        <4>1. AtBatch(t, o)
          BY <3>4 DEF AtBatch
        <4>2. Holds(PBatch(t), o) /\ ~Holds(PBatch(t), o)' /\ Holds(PFree, o)'
          BY <1>8, <1>9, <2>2, <3>1, <4>1, HoldsIs, HoldsIsNext
        <4>3. Arrives(PFree, o)
          BY <1>9, <1>10, <1>11, <3>2 DEF Arrives
        <4> QED
          BY <3>1, <4>2, <4>3, PlacesDiffer, Moves
      <3> QED
        BY <3>3, <3>4
    <2> QED
      BY <2>1, <2>2
  <1> QED
    BY <1>5, <1>6, <1>7, <1>12 DEF PlaceInv

\* s is the span of the last object of the batch: it has a free object after the loop,
\* and when it has no reference left all its blocks are on its free list.
LastOf(batch, c, ob, le, re, s) ==
    /\ s \in Spans /\ s = Last(batch)[1] /\ objs_size[s] = c /\ re[s] # le[s]
    /\ re[s] = 0 => ToSet(ob[s]) = Cut(s)

\* There is such a span.
LEMMA LastSpan ==
    ASSUME TypeOK, PlaceInv, NEW t \in Threads, NEW batch, batch = act[t].batch, batch # <<>>,
           NEW c \in Classes, c = act[t].cls, NEW ob, NEW le, NEW re, LoopDone(batch, ob, le, re)
    PROVE  \E s : LastOf(batch, c, ob, le, re, s)
  <1>1. batch \in Seq(Objects) /\ objs_size \in [Spans -> {0} \cup Classes]
    BY Types DEF ActType
  <1>2. Len(batch) \in Nat /\ Len(batch) \in 1 .. Len(batch)
    BY <1>1, ToSetIs
  <1>3. PICK o : o = batch[Len(batch)] /\ o \in ToSet(batch) /\ o \in Objects
    <2>1. batch[Len(batch)] \in ToSet(batch)
      BY <1>1, <1>2, ToSetIs
    <2> QED
      BY <1>1, <2>1, ToSetIs
  <1>4. PICK s \in Spans : s = o[1]
    BY <1>3 DEF Objects
  <1>5. Fits(o, c)
    BY <1>3 DEF PlaceInv, ListsSound
  <1>6. objs_size[s] = c /\ c # 0
    BY <1>4, <1>5, Consts DEF Fits
  <1>7. /\ ob[s] \in Seq(Objects) /\ le[s] \in Nat /\ re[s] \in Nat /\ Refilled(batch, ob, s)
        /\ re[s] + Len(ob[s]) = ObjsPerSpan[c] /\ le[s] >= ObjsPerSpan[c]
    BY <1>6 DEF LoopDone, Counted
  <1>8. IsInjective(ob[s]) /\ ToSet(ob[s]) \subseteq Cut(s) /\ o \in ToSet(ob[s])
    BY <1>3, <1>4, <1>7 DEF Refilled
  <1>9. PICK m \in Nat, n \in Nat : m = Len(ob[s]) /\ n = ObjsPerSpan[c] /\ m # 0
    BY <1>7, <1>8, Consts, ToSetIs
  <1>10. re[s] # le[s]
    BY <1>7, <1>9
  <1>11. re[s] = 0 => ToSet(ob[s]) = Cut(s)
    <2>1. IsFiniteSet(Cut(s)) /\ Cardinality(Cut(s)) = n
      BY <1>1, <1>6, <1>9, CutCount
    <2>2. Cardinality(ToSet(ob[s])) = m
      BY <1>7, <1>8, <1>9, InjectiveCount
    <2>3. re[s] = 0 => m = n
      BY <1>7, <1>9
    <2> QED
      BY <1>8, <2>1, <2>2, <2>3, FS_Subset
  <1>12. s = Last(batch)[1]
    BY <1>3, <1>4 DEF Last
  <1> QED
    BY <1>6, <1>10, <1>11, <1>12 DEF LastOf

\* What the step does to everything but the rings.
ReturnDone(t, batch, ob, le, re, E, p, a) ==
    /\ LoopDone(batch, ob, le, re) /\ Brought(t, batch, ob, E, a)
    /\ p \in {"ready", "giveback"} /\ a \in ActType /\ OneThread(t, p, a) /\ a.pop = FALSE
    /\ obj_refcount' = re /\ (\A x \in Spans \ E : obj_len'[x] = le[x]) /\ \A x \in E : re[x] = 0
    /\ objs' \in [Spans -> Seq(Objects)] /\ obj_len' \in [Spans -> Nat]
    /\ objs_size' \in [Spans -> {0} \cup Classes]
    /\ central = NULL /\ central' = (IF p = "giveback" THEN t ELSE NULL) /\ UNCHANGED <<loc, ops>>

\* The invariant then, the rings being sound.
LEMMA BroughtInv ==
    ASSUME IInv, NEW t \in Threads, NEW batch, batch = act[t].batch,
           NEW ob, NEW le, NEW re, NEW E, NEW p, NEW a, ReturnDone(t, batch, ob, le, re, E, p, a),
           RingInv', list' \in [Classes -> Spans \cup {NULL}], idle' \in [Classes -> Spans \cup {NULL}]
    PROVE  IInv'
  <1> USE DEF ReturnDone
  <1>1. TypeOK /\ LockInv /\ CacheBounded /\ PlaceInv /\ ThreadInv(t) /\ \A u \in Threads : SpanInv(u)
    BY DEF IInv
  <1>2. /\ pc[t] = "return" /\ pc'[t] = p /\ act'[t] = a /\ a.batch = <<>>
        /\ pc' \in [Threads -> ThreadPC] /\ act' \in [Threads -> ActType]
        /\ \A u \in Threads : u # t => pc'[u] = pc[u] /\ act'[u] = act[u]
        /\ tl' = tl /\ held' = held /\ pgcache' = pgcache /\ unused' = unused /\ E \subseteq Spans
    BY DEF Brought, OneThread
  <1>3. PlaceInv'
    BY <1>1, BroughtPlaces
  <1>4. next' \in [Spans -> Spans] /\ prev' \in [Spans -> Spans]
    BY DEF RingInv, Sides, Cycles
  <1>5. re \in [Spans -> Nat]
    BY DEF LoopDone
  <1>6. TypeOK'
    BY <1>1, <1>2, <1>4, <1>5, Consts DEF TypeOK, ActType
  <1>7. OthersSame(t)
    BY <1>2 DEF OthersSame
  <1>8. LockInv'
    BY <1>1, <1>2, <1>7, LockStep
  <1>9. CacheBounded'
    BY <1>1, <1>2 DEF CacheBounded
  <1>10. ThreadInv(t)'
    <2>1. pc'[t] \in {"ready", "giveback"} /\ act'[t].batch = <<>> /\ ~act'[t].pop
      BY <1>2
    <2> QED
      BY <1>1, <1>2, <2>1 DEF ThreadInv, Starting, Fetching
  <1>11. \A u \in Threads : ThreadInv(u)'
    BY <1>1, <1>7, <1>10, ThreadStep, Types DEF IInv
  <1>12. \A u \in Threads : SpanInv(u)'
    <2> TAKE u \in Threads
    <2>1. CASE u # t
      <3>1. pc'[u] \notin {"take", "giveback"}
        BY <1>1, <1>2, <2>1, LockAlone
      <3> QED
        BY <3>1 DEF SpanInv
    <2>2. CASE u = t
      <3>1. pc'[t] # "take"
        BY <1>2
      <3>2. pc'[t] = "giveback" => act'[t].span \in Spans /\ objs_size'[act'[t].span] = 0
        BY <1>2 DEF Brought
      <3> QED
        BY <2>2, <3>1, <3>2 DEF SpanInv
    <2> QED
      BY <2>1, <2>2
  <1>13. \A x \in Spans : CountInv(x)'
    <2> TAKE x \in Spans
    <2>1. CASE x \in E
      BY <2>1 DEF CountInv, Brought
    <2>2. CASE x \notin E
      <3>1. objs'[x] = ob[x] /\ objs_size'[x] = objs_size[x] /\ obj_len'[x] = le[x] /\ obj_refcount'[x] = re[x]
        BY <2>2 DEF Brought
      <3>2. Counted(ob, le, re, x)
        BY DEF LoopDone
      <3> QED
        BY <3>1, <3>2 DEF CountInv, Counted
    <2> QED
      BY <2>1, <2>2
  <1> QED
    BY <1>3, <1>6, <1>8, <1>9, <1>11, <1>12, <1>13 DEF IInv

\* A batch of objects comes back to the central cache.
LEMMA ReturnObjsStep ==
    ASSUME IInv, NEW t \in Threads, ReturnObjs(t)
    PROVE  IInv'
  <1>1. TypeOK /\ LockInv /\ PlaceInv /\ RingInv /\ ThreadInv(t) /\ \A x \in Spans : CountInv(x)
    BY DEF IInv
  <1> DEFINE c == act[t].cls
             batch == act[t].batch
             s == Last(batch)[1]
             b == ReturnAll(batch)
             w == loc[s] = "central_idle" /\ b.obj_refcount[s] # b.obj_len[s]
             e == b.obj_refcount[s] = 0
             r == [head |-> idle[c], next |-> next, prev |-> prev]
             out == IF w THEN remove_span(r, s) ELSE r
             q == [out EXCEPT !.head = list[c]]
             in == IF w THEN spanlist_push(q, s) ELSE q
             fin == IF e THEN remove_span(in, s) ELSE in
  <1>2. /\ pc[t] = "return" /\ central = NULL
        /\ idle' = [idle EXCEPT ![c] = out.head]
        /\ list' = [list EXCEPT ![c] = fin.head]
        /\ obj_refcount' = b.obj_refcount
        /\ \/ /\ e
              /\ next' = [fin.next EXCEPT ![s] = s]
              /\ prev' = [fin.prev EXCEPT ![s] = s]
              /\ objs_size' = [objs_size EXCEPT ![s] = 0]
              /\ obj_len' = [b.obj_len EXCEPT ![s] = 0]
              /\ objs' = [b.objs EXCEPT ![s] = <<>>]
              /\ central' = t
              /\ pc' = [pc EXCEPT ![t] = "giveback"]
              /\ act' = [act EXCEPT ![t] = Local(1, 0, FALSE, <<>>, s)]
           \/ /\ ~e
              /\ next' = fin.next /\ prev' = fin.prev
              /\ obj_len' = b.obj_len /\ objs' = b.objs
              /\ pc' = [pc EXCEPT ![t] = "ready"]
              /\ act' = [act EXCEPT ![t] = Idle]
              /\ UNCHANGED <<objs_size, central>>
        /\ UNCHANGED <<loc, heap, tl, held, ops>>
    BY Zenon DEF ReturnObjs
  <1> HIDE DEF c, batch, s, b, w, e, r, out, q, in, fin
  <1>3. c = act[t].cls /\ batch = act[t].batch /\ c \in Classes
    BY <1>1, Types DEF ActType, c, batch
  <1>4. b = ReturnAll(batch)
    BY DEF b
  <1>5. PICK ob, le, re : ob = b.objs /\ le = b.obj_len /\ re = b.obj_refcount
    OBVIOUS
  <1>6. LoopDone(batch, ob, le, re)
    BY <1>1, <1>3, <1>4, <1>5, LoopIs
  <1>7. /\ s \in Spans /\ objs_size[s] = c /\ re[s] # le[s]
        /\ re[s] = 0 => ToSet(ob[s]) = Cut(s)
    <2>1. batch # <<>>
      BY <1>1, <1>2, <1>3 DEF ThreadInv
    <2>2. PICK x : LastOf(batch, c, ob, le, re, x)
      BY <1>1, <1>3, <1>6, <2>1, LastSpan
    <2> QED
      BY <2>2 DEF LastOf, s
  <1>8. w \in BOOLEAN /\ (w <=> loc[s] = "central_idle") /\ (e <=> re[s] = 0)
    BY <1>5, <1>7 DEF w, e
  <1>9. Rec(r, idle[c], next, prev) /\ OtherHead(out, list[c], q)
    BY DEF Rec, OtherHead, r, q
  <1>10. /\ w => Removal(r, s, out) /\ Insertion(q, s, in)
         /\ ~w => out = r /\ in = q
    BY DEF Removal, Insertion, out, in
  <1>11. PICK N, ih, hd, ny, py :
            OnList(s, c, N, ih, hd, ny, py) /\ Rec(in, hd, ny, py) /\ out.head = ih
    BY <1>1, <1>3, <1>7, <1>8, <1>9, <1>10, ToList
  <1>12. in.head = hd /\ in.next = ny /\ in.prev = py
    BY <1>11, RecIs
  <1>13. ob \in [Spans -> Seq(Objects)] /\ le \in [Spans -> Nat] /\ \A x \in Spans : Refilled(batch, ob, x)
    BY <1>6 DEF LoopDone
  <1>14. \A u \in Threads : u # t => pc[u] # "take"
    BY <1>1, <1>2, LockAlone
  <1>15. /\ objs_size \in [Spans -> {0} \cup Classes] /\ 0 \notin Classes
         /\ "ready" \in ThreadPC /\ "giveback" \in ThreadPC
    BY <1>1, Types, Consts DEF ThreadPC
  <1>16. CASE e
    <2>1. Removal(in, s, fin) /\ re[s] = 0
      BY <1>8, <1>16 DEF Removal, fin
    <2>2. /\ next' = [fin.next EXCEPT ![s] = s] /\ prev' = [fin.prev EXCEPT ![s] = s]
          /\ objs_size' = [objs_size EXCEPT ![s] = 0]
          /\ obj_len' = [le EXCEPT ![s] = 0] /\ objs' = [ob EXCEPT ![s] = <<>>]
          /\ central' = t
          /\ pc' = [pc EXCEPT ![t] = "giveback"]
          /\ act' = [act EXCEPT ![t] = Local(1, 0, FALSE, <<>>, s)]
      BY <1>2, <1>5, <1>16
    <2>3. PICK a : a = Local(1, 0, FALSE, <<>>, s)
      OBVIOUS
    <2>4. a \in ActType /\ a.batch = <<>> /\ a.pop = FALSE /\ a.span = s
      BY <1>7, <2>3, Consts, EmptyIs DEF Local, ActType
    <2>5. OneThread(t, "giveback", a)
      BY <1>1, <1>15, <2>2, <2>3, <2>4, SetThread, Types
    <2>6. pc'[t] = "giveback" /\ act'[t] = a /\ \A u \in Threads : u # t => pc'[u] = pc[u] /\ act'[u] = act[u]
      BY <2>5 DEF OneThread
    <2>7. /\ objs' \in [Spans -> Seq(Objects)] /\ objs'[s] = <<>> /\ \A x \in Spans \ {s} : objs'[x] = ob[x]
          /\ obj_len' \in [Spans -> Nat] /\ \A x \in Spans \ {s} : obj_len'[x] = le[x]
          /\ objs_size' \in [Spans -> {0} \cup Classes] /\ objs_size'[s] = 0
          /\ \A x \in Spans \ {s} : objs_size'[x] = objs_size[x]
      BY <1>7, <1>13, <1>15, <2>2, EmptyIs
    <2>8. RingInv' /\ list' \in [Classes -> Spans \cup {NULL}] /\ idle' \in [Classes -> Spans \cup {NULL}]
      <3>1. list' = [list EXCEPT ![c] = fin.head] /\ idle' = [idle EXCEPT ![c] = ih] /\ loc' = loc
        BY <1>2, <1>11
      <3>2. \A u \in Threads : pc'[u] # "take"
        BY <1>14, <2>6
      <3> QED
        BY <1>1, <1>3, <1>7, <1>11, <2>1, <2>2, <3>1, <3>2, EmptyRings
    <2>9. Brought(t, batch, ob, {s}, a)
      <3>1. ToSet(ob[s]) = Cut(s) /\ objs_size[s] # 0
        BY <1>3, <1>7, <1>15, <2>1
      <3>2. UNCHANGED <<tl, held, pgcache, unused>>
        BY <1>2 DEF heap
      <3> QED
        BY <1>2, <1>7, <1>13, <2>4, <2>6, <2>7, <3>1, <3>2 DEF Brought
    <2> QED
      <3>1. obj_refcount' = re /\ UNCHANGED <<loc, ops>>
        BY <1>2, <1>5
      <3> QED
        <4>1. ReturnDone(t, batch, ob, le, re, {s}, "giveback", a)
          BY <1>2, <1>6, <2>1, <2>2, <2>4, <2>5, <2>7, <2>9, <3>1 DEF ReturnDone
        <4> QED
          BY <1>3, <2>8, <4>1, BroughtInv
  <1>17. CASE ~e
    <2>1. fin = in
      BY <1>17 DEF fin
    <2>2. OneThread(t, "ready", Idle)
      BY <1>1, <1>2, <1>15, <1>17, Consts, SetThread, Types
    <2>3. /\ pc'[t] = "ready" /\ act'[t] = Idle /\ \A u \in Threads : u # t => pc'[u] = pc[u] /\ act'[u] = act[u]
          /\ Idle \in ActType /\ Idle.batch = <<>> /\ Idle.pop = FALSE
      BY <2>2, Consts DEF OneThread, Idle, Local
    <2>4. next' = ny /\ prev' = py /\ obj_len' = le /\ objs' = ob /\ objs_size' = objs_size /\ central' = central
      BY <1>2, <1>5, <1>12, <1>17, <2>1
    <2>5. RingInv' /\ list' \in [Classes -> Spans \cup {NULL}] /\ idle' \in [Classes -> Spans \cup {NULL}]
      <3>1. list' = [list EXCEPT ![c] = hd] /\ idle' = [idle EXCEPT ![c] = ih] /\ UNCHANGED <<objs_size, loc>>
        BY <1>2, <1>11, <1>12, <2>1, <2>4
      <3>2. \A u \in Threads : pc'[u] # "take"
        BY <1>14, <2>3
      <3> QED
        BY <1>1, <1>3, <1>11, <2>4, <3>1, <3>2, ListRings
    <2>6. Brought(t, batch, ob, {}, Idle)
      <3>1. UNCHANGED <<tl, held, pgcache, unused>>
        BY <1>2 DEF heap
      <3> QED
        BY <1>2, <1>13, <2>3, <2>4, <3>1 DEF Brought
    <2> QED
      <3>1. obj_refcount' = re /\ UNCHANGED <<loc, ops>>
        BY <1>2, <1>5
      <3>2. /\ \A x \in Spans \ {} : obj_len'[x] = le[x]
            /\ objs' \in [Spans -> Seq(Objects)] /\ obj_len' \in [Spans -> Nat]
            /\ objs_size' \in [Spans -> {0} \cup Classes]
        BY <1>13, <1>15, <2>4
      <3> QED
        <4>1. ReturnDone(t, batch, ob, le, re, {}, "ready", Idle)
          BY <1>2, <1>6, <2>2, <2>3, <2>4, <2>6, <3>1, <3>2 DEF ReturnDone
        <4> QED
          BY <1>3, <2>5, <4>1, BroughtInv
  <1> QED
    BY <1>16, <1>17

-----------------------------------------------------------------------------
(* The invariant of the specification *)

\* At the start a carved span's blocks are free and the others are not cut off yet.
LEMMA InitPlaces ==
    ASSUME Init
    PROVE  PlaceInv
  <1>1. /\ objs = [x \in Spans |-> IF x \in Classes THEN Carved(x, x) ELSE <<>>]
        /\ objs_size = [x \in Spans |-> IF x \in Classes THEN x ELSE 0]
        /\ pgcache = <<>> /\ unused = Spans \ Classes /\ held = {}
        /\ \A u \in Threads : /\ pc[u] = "init" /\ act[u].batch = <<>>
                              /\ \A c \in Classes : tl[u][c].objs = <<>>
    BY DEF Init, Idle, Local
  <1>2. Classes \subseteq Spans /\ 0 \notin Classes
    BY Consts
  <1>3. /\ \A x \in Classes : objs[x] = Carved(x, x) /\ objs_size[x] = x
        /\ \A x \in Spans \ Classes : objs[x] = <<>> /\ objs_size[x] = 0
    BY <1>1, <1>2
  <1>4. \A x \in Classes : /\ IsInjective(objs[x])
                           /\ \A o : o \in ToSet(objs[x]) <=> o \in Cut(x)
    <2> TAKE x \in Classes
    <2>1. x \in Spans /\ objs_size[x] # 0
      BY <1>2, <1>3
    <2>2. IsInjective(objs[x]) /\ \A o : o \in ToSet(objs[x]) <=> \E i \in 1 .. ObjsPerSpan[x] : o = <<x, i>>
      BY <1>3, <2>1, CarvedIs
    <2>3. \A o : o \in Cut(x) <=> \E i \in 1 .. ObjsPerSpan[x] : o = <<x, i>>
      BY <1>3, <2>1 DEF Cut
    <2> QED
      BY <2>2, <2>3
  <1>5. ListsSound
    <2>1. \A x \in Spans : IsInjective(objs[x]) /\ ToSet(objs[x]) \subseteq Cut(x)
      BY <1>3, <1>4, EmptyIs
    <2>2. \A u \in Threads : /\ IsInjective(act[u].batch)
                             /\ \A o \in ToSet(act[u].batch) : Fits(o, act[u].cls)
      BY <1>1, EmptyIs
    <2>3. \A u \in Threads : \A c \in Classes :
             IsInjective(tl[u][c].objs) /\ \A o \in ToSet(tl[u][c].objs) : Fits(o, c)
      BY <1>1, EmptyIs
    <2>4. IsInjective(pgcache)
      BY <1>1, EmptyIs
    <2> QED
      BY <2>1, <2>2, <2>3, <2>4 DEF ListsSound
  <1>6. \A o : /\ ~AtHeld(o) /\ ~AtHeap(o)
               /\ \A u \in Threads : ~AtCache(u, o) /\ ~AtBatch(u, o) /\ ~AtGive(u, o)
    BY <1>1, EmptyIs DEF AtHeld, AtHeap, AtCache, AtBatch, AtGive
  <1>7. ASSUME NEW x \in Spans, NEW o \in Cut(x)
        PROVE  Placed(o)
    <2>1. o[1] = x
      <3>1. objs_size \in [Spans -> {0} \cup Classes]
        BY <1>1
      <3> QED
        BY <3>1, CutIs
    <2>2. CASE x \in Classes
      <3>1. AtFree(o) /\ ~AtUnused(o)
        BY <1>1, <1>4, <2>1, <2>2 DEF AtFree, AtUnused
      <3>2. \A q \in Places : Holds(q, o) <=> q = PFree
        BY <1>6, <3>1, PlaceKinds, HoldsIs, PlacesDiffer
      <3> QED
        BY <3>2, PlacesDiffer DEF Placed
    <2>3. CASE x \notin Classes
      <3>1. ~AtFree(o)
        BY <1>3, <2>1, <2>3, EmptyIs DEF AtFree
      <3>2. o[2] = 0
        <4>1. o = <<x, 0>>
          BY <1>3, <2>3 DEF Cut
        <4> QED
          BY <4>1
      <3>3. AtUnused(o)
        BY <1>1, <2>1, <2>3, <3>2 DEF AtUnused
      <3>4. \A q \in Places : Holds(q, o) <=> q = PUnused
        BY <1>6, <3>1, <3>3, PlaceKinds, HoldsIs, PlacesDiffer
      <3> QED
        BY <3>4, PlacesDiffer DEF Placed
    <2> QED
      BY <2>2, <2>3
  <1>8. \A x \in unused \cup ToSet(pgcache) : objs_size[x] = 0
    BY <1>1, <1>3, EmptyIs
  <1>9. \A h \in held : Fits(h[1], h[2])
    BY <1>1
  <1> QED
    BY <1>5, <1>7, <1>8, <1>9 DEF PlaceInv

\* The initial states.
LEMMA InitInv ==
    ASSUME Init
    PROVE  IInv
  <1>1. /\ next = [x \in Spans |-> x] /\ prev = [x \in Spans |-> x]
        /\ objs = [x \in Spans |-> IF x \in Classes THEN Carved(x, x) ELSE <<>>]
        /\ obj_len = [x \in Spans |-> Len(objs[x])] /\ obj_refcount = [x \in Spans |-> 0]
        /\ objs_size = [x \in Spans |-> IF x \in Classes THEN x ELSE 0]
        /\ loc = [x \in Spans |-> IF x \in Classes THEN "central_list" ELSE "pageheap"]
        /\ list = [c \in Classes |-> c] /\ idle = [c \in Classes |-> NULL]
    BY DEF Init, Selfish
  <1>2. /\ pgcache = <<>> /\ unused = Spans \ Classes /\ central = NULL /\ held = {} /\ ops = 0
        /\ tl = [u \in Threads |-> [c \in Classes |-> [objs |-> <<>>, objlen |-> 0, max_length |-> 0]]]
        /\ pc = [u \in Threads |-> "init"] /\ act = [u \in Threads |-> Idle]
    BY DEF Init
  <1>3. Classes \subseteq Spans /\ Classes \subseteq Nat \ {0} /\ Idle \in ActType /\ NULL \notin Threads
    BY Consts
  <1>4. \A x \in Classes : /\ objs[x] \in Seq(Objects) /\ Len(objs[x]) = ObjsPerSpan[x]
                           /\ Len(objs[x]) \in Nat
    <2> TAKE x \in Classes
    <2>1. objs[x] = Carved(x, x) /\ x \in Spans
      BY <1>1, <1>3
    <2> QED
      BY <2>1, CarvedIs, LenProperties
  <1>5. \A x \in Spans \ Classes : objs[x] = <<>> /\ objs[x] \in Seq(Objects) /\ Len(objs[x]) = 0
    BY <1>1, EmptyIs
  <1>6. objs \in [Spans -> Seq(Objects)] /\ obj_len \in [Spans -> Nat]
    BY <1>1, <1>4, <1>5
  <1>7. /\ tl \in [Threads -> [Classes -> ListType]]
        /\ \A u \in Threads, c \in Classes : tl[u][c].objs = <<>> /\ tl[u][c].objlen = 0 /\ tl[u][c].max_length = 0
    <2>1. [objs |-> <<>>, objlen |-> 0, max_length |-> 0] \in ListType
      BY EmptyIs DEF ListType
    <2> QED
      BY <1>2, <2>1
  <1>8. TypeOK
    <2>1. pgcache \in Seq(Spans) /\ held \subseteq Objects \X ({0} \cup Classes) /\ ops \in 0 .. MaxOps
      BY <1>2, Consts, EmptyIs
    <2>2. pc \in [Threads -> ThreadPC] /\ act \in [Threads -> ActType]
      BY <1>2, <1>3 DEF ThreadPC
    <2>3. /\ next \in [Spans -> Spans] /\ prev \in [Spans -> Spans \cup {NULL}]
          /\ obj_refcount \in [Spans -> Nat] /\ objs_size \in [Spans -> {0} \cup Classes]
          /\ loc \in [Spans -> {"pageheap", "central_list", "central_idle"}]
          /\ list \in [Classes -> Spans \cup {NULL}] /\ idle \in [Classes -> Spans \cup {NULL}]
      BY <1>1, <1>3
    <2> QED
      BY <1>2, <1>6, <1>7, <2>1, <2>2, <2>3 DEF TypeOK, ListType, ActType
  <1>9. LockInv
    BY <1>2, <1>3 DEF LockInv
  <1>10. CacheBounded
    BY <1>7, EmptyIs DEF CacheBounded
  <1>11. RingInv
    <2>1. Colour(Classes) = [x \in Spans |-> <<objs_size[x], x \in Classes>>]
      BY DEF Colour
    <2>2. Cycles(next, prev, Colour(Classes))
      BY <1>1 DEF Cycles
    <2>3. Sides(Classes)
      BY <1>1, <1>2, <1>3, <2>2 DEF Sides
    <2> QED
      BY <1>3, <2>3 DEF RingInv
  <1>12. ASSUME NEW u \in Threads
         PROVE  ThreadInv(u) /\ SpanInv(u)
    <2>1. pc[u] = "init" /\ act[u].batch = <<>> /\ act[u].pop = FALSE /\ act[u].cls = 1
      BY <1>2 DEF Idle, Local
    <2>2. \A d \in Classes : ~(d < 1)
      BY <1>3
    <2>3. 1 \in Classes
      BY Consts
    <2> QED
      BY <1>7, <2>1, <2>2, <2>3 DEF ThreadInv, SpanInv, Starting, Fetching
  <1>13. \A x \in Spans : CountInv(x)
    <2> TAKE x \in Spans
    <2>1. CASE x \in Classes
      <3>1. ObjsPerSpan[x] \in Nat
        BY <2>1, Consts
      <3>2. objs_size[x] = x /\ x # 0 /\ obj_refcount[x] = 0 /\ obj_len[x] = Len(objs[x])
        BY <1>1, <1>3, <2>1
      <3> QED
        BY <1>4, <2>1, <3>1, <3>2 DEF CountInv
    <2>2. CASE x \notin Classes
      BY <1>1, <1>5, <2>2 DEF CountInv
    <2> QED
      BY <2>1, <2>2
  <1> QED
    BY <1>8, <1>9, <1>10, <1>11, <1>12, <1>13, InitPlaces DEF IInv

\* A step that changes nothing.
LEMMA StutterInv ==
    ASSUME IInv, UNCHANGED vars
    PROVE  IInv'
  <1>1. /\ next' = next /\ prev' = prev /\ objs' = objs /\ obj_len' = obj_len
        /\ obj_refcount' = obj_refcount /\ objs_size' = objs_size /\ loc' = loc
        /\ list' = list /\ idle' = idle /\ pgcache' = pgcache /\ unused' = unused
        /\ central' = central /\ tl' = tl /\ pc' = pc /\ act' = act /\ held' = held /\ ops' = ops
    BY DEF vars, fields, rings, heap
  <1>2. TypeOK' /\ LockInv' /\ CacheBounded'
    BY <1>1 DEF IInv, TypeOK, LockInv, CacheBounded
  <1>3. PlaceInv'
    BY <1>1, PlaceFrame DEF IInv
  <1>4. RingInv'
    BY <1>1, RingFrame DEF IInv, rings
  <1>5. \A u \in Threads : ThreadInv(u)'
    BY <1>1 DEF IInv, ThreadInv, Starting, Fetching
  <1>6. \A u \in Threads : SpanInv(u)'
    BY <1>1, SpanFrame DEF IInv
  <1>7. \A x \in Spans : CountInv(x)'
    BY <1>1, CountFrame DEF IInv
  <1> QED
    BY <1>2, <1>3, <1>4, <1>5, <1>6, <1>7 DEF IInv

\* Every step of the allocator.
LEMMA NextInv ==
    ASSUME IInv, [Next]_vars
    PROVE  IInv'
  <1>1. CASE UNCHANGED vars
    BY <1>1, StutterInv
  <1>2. CASE Finished
    BY <1>2, StutterInv DEF Finished
  <1>3. ASSUME NEW t \in Threads, Step(t)
        PROVE  IInv'
    BY <1>3, ThreadInitStep, AllocateHitStep, AllocateMissStep, SearchListStep, CarveSpanStep,
       FetchObjsStep, DeallocateLocalStep, DeallocateFlushStep, ReturnObjsStep, GiveBackSpanStep,
       MallocLargeStep, FreeLargeStep DEF Step
  <1> QED
    BY <1>1, <1>2, <1>3 DEF Next

\* The inductive invariant holds in every state.
THEOREM CacheCorrect == Spec => []IInv
  <1>1. Init => IInv
    BY InitInv
  <1>2. IInv /\ [Next]_vars => IInv'
    BY NextInv
  <1> QED
    BY <1>1, <1>2, PTL DEF Spec

\* Every variable keeps its type; that the counters are natural numbers is that none of
\* the unsigned differences wraps.
THEOREM CacheTypes == Spec => []TypeOK
  <1>1. IInv => TypeOK
    BY DEF IInv
  <1> QED
    BY <1>1, CacheCorrect, PTL

\* A thread's list never grows past max_length, so that the test with == in deallocate
\* is enough.
THEOREM CachesBounded == Spec => []CacheBounded
  <1>1. IInv => CacheBounded
    BY DEF IInv
  <1> QED
    BY <1>1, CacheCorrect, PTL

\* Every block that a span is cut into is in one place only, whichever threads fetch,
\* flush, carve and give spans back meanwhile.
THEOREM BlocksOnce == Spec => []OneHolder
  <1>1. IInv => OneHolder
    <2> SUFFICES ASSUME PlaceInv
                 PROVE  OneHolder
      BY DEF IInv
    <2>1. ASSUME NEW s \in Spans, NEW o \in Cut(s)
          PROVE  Cardinality({p \in Places : Holds(p, o)}) = 1
      <3>1. PICK p \in Places : \A q \in Places : Holds(q, o) <=> q = p
        BY DEF PlaceInv, Placed
      <3>2. {q \in Places : Holds(q, o)} = {p}
        BY <3>1
      <3> QED
        BY <3>2, FS_Singleton
    <2> QED
      BY <2>1 DEF OneHolder, PlaceInv
  <1> QED
    BY <1>1, CacheCorrect, PTL

\* obj_refcount is exact, and the limit that fetch_objs computes from the two counters
\* never keeps it from an object that is there.
THEOREM RefcountsExact == Spec => []RefcountExact
  <1>1. IInv => RefcountExact
    <2> SUFFICES ASSUME TypeOK, PlaceInv, \A x \in Spans : CountInv(x), NEW s \in Spans
                 PROVE  /\ obj_refcount[s] =
                             IF objs_size[s] = 0 THEN 0 ELSE Cardinality(Cut(s) \ ToSet(objs[s]))
                        /\ obj_len[s] >= obj_refcount[s] + Len(objs[s])
      BY DEF IInv, RefcountExact
    <2>1. objs[s] \in Seq(Objects) /\ objs_size \in [Spans -> {0} \cup Classes]
      BY Types
    <2>2. PICK m \in Nat, re \in Nat, le \in Nat : m = Len(objs[s]) /\ re = obj_refcount[s] /\ le = obj_len[s]
      BY <2>1, Types, LenProperties
    <2>3. CASE objs_size[s] = 0
      <3>1. re = 0 /\ m = 0
        BY <2>2, <2>3, EmptyIs DEF CountInv
      <3> QED
        BY <2>2, <2>3, <3>1
    <2>4. CASE objs_size[s] # 0
      <3>1. PICK n \in Nat : n = ObjsPerSpan[objs_size[s]] /\ re + m = n /\ le >= n
        <4>1. ObjsPerSpan[objs_size[s]] \in Nat
          BY <2>1, <2>4, Consts
        <4> QED
          BY <2>2, <2>4, <4>1 DEF CountInv
      <3>2. IsFiniteSet(Cut(s)) /\ Cardinality(Cut(s)) = n
        BY <2>1, <2>4, <3>1, CutCount
      <3>3. IsInjective(objs[s]) /\ ToSet(objs[s]) \subseteq Cut(s)
        BY DEF PlaceInv, ListsSound
      <3>4. Cardinality(ToSet(objs[s])) = m
        BY <2>1, <2>2, <3>3, InjectiveCount
      <3>5. Cut(s) \cap ToSet(objs[s]) = ToSet(objs[s])
        BY <3>3
      <3>6. Cardinality(Cut(s) \ ToSet(objs[s])) = n - m
        <4>1. Cardinality(Cut(s) \ ToSet(objs[s])) = Cardinality(Cut(s)) - Cardinality(Cut(s) \cap ToSet(objs[s]))
          BY <3>2, FS_Difference, Zenon
        <4> QED
          BY <3>2, <3>4, <3>5, <4>1
      <3> QED
        BY <2>2, <2>4, <3>1, <3>6
    <2> QED
      BY <2>3, <2>4
  <1> QED
    BY <1>1, CacheCorrect, PTL

\* A ring that a head pointer leads to has spans of the head's side and class only.
LEMMA OneSide ==
    ASSUME TypeOK, NEW L \in SUBSET Spans, Sides(L), NEW c \in Classes
    PROVE  /\ Ring(list[c], next) \subseteq {x \in L : objs_size[x] = c}
           /\ Ring(idle[c], next) \subseteq {x \in Spans \ L : objs_size[x] = c}
  <1>1. \A x \in Spans : /\ next[x] \in Spans /\ objs_size[next[x]] = objs_size[x]
                         /\ next[x] \in L <=> x \in L
    <2> TAKE x \in Spans
    <2>1. next[x] \in Spans /\ Colour(L)[next[x]] = Colour(L)[x]
      BY DEF Sides, Cycles
    <2> QED
      BY <2>1, Colours
  <1>2. PICK D, F : D = {x \in L : objs_size[x] = c} /\ F = {x \in Spans \ L : objs_size[x] = c}
    OBVIOUS
  <1>3. (\A x \in D : next[x] \in D) /\ \A x \in F : next[x] \in F
    BY <1>1, <1>2
  <1>4. list[c] # NULL => list[c] \in D
    BY <1>2 DEF Sides
  <1>5. idle[c] # NULL => idle[c] \in F
    BY <1>2 DEF Sides, TypeOK
  <1>6. Ring(list[c], next) \subseteq D
    BY <1>3, <1>4, RingStays
  <1>7. Ring(idle[c], next) \subseteq F
    BY <1>3, <1>5, RingStays
  <1> QED
    BY <1>2, <1>6, <1>7

\* The rings of the central cache stay rings, the two of a class have no span in common,
\* and none has a span of another class or of the page heap.
THEOREM RingsAlwaysSound == Spec => []RingsSound
  <1>1. IInv => RingsSound
    <2> SUFFICES ASSUME TypeOK, RingInv, PlaceInv
                 PROVE  RingsSound
      BY DEF IInv
    <2>1. PICK L \in SUBSET Spans : Sides(L)
      BY DEF RingInv
    <2>2. \A s \in Spans : prev[s] # NULL /\ next[prev[s]] = s /\ prev[next[s]] = s
      BY <2>1, Consts DEF Sides, Cycles
    <2>3. ASSUME NEW c \in Classes
          PROVE  /\ Ring(list[c], next) \cap Ring(idle[c], next) = {}
                 /\ \A s \in Ring(list[c], next) \cup Ring(idle[c], next) :
                       objs_size[s] = c /\ s \notin unused \cup ToSet(pgcache)
      <3>1. /\ Ring(list[c], next) \subseteq {x \in L : objs_size[x] = c}
            /\ Ring(idle[c], next) \subseteq {x \in Spans \ L : objs_size[x] = c}
        BY <2>1, OneSide
      <3>2. c # 0 /\ \A s \in unused \cup ToSet(pgcache) : objs_size[s] = 0
        BY Consts DEF PlaceInv
      <3> QED
        BY <3>1, <3>2
    <2> QED
      BY <2>2, <2>3 DEF RingsSound
  <1> QED
    BY <1>1, CacheCorrect, PTL

-----------------------------------------------------------------------------
(* The allocator implements BlockStore *)

\* The most objects that a span of any class is cut into.
LEMMA MaxObjsIs ==
    /\ Max({ObjsPerSpan[c] : c \in Classes}) \in Nat
    /\ \A c \in Classes : ObjsPerSpan[c] <= Max({ObjsPerSpan[d] : d \in Classes})
  <1>1. ObjsPerSpan \in [Classes -> Nat] /\ NClasses \in Nat \ {0} /\ Classes = 1 .. NClasses
    BY CacheAssumption DEF Classes
  <1> DEFINE S == {ObjsPerSpan[c] : c \in Classes}
             B == {n \in Nat : n + 1 <= NClasses => \E m \in 1 .. n + 1 :
                                   \A c \in 1 .. n + 1 : ObjsPerSpan[c] <= ObjsPerSpan[m]}
  <1>2. 0 \in B
    <2>1. \A c \in 1 .. 0 + 1 : c = 1
      OBVIOUS
    <2>2. ObjsPerSpan[1] \in Nat
      BY <1>1
    <2> QED
      BY <2>1, <2>2
  <1>3. ASSUME NEW n \in Nat, n \in B
        PROVE  n + 1 \in B
    <2> SUFFICES ASSUME n + 1 + 1 <= NClasses
                 PROVE  \E m \in 1 .. n + 1 + 1 :
                            \A c \in 1 .. n + 1 + 1 : ObjsPerSpan[c] <= ObjsPerSpan[m]
      OBVIOUS
    <2>1. PICK m \in 1 .. n + 1 : \A c \in 1 .. n + 1 : ObjsPerSpan[c] <= ObjsPerSpan[m]
      BY <1>1, <1>3
    <2>2. \A c \in 1 .. n + 1 + 1 : ObjsPerSpan[c] \in Nat
      BY <1>1
    <2>3. m \in 1 .. n + 1 + 1 /\ n + 1 + 1 \in 1 .. n + 1 + 1
      OBVIOUS
    <2>4. \A c \in 1 .. n + 1 + 1 : c \in 1 .. n + 1 \/ c = n + 1 + 1
      OBVIOUS
    <2>5. CASE ObjsPerSpan[n + 1 + 1] <= ObjsPerSpan[m]
      BY <2>1, <2>3, <2>4, <2>5
    <2>6. CASE ~(ObjsPerSpan[n + 1 + 1] <= ObjsPerSpan[m])
      <3>1. \A c \in 1 .. n + 1 + 1 : ObjsPerSpan[c] <= ObjsPerSpan[n + 1 + 1]
        BY <2>1, <2>2, <2>3, <2>4, <2>6
      <3> QED
        BY <2>3, <3>1
    <2> QED
      BY <2>5, <2>6
  <1>4. Nat \subseteq B
    <2> HIDE DEF B
    <2> QED
      BY <1>2, <1>3, NatSetInduction
  <1>5. NClasses - 1 \in Nat /\ (NClasses - 1) + 1 = NClasses
    BY <1>1
  <1>6. \E m \in Classes : \A c \in Classes : ObjsPerSpan[c] <= ObjsPerSpan[m]
    <2>1. PICK n \in Nat : n + 1 = NClasses
      BY <1>5
    <2>2. n \in B
      BY <1>4
    <2>3. n + 1 <= NClasses /\ 1 .. n + 1 = Classes
      BY <1>1, <2>1
    <2>4. PICK m \in 1 .. n + 1 : \A c \in 1 .. n + 1 : ObjsPerSpan[c] <= ObjsPerSpan[m]
      BY <2>2, <2>3
    <2>5. m \in Classes /\ \A c \in Classes : ObjsPerSpan[c] <= ObjsPerSpan[m]
      BY <2>3, <2>4
    <2> QED
      BY <2>5
  <1>7. PICK m \in Classes : \A c \in Classes : ObjsPerSpan[c] <= ObjsPerSpan[m]
    BY <1>6
  <1>8. PICK k : k = ObjsPerSpan[m]
    OBVIOUS
  <1>9. S \in SUBSET Nat /\ k \in S /\ \A x \in S : x <= k
    BY <1>1, <1>7, <1>8
  <1> HIDE DEF S
  <1>10. Max(S) = k
    BY <1>9, MaxIs
  <1> QED
    BY <1>1, <1>7, <1>8, <1>10 DEF S

\* Blocks in use are blocks of the store and overlap no other.
Apart ==
    /\ \A o : AtHeld(o) => o \in Blocks!Blocks
    /\ \A o, d : AtHeld(o) /\ AtHeld(d) /\ o # d => ~Blocks!Overlap(o, d)

\* That is so whenever the invariant holds.
LEMMA LiveApart == IInv => Apart
  <1> SUFFICES ASSUME TypeOK, PlaceInv
               PROVE  Apart
    BY DEF IInv
  <1>1. objs_size \in [Spans -> {0} \cup Classes]
    BY Types
  <1>2. ASSUME NEW o, AtHeld(o)
        PROVE  o \in Objects /\ o[1] \in Spans /\ o \in Cut(o[1])
    BY <1>2, HeldIs DEF AtHeld
  <1>3. PICK n \in Nat : n = Max({ObjsPerSpan[c] : c \in Classes})
    BY MaxObjsIs
  <1>4. ASSUME NEW o, AtHeld(o)
        PROVE  o \in Blocks!Blocks
    <2>1. PICK x \in Spans, i \in Nat : o = <<x, i>> /\ x = o[1] /\ i = o[2]
      BY <1>2, <1>4 DEF Objects
    <2>2. o \in Cut(x)
      BY <1>2, <1>4, <2>1
    <2>3. i <= n
      <3>1. CASE objs_size[x] = 0
        BY <1>1, <2>1, <2>2, <3>1, CutIs
      <3>2. CASE objs_size[x] # 0
        <4>1. PICK k \in Nat : k = ObjsPerSpan[objs_size[x]] /\ k <= n
          BY <1>1, <1>3, <3>2, Consts, MaxObjsIs
        <4>2. i <= k
          BY <1>1, <2>1, <2>2, <3>2, <4>1, CutIs
        <4> QED
          BY <4>1, <4>2
      <3> QED
        BY <3>1, <3>2
    <2> QED
      BY <1>3, <2>1, <2>3 DEF Blocks!Blocks
  <1>5. ASSUME NEW o, NEW d, AtHeld(o), AtHeld(d), o # d
        PROVE  ~Blocks!Overlap(o, d)
    <2> SUFFICES ASSUME o[1] = d[1], o[2] = d[2] \/ o[2] = 0 \/ d[2] = 0
                 PROVE  FALSE
      BY DEF Blocks!Overlap
    <2>1. PICK x \in Spans : x = o[1] /\ x = d[1]
      BY <1>2, <1>5
    <2>2. PICK i \in Nat, j \in Nat : i = o[2] /\ j = d[2] /\ o = <<x, i>> /\ d = <<x, j>>
      BY <1>2, <1>5, <2>1 DEF Objects
    <2>3. o \in Cut(x) /\ d \in Cut(x)
      BY <1>2, <1>5, <2>1
    <2>4. i # j
      BY <1>5, <2>2
    <2>5. CASE objs_size[x] = 0
      BY <1>1, <2>2, <2>3, <2>4, <2>5, CutIs
    <2>6. CASE objs_size[x] # 0
      <3>1. i >= 1 /\ j >= 1
        BY <1>1, <2>2, <2>3, <2>6, CutIs
      <3> QED
        BY <2>2, <2>4, <3>1
    <2> QED
      BY <2>5, <2>6
  <1> QED
    BY <1>4, <1>5 DEF Apart

\* The blocks in use, and the threads whose call of tc_malloc waits for a fetch.
Live == {h[1] : h \in held}
Waiting == {u \in Threads : act[u].pop}

\* A block is in use when the program has it.
LEMMA LiveIs == \A o : o \in Live <=> AtHeld(o)
  BY DEF Live, AtHeld

\* The same after a step.
LEMMA LiveIsNext == \A o : o \in Live' <=> AtHeld(o)'
  BY DEF Live, AtHeld

\* A step that returns from no call and frees nothing.
LEMMA Stutters ==
    ASSUME held' = held, Returned' = Returned
    PROVE  [Blocks!Next]_(Blocks!vars)
  <1>1. Live' = Live
    BY DEF Live
  <1> QED
    BY <1>1 DEF Blocks!vars, Live

\* A step with which a call of tc_malloc returns o.
LEMMA MallocMaps ==
    ASSUME Apart', NEW o, ~AtHeld(o), \A d : AtHeld(d)' <=> AtHeld(d) \/ d = o,
           Returned' = Returned + 1
    PROVE  Blocks!Next
  <1>1. o \in Blocks!Blocks /\ \A d : AtHeld(d) => ~Blocks!Overlap(o, d)
    <2>1. AtHeld(o)' /\ o \in Blocks!Blocks
      BY DEF Apart
    <2>2. \A d : AtHeld(d) => AtHeld(d)' /\ o # d
      OBVIOUS
    <2> QED
      BY <2>1, <2>2 DEF Apart
  <1>2. o \notin Live /\ \A d \in Live : ~Blocks!Overlap(o, d)
    BY <1>1, LiveIs
  <1>3. Live' = Live \cup {o}
    BY LiveIs, LiveIsNext
  <1>4. Blocks!Malloc(o)
    BY <1>2, <1>3 DEF Blocks!Malloc, Live
  <1> QED
    BY <1>1, <1>2, <1>4 DEF Blocks!Next, Live

\* A step with which o is freed.
LEMMA FreeMaps ==
    ASSUME TypeOK, PlaceInv, NEW h \in held, held' = held \ {h}, Returned' = Returned
    PROVE  Blocks!Next
  <1>1. PICK o : o = h[1]
    OBVIOUS
  <1>2. \A d : AtHeld(d)' <=> AtHeld(d) /\ d # o
    BY <1>1, HeldLess
  <1>3. Live' = Live \ {o}
    BY <1>2, LiveIs, LiveIsNext
  <1>4. o \in Live
    BY <1>1 DEF Live
  <1>5. Blocks!Free(o)
    BY <1>3 DEF Blocks!Free, Live
  <1> QED
    BY <1>4, <1>5 DEF Blocks!Next, Live

\* How many calls have returned: a step of a thread that starts or ends to wait, or does
\* neither.
LEMMA ReturnedStep ==
    ASSUME act \in [Threads -> ActType], act' \in [Threads -> ActType], ops \in Nat, ops' \in Nat,
           NEW t \in Threads, \A u \in Threads : u # t => act'[u] = act[u]
    PROVE  /\ act'[t].pop = act[t].pop /\ ops' = ops => Returned' = Returned
           /\ act'[t].pop = act[t].pop /\ ops' = ops + 1 => Returned' = Returned + 1
           /\ act'[t].pop = TRUE /\ act[t].pop = FALSE /\ ops' = ops + 1 => Returned' = Returned
           /\ act'[t].pop = FALSE /\ act[t].pop = TRUE /\ ops' = ops => Returned' = Returned + 1
  <1>1. IsFiniteSet(Waiting) /\ Cardinality(Waiting) \in Nat
    <2>1. Waiting \in SUBSET Threads
      BY DEF Waiting
    <2> QED
      BY <2>1, Consts, FS_Subset, FS_CardinalityType
  <1>2. PICK n \in Nat : n = Cardinality(Waiting)
    BY <1>1
  <1>3. act'[t].pop = act[t].pop => Waiting' = Waiting
    BY DEF Waiting
  <1>4. act'[t].pop = TRUE /\ act[t].pop = FALSE => Cardinality(Waiting') = n + 1
    <2> SUFFICES ASSUME act'[t].pop = TRUE, act[t].pop = FALSE
                 PROVE  Cardinality(Waiting') = n + 1
      OBVIOUS
    <2>1. Waiting' = Waiting \cup {t} /\ t \notin Waiting
      BY DEF Waiting
    <2> QED
      BY <1>1, <1>2, <2>1, FS_AddElement
  <1>5. act'[t].pop = FALSE /\ act[t].pop = TRUE => Cardinality(Waiting') = n - 1
    <2> SUFFICES ASSUME act'[t].pop = FALSE, act[t].pop = TRUE
                 PROVE  Cardinality(Waiting') = n - 1
      OBVIOUS
    <2>1. Waiting' = Waiting \ {t} /\ t \in Waiting
      BY DEF Waiting
    <2> QED
      BY <1>1, <1>2, <2>1, FS_RemoveElement
  <1>6. Returned = ops - n /\ Returned' = ops' - Cardinality(Waiting')
    BY <1>2 DEF Returned, Waiting
  <1> QED
    BY <1>2, <1>3, <1>4, <1>5, <1>6

\* A thread that gets a span goes on with the same call.
LEMMA SpanKeepsCall ==
    ASSUME act \in [Threads -> ActType], NEW t \in Threads, NEW x, act' = [act EXCEPT ![t].span = x]
    PROVE  act'[t].pop = act[t].pop
  <1>1. act[t] \in ActType
    OBVIOUS
  <1>2. act'[t] = [act[t] EXCEPT !.span = x]
    OBVIOUS
  <1> QED
    BY <1>1, <1>2 DEF ActType

\* What the two states of a step say of the calls under way.
LEMMA CallTypes ==
    ASSUME IInv, IInv'
    PROVE  /\ TypeOK /\ PlaceInv /\ pc \in [Threads -> ThreadPC]
           /\ act \in [Threads -> ActType] /\ act' \in [Threads -> ActType]
           /\ ops \in Nat /\ ops' \in Nat
  <1>1. TypeOK /\ PlaceInv /\ TypeOK'
    BY DEF IInv
  <1>2. act \in [Threads -> ActType] /\ pc \in [Threads -> ThreadPC] /\ ops \in 0 .. MaxOps
    BY <1>1, Types
  <1>3. act' \in [Threads -> ActType]
    BY <1>1 DEF TypeOK, ActType
  <1>4. ops' \in 0 .. MaxOps
    BY <1>1 DEF TypeOK
  <1> QED
    BY <1>1, <1>2, <1>3, <1>4, Consts

\* Steps with which no call of tc_malloc returns and no block is freed.
LEMMA QuietMaps ==
    ASSUME IInv, IInv', NEW t \in Threads,
           \/ ThreadInit(t) \/ SearchList(t) \/ CarveSpan(t) \/ ReturnObjs(t) \/ GiveBackSpan(t)
           \/ \E c \in Classes : AllocateMiss(t, c)
    PROVE  [Blocks!Next]_(Blocks!vars)
  <1>1. /\ act \in [Threads -> ActType] /\ act' \in [Threads -> ActType]
        /\ ops \in Nat /\ ops' \in Nat
    BY CallTypes
  <1>2. (act[t].pop => Fetching(t)) /\ (act'[t].pop => Fetching(t)')
    BY DEF IInv, ThreadInv
  <1>3. act[t].pop \in BOOLEAN /\ act'[t].pop \in BOOLEAN
    BY <1>1 DEF ActType
  <1>4. held' = held /\ \A u \in Threads : u # t => act'[u] = act[u]
    BY <1>1 DEF ThreadInit, SearchList, CarveSpan, ReturnObjs, GiveBackSpan, AllocateMiss,
                fetch_from_centralcache
  <1>5. CASE ThreadInit(t)
    <2>1. act'[t] = Local(act[t].cls, act'[t].num, FALSE, <<>>, NULL) /\ ops' = ops /\ pc[t] = "init"
      BY <1>1, <1>5 DEF ThreadInit, fetch_from_centralcache, Local
    <2>2. act'[t].pop = FALSE /\ act[t].pop = FALSE
      BY <1>2, <1>3, <2>1 DEF Local, Fetching
    <2> QED
      BY <1>1, <1>4, <2>1, <2>2, ReturnedStep, Stutters
  <1>6. ASSUME NEW c \in Classes, AllocateMiss(t, c)
        PROVE  [Blocks!Next]_(Blocks!vars)
    <2>1. act'[t] = Local(c, act'[t].num, TRUE, <<>>, NULL) /\ ops' = ops + 1 /\ pc[t] = "ready"
      BY <1>1, <1>6 DEF AllocateMiss, fetch_from_centralcache, Local
    <2>2. act'[t].pop = TRUE /\ act[t].pop = FALSE
      BY <1>2, <1>3, <2>1 DEF Local, Fetching
    <2> QED
      BY <1>1, <1>4, <2>1, <2>2, ReturnedStep, Stutters
  <1>7. CASE SearchList(t) \/ CarveSpan(t)
    <2>1. ops' = ops
      BY <1>7 DEF SearchList, CarveSpan
    <2>2. act'[t].pop = act[t].pop
      <3>1. act' = act \/ \E x : act' = [act EXCEPT ![t].span = x]
        BY <1>7 DEF SearchList, CarveSpan
      <3> QED
        BY <1>1, <3>1, SpanKeepsCall
    <2> QED
      BY <1>1, <1>4, <2>1, <2>2, ReturnedStep, Stutters
  <1>8. CASE ReturnObjs(t) \/ GiveBackSpan(t)
    <2>1. ops' = ops /\ pc[t] \in {"return", "giveback"} /\ pc'[t] \in {"ready", "giveback"}
      <3>1. pc \in [Threads -> ThreadPC]
        BY DEF IInv, TypeOK
      <3> QED
        BY <1>8, <3>1 DEF ReturnObjs, GiveBackSpan
    <2>2. act'[t].pop = FALSE /\ act[t].pop = FALSE
      BY <1>2, <1>3, <2>1 DEF Fetching
    <2> QED
      BY <1>1, <1>4, <2>1, <2>2, ReturnedStep, Stutters
  <1> QED
    BY <1>5, <1>6, <1>7, <1>8

\* Steps with which tc_free takes a block.
LEMMA FreeStepMaps ==
    ASSUME IInv, IInv', NEW t \in Threads, DeallocateLocal(t) \/ DeallocateFlush(t) \/ FreeLarge(t)
    PROVE  Blocks!Next
  <1>1. /\ TypeOK /\ PlaceInv /\ act \in [Threads -> ActType] /\ act' \in [Threads -> ActType]
        /\ ops \in Nat /\ ops' \in Nat /\ pc \in [Threads -> ThreadPC]
    BY CallTypes
  <1>2. /\ ops' = ops /\ pc[t] = "ready" /\ pc'[t] \in {"ready", "return"}
        /\ \A u \in Threads : u # t => act'[u] = act[u]
    BY <1>1 DEF DeallocateLocal, DeallocateFlush, FreeLarge
  <1>3. act'[t].pop = FALSE /\ act[t].pop = FALSE
    <2>1. (act[t].pop => Fetching(t)) /\ (act'[t].pop => Fetching(t)')
      BY DEF IInv, ThreadInv
    <2>2. act[t].pop \in BOOLEAN /\ act'[t].pop \in BOOLEAN
      BY <1>1 DEF ActType
    <2> QED
      BY <1>2, <2>1, <2>2 DEF Fetching
  <1>4. PICK h \in held : held' = held \ {h}
    BY DEF DeallocateLocal, DeallocateFlush, FreeLarge
  <1>5. Returned' = Returned
    BY <1>1, <1>2, <1>3, ReturnedStep
  <1> QED
    BY <1>1, <1>4, <1>5, FreeMaps

\* A block that is somewhere else is not in use.
LEMMA NotHeld ==
    ASSUME PlaceInv, NEW s \in Spans, NEW o \in Cut(s), NEW p \in Places, p # PHeld, Holds(p, o)
    PROVE  ~AtHeld(o)
  BY Exclusive, PlacesDiffer, HoldsIs

\* Steps with which a call of tc_malloc may return.
LEMMA MallocStepMaps ==
    ASSUME IInv, IInv', Apart', NEW t \in Threads,
           \/ FetchObjs(t) \/ MallocLarge(t)
           \/ \E c \in Classes : AllocateHit(t, c)
    PROVE  [Blocks!Next]_(Blocks!vars)
  <1>1. /\ TypeOK /\ PlaceInv /\ act \in [Threads -> ActType] /\ act' \in [Threads -> ActType]
        /\ ops \in Nat /\ ops' \in Nat /\ pc \in [Threads -> ThreadPC]
    BY CallTypes
  <1>2. CASE FetchObjs(t)
    <2>1. Gave(t)
      BY <1>2, FetchObjsStep
    <2>2. ops' = ops /\ pc'[t] \in {"init", "ready"} /\ \A u \in Threads : u # t => act'[u] = act[u]
      BY <1>1, <1>2 DEF FetchObjs, Resume
    <2>3. act'[t].pop = FALSE /\ act[t].pop \in BOOLEAN
      <3>1. act'[t].pop => Fetching(t)'
        BY DEF IInv, ThreadInv
      <3>2. act[t].pop \in BOOLEAN /\ act'[t].pop \in BOOLEAN
        BY <1>1 DEF ActType
      <3> QED
        BY <2>2, <3>1, <3>2 DEF Fetching
    <2>4. CASE act[t].pop = TRUE
      <3>1. PICK o : AtFree(o) /\ o \in Cut(o[1]) /\ o[1] \in Spans /\ held' = held \cup {<<o, act[t].cls>>}
        BY <2>1, <2>4 DEF Gave
      <3>2. ~AtHeld(o)
        BY <1>1, <3>1, HoldsIs, PlacesDiffer, NotHeld
      <3>3. \A d : AtHeld(d)' <=> AtHeld(d) \/ d = o
        BY <3>1, HeldMore
      <3>4. Returned' = Returned + 1
        BY <1>1, <2>2, <2>3, <2>4, ReturnedStep
      <3> QED
        BY <3>2, <3>3, <3>4, MallocMaps
    <2>5. CASE act[t].pop = FALSE
      <3>1. held' = held
        BY <2>1, <2>5 DEF Gave
      <3>2. Returned' = Returned
        BY <1>1, <2>2, <2>3, <2>5, ReturnedStep
      <3> QED
        BY <3>1, <3>2, Stutters
    <2> QED
      BY <2>3, <2>4, <2>5
  <1>3. CASE MallocLarge(t)
    <2>1. PICK s \in Spans : fetch_span(s) /\ held' = held \cup {<<<<s, 0>>, 0>>}
      BY <1>3 DEF MallocLarge
    <2>2. PICK o : o = <<s, 0>>
      OBVIOUS
    <2>3. o \in Cut(s) /\ \E p \in {PHeap, PUnused} : Holds(p, o)
      BY <1>1, <2>1, <2>2, FetchSpanIs
    <2>4. ~AtHeld(o)
      BY <1>1, <2>3, PlacesDiffer, NotHeld
    <2>5. held' = held \cup {<<o, 0>>}
      BY <2>1, <2>2
    <2>6. \A d : AtHeld(d)' <=> AtHeld(d) \/ d = o
      BY <2>5, HeldMore
    <2>7. Returned' = Returned + 1
      <3>1. ops' = ops + 1 /\ act' = act
        BY <1>3 DEF MallocLarge
      <3> QED
        BY <1>1, <3>1, ReturnedStep
    <2> QED
      BY <2>4, <2>6, <2>7, MallocMaps
  <1>4. ASSUME NEW c \in Classes, AllocateHit(t, c)
        PROVE  [Blocks!Next]_(Blocks!vars)
    <2>1. PICK q \in Seq(Objects) : q = tl[t][c].objs /\ q # <<>>
      BY <1>1, <1>4, Types DEF AllocateHit, ListType
    <2>2. PICK o : o = Head(q)
      OBVIOUS
    <2>3. o \in ToSet(q) /\ o \in Objects
      <3>1. IsInjective(q)
        BY <1>1, <2>1 DEF PlaceInv, ListsSound
      <3> QED
        BY <2>1, <2>2, <3>1, PopSeq
    <2>4. Holds(PCache(t), o)
      BY <2>1, <2>3, HoldsIs DEF AtCache
    <2>5. o \in Cut(o[1]) /\ o[1] \in Spans
      BY <1>1, <2>1, <2>3 DEF PlaceInv, ListsSound, Fits, Objects
    <2>6. ~AtHeld(o)
      BY <1>1, <2>4, <2>5, PlacesDiffer, NotHeld
    <2>7. held' = held \cup {<<o, c>>} /\ ops' = ops + 1 /\ act' = act
      BY <1>4, <2>1, <2>2 DEF AllocateHit
    <2>8. \A d : AtHeld(d)' <=> AtHeld(d) \/ d = o
      BY <2>7, HeldMore
    <2>9. Returned' = Returned + 1
      BY <1>1, <2>7, ReturnedStep
    <2> QED
      BY <2>6, <2>8, <2>9, MallocMaps
  <1> QED
    BY <1>2, <1>3, <1>4

\* Every step of the allocator is a step of BlockStore or changes nothing there.
LEMMA StepMaps ==
    ASSUME IInv, IInv', Apart', [Next]_vars
    PROVE  [Blocks!Next]_(Blocks!vars)
  <1>1. CASE UNCHANGED vars \/ Finished
    <2>1. held' = held /\ act' = act /\ ops' = ops
      BY <1>1 DEF vars, Finished
    <2>2. Returned' = Returned
      BY <2>1 DEF Returned
    <2> QED
      BY <2>1, <2>2, Stutters
  <1>2. ASSUME NEW t \in Threads, Step(t)
        PROVE  [Blocks!Next]_(Blocks!vars)
    BY <1>2, QuietMaps, FreeStepMaps, MallocStepMaps DEF Step
  <1> QED
    BY <1>1, <1>2 DEF Next

\* The thread caches, the central cache and the page heap implement BlockStore, for any
\* number of threads, classes and spans: what tc_malloc returns overlaps nothing in use.
THEOREM CacheRefines == Spec => ImplementsBlockStore
  <1>1. Init => Blocks!Init
    <2> SUFFICES ASSUME Init
                 PROVE  Blocks!Init
      OBVIOUS
    <2>1. held = {} /\ ops = 0 /\ \A u \in Threads : act[u].pop = FALSE
      BY DEF Init, Idle, Local
    <2>2. {h[1] : h \in held} = {} /\ {u \in Threads : act[u].pop} = {}
      BY <2>1
    <2>3. Returned = 0
      BY <2>1, <2>2, FS_EmptySet DEF Returned
    <2> QED
      BY <2>2, <2>3 DEF Blocks!Init
  <1>2. IInv /\ IInv' /\ Apart' /\ [Next]_vars => [Blocks!Next]_(Blocks!vars)
    BY StepMaps
  <1> QED
    BY <1>1, <1>2, LiveApart, CacheCorrect, PTL DEF Spec, ImplementsBlockStore, Blocks!Spec

-----------------------------------------------------------------------------
(* Size classes *)

\* What the two functions do on each of the three groups of sizes.
LEMMA Groups ==
    ASSUME NEW n \in Sizes
    PROVE  /\ get_index(n) \in 0 .. 158
           /\ index_to_size(get_index(n)) >= n
           /\ get_index(n) > 0 => index_to_size(get_index(n) - 1) < n
           /\ get_index(index_to_size(get_index(n))) = get_index(n)
  <1> USE DEF Sizes, THRESHALLOC
  <1>1. CASE n <= 64
    <2> DEFINE q == (n - 1) \div 8
    <2>1. q \in 0 .. 7 /\ 8 * q <= n - 1 /\ n - 1 < 8 * q + 8
      BY <1>1
    <2>2. get_index(n) = q
      BY <1>1 DEF get_index
    <2> HIDE DEF q
    <2>3. /\ index_to_size(q) = 8 * q + 8
          /\ (q > 0 => index_to_size(q - 1) = 8 * q)
      BY <2>1 DEF index_to_size
    <2>4. (8 * q + 8 - 1) \div 8 = q
      BY <2>1
    <2>5. get_index(8 * q + 8) = q
      BY <2>1, <2>4 DEF get_index
    <2> QED
      BY <1>1, <2>1, <2>2, <2>3, <2>5
  <1>2. CASE n > 64 /\ n <= 2048
    <2> DEFINE q == (n - 65) \div 64
    <2>1. q \in 0 .. 30 /\ 64 * q <= n - 65 /\ n - 65 < 64 * q + 64
      BY <1>2
    <2>2. get_index(n) = q + 8
      BY <1>2 DEF get_index
    <2> HIDE DEF q
    <2>3. /\ index_to_size(q + 8) = 64 * q + 128
          /\ index_to_size(q + 8 - 1) = 64 * q + 64
      BY <2>1 DEF index_to_size
    <2>4. (64 * q + 128 - 65) \div 64 = q
      BY <2>1
    <2>5. get_index(64 * q + 128) = q + 8
      BY <2>1, <2>4 DEF get_index
    <2> QED
      BY <1>2, <2>1, <2>2, <2>3, <2>5
  <1>3. CASE n > 2048
    <2> DEFINE q == (n - 2049) \div 256
    <2>1. q \in 0 .. 119 /\ 256 * q <= n - 2049 /\ n - 2049 < 256 * q + 256
      BY <1>3
    <2>2. get_index(n) = q + 39
      BY <1>3 DEF get_index
    <2> HIDE DEF q
    <2>3. /\ index_to_size(q + 39) = 256 * q + 2304
          /\ index_to_size(q + 39 - 1) = 256 * q + 2048
      BY <2>1 DEF index_to_size
    <2>4. (256 * q + 2304 - 2049) \div 256 = q
      BY <2>1
    <2>5. get_index(256 * q + 2304) = q + 39
      BY <2>1, <2>4 DEF get_index
    <2> QED
      BY <1>3, <2>1, <2>2, <2>3, <2>5
  <1> QED
    BY <1>1, <1>2, <1>3

\* A larger class has larger objects.
LEMMA SizesGrow ==
    ASSUME NEW i \in 0 .. 158, NEW j \in 0 .. i
    PROVE  index_to_size(j) <= index_to_size(i)
  BY DEF index_to_size

\* For every size that allocate serves, get_index picks the smallest class whose
\* objects are large enough.
THEOREM ClassCorrect == \A n \in Sizes : SmallestClass(n)
  <1> SUFFICES ASSUME NEW n \in Sizes
               PROVE  SmallestClass(n)
    OBVIOUS
  <1>1. PICK i : i = get_index(n)
    OBVIOUS
  <1>2. i \in 0 .. 158 /\ index_to_size(i) >= n /\ (i > 0 => index_to_size(i - 1) < n)
    BY <1>1, Groups
  <1>3. n \in Int
    BY DEF Sizes
  <1>4. ASSUME NEW j \in 0 .. i - 1
        PROVE  index_to_size(j) < n
    <2>1. i > 0 /\ i - 1 \in 0 .. 158 /\ j \in 0 .. (i - 1)
      BY <1>2
    <2>2. index_to_size(j) <= index_to_size(i - 1) /\ index_to_size(i - 1) < n
      BY <1>2, <2>1, SizesGrow
    <2>3. index_to_size(j) \in Int /\ index_to_size(i - 1) \in Int
      BY <2>1 DEF index_to_size
    <2> QED
      BY <1>3, <2>2, <2>3
  <1> QED
    BY <1>1, <1>2, <1>4 DEF SmallestClass, CLASSES

\* For every such size, an object is freed to the list it was allocated from: the
\* class that tc_free finds in objs_size is the one that the program asked for.
THEOREM FreeFindsList == \A n \in Sizes : FreedWhereAllocated(n)
  BY Groups DEF FreedWhereAllocated
=============================================================================
