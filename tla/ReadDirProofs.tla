--------------------------- MODULE ReadDirProofs ---------------------------
(***************************************************************************)
(* Proofs about ReadDir for directories and buffers of any size and for a  *)
(* file list of any even initial length.                                   *)
(***************************************************************************)
EXTENDS ReadDir, NatLemmas, SequenceTheorems, TLAPS

\* The loop of insert stops at the first free slot.
LEMMA FreeSlotIs ==
    ASSUME NEW l, NEW index \in Nat, l.phys_len \in Nat, NEW m \in index .. l.phys_len - 1,
           l.dyn_list[m] = NULL,
           \A k \in index .. m - 1 : l.dyn_list[k] # NULL
    PROVE  FreeSlot(l, index) = m
  <1> DEFINE S == {k \in index .. l.phys_len : k = l.phys_len \/ l.dyn_list[k] = NULL}
  <1>1. S \in SUBSET Nat /\ m \in S
    OBVIOUS
  <1>2. \A x \in S : m <= x
    OBVIOUS
  <1> HIDE DEF S
  <1>3. Min(S) = m
    BY <1>1, <1>2, MinIs
  <1> QED
    BY <1>3 DEF FreeSlot, S

\* Place stores the item in slot m, the first free one from index on.
LEMMA PlaceIs ==
    ASSUME NEW V, NEW n \in Nat, NEW p \in Nat, NEW d \in [0 .. p - 1 -> V], NEW item \in V,
           NEW index \in Nat, NEW m \in index .. p - 1, d[m] = NULL,
           \A k \in index .. m - 1 : d[k] # NULL
    PROVE  Place([last_index |-> n, phys_len |-> p, dyn_list |-> d], item, index) =
               [last_index |-> IF m > n THEN m + 1 ELSE n, phys_len |-> p,
                dyn_list |-> [d EXCEPT ![m] = item]]
  <1> DEFINE l == [last_index |-> n, phys_len |-> p, dyn_list |-> d]
  <1>1. FreeSlot(l, index) = m
    BY FreeSlotIs
  <1>2. m < p
    OBVIOUS
  <1> QED
    BY <1>1, <1>2 DEF Place

\* The empty list satisfies the invariant.
LEMMA InitFileList == Init => FileListInv
  <1> SUFFICES ASSUME Init PROVE FileListInv
    OBVIOUS
  <1>1. file_list = [last_index |-> 0, phys_len |-> DocSize,
                     dyn_list |-> [k \in 0 .. DocSize - 1 |-> NULL]]
    BY DEF Init, create_list
  <1>2. pos = 0 /\ docId = 0 /\ docs = <<>> /\ Len(docs) = 0 /\ docs \in Seq(Nat \ {0})
    BY DEF Init
  <1>3. TypeOK
    BY <1>1, <1>2, DocSizeAssumption DEF TypeOK
  <1>4. \E p \in 1 .. file_list.phys_len : file_list.phys_len = 2 * p
    <2>1. DocSize \div 2 \in 1 .. DocSize /\ DocSize = 2 * (DocSize \div 2)
      BY DocSizeAssumption
    <2> QED
      BY <2>1, <1>1
  <1>5. LastIndexLags
    <2>1. file_list.last_index = 2 * 0 /\ docId \in {2 * 0, 2 * 0 + 1}
      BY <1>1, <1>2
    <2> QED
      BY <2>1 DEF LastIndexLags
  <1>6. SlotPerDocument
    BY <1>1, <1>2, DocSizeAssumption DEF SlotPerDocument
  <1> QED
    BY <1>2, <1>3, <1>4, <1>5, <1>6 DEF FileListInv

\* A regular file goes into the slot of its docId, resized list or not.
LEMMA AddFileInv ==
    ASSUME FileListInv, AddFile, pos' = pos + 1 PROVE FileListInv'
  <1> DEFINE n == file_list.last_index
             p == file_list.phys_len
             d == file_list.dyn_list
             V == (0 .. Batch - 1) \cup {NULL}
             item == BufferPlace(pos + 1)
  <1>1. /\ n \in Nat /\ p \in Nat /\ d \in [0 .. p - 1 -> V] /\ docId \in Nat /\ pos \in Nat
        /\ file_list = [last_index |-> n, phys_len |-> p, dyn_list |-> d]
    BY DEF FileListInv, TypeOK
  <1>2. item \in 0 .. Batch - 1 /\ item # NULL
    BY <1>1, BatchAssumption DEF BufferPlace
  <1>3. PICK h \in 1 .. p : p = 2 * h
    BY DEF FileListInv
  <1>4. PICK m \in 0 .. docId : n = 2 * m /\ docId \in {2 * m, 2 * m + 1}
    BY DEF FileListInv, LastIndexLags
  <1>5. /\ docs \in Seq(Nat \ {0}) /\ docId = Len(docs) /\ docId <= p
        /\ \A k \in 0 .. p - 1 : d[k] = IF k < docId THEN BufferPlace(docs[k + 1]) ELSE NULL
    BY DEF FileListInv, SlotPerDocument
  <1>6. \A k \in 0 .. docId - 1 : docs[k + 1] \in Nat \ {0} /\ BufferPlace(docs[k + 1]) # NULL
    <2> SUFFICES ASSUME NEW k \in 0 .. docId - 1
                 PROVE  docs[k + 1] \in Nat \ {0} /\ BufferPlace(docs[k + 1]) # NULL
      OBVIOUS
    <2>1. PICK v \in Nat \ {0} : v = docs[k + 1]
      <3>1. k + 1 \in 1 .. Len(docs)
        BY <1>1, <1>5
      <3> QED
        BY <1>5, <3>1, ElementOfSeq
    <2>2. BufferPlace(v) \in Nat
      BY BatchAssumption DEF BufferPlace
    <2>3. BufferPlace(v) # NULL
      BY <2>2, BatchAssumption
    <2> QED
      BY <2>1, <2>3
  <1> DEFINE L == IF Full(file_list) THEN resize(file_list) ELSE file_list
             q == L.phys_len
             e == L.dyn_list
  <1> HIDE DEF n, p, d, item, V
  <1>7. /\ q \in {p, 2 * p} /\ q \in Nat \ {0} /\ docId < q /\ e \in [0 .. q - 1 -> V]
        /\ L = [last_index |-> n, phys_len |-> q, dyn_list |-> e]
        /\ \A k \in 0 .. q - 1 : e[k] = IF k < docId THEN BufferPlace(docs[k + 1]) ELSE NULL
    <2>1. CASE Full(file_list)
      <3>1. n >= p
        BY <2>1 DEF Full, n, p
      <3>2. docId = p
        BY <3>1, <1>3, <1>4, <1>5
      <3>3. NULL \in V
        BY DEF V
      <3> DEFINE f == [k \in 0 .. 2 * p - 1 |-> IF k < p THEN d[k] ELSE NULL]
      <3>4. /\ resize(file_list) = [last_index |-> n, phys_len |-> 2 * p, dyn_list |-> f]
            /\ f \in [0 .. 2 * p - 1 -> V]
            /\ \A k \in 0 .. 2 * p - 1 : f[k] = IF k < p THEN d[k] ELSE NULL
        <4>1. resize(file_list) = [last_index |-> n, phys_len |-> 2 * p, dyn_list |-> f]
          BY DEF resize, n, p, d
        <4>2. \A k \in 0 .. 2 * p - 1 : (IF k < p THEN d[k] ELSE NULL) \in V
          BY <1>1, <3>3
        <4> QED
          BY <4>1, <4>2
      <3> HIDE DEF f
      <3>5. \A k \in 0 .. 2 * p - 1 : f[k] = IF k < docId THEN BufferPlace(docs[k + 1]) ELSE NULL
        <4> SUFFICES ASSUME NEW k \in 0 .. 2 * p - 1
                     PROVE  f[k] = IF k < docId THEN BufferPlace(docs[k + 1]) ELSE NULL
          OBVIOUS
        <4>1. CASE k < p
          <5>1. k \in 0 .. p - 1 /\ f[k] = d[k]
            BY <4>1, <3>4, <1>1
          <5> QED
            BY <5>1, <4>1, <3>2, <1>5
        <4>2. CASE ~(k < p)
          BY <4>2, <3>2, <3>4
        <4> QED
          BY <4>1, <4>2
      <3>6. 2 * p \in Nat \ {0} /\ docId < 2 * p
        BY <3>2, <1>3
      <3>7. L = resize(file_list) /\ q = 2 * p /\ e = f
        BY <2>1, <3>4
      <3> QED
        BY <3>4, <3>5, <3>6, <3>7
    <2>2. CASE ~Full(file_list)
      <3>1. n < p
        BY <2>2, <1>1 DEF Full, n, p
      <3>2. docId < p /\ p \in Nat \ {0}
        BY <3>1, <1>3, <1>4
      <3>3. L = file_list /\ q = p /\ e = d
        BY <2>2 DEF p, d
      <3> QED
        BY <3>2, <3>3, <1>1, <1>5
    <2> QED
      BY <2>1, <2>2
  <1> HIDE DEF L, q, e
  <1>8. n \in Nat /\ docId \in n .. q - 1 /\ e[docId] = NULL
    BY <1>1, <1>4, <1>7
  <1>9. \A k \in n .. docId - 1 : e[k] # NULL
    BY <1>1, <1>6, <1>7, <1>8
  <1>10. file_list' = [last_index |-> IF docId > n THEN docId + 1 ELSE n, phys_len |-> q,
                       dyn_list |-> [e EXCEPT ![docId] = item]]
    <2>1. item \in V
      BY <1>2 DEF V
    <2>2. Place([last_index |-> n, phys_len |-> q, dyn_list |-> e], item, n) =
            [last_index |-> IF docId > n THEN docId + 1 ELSE n, phys_len |-> q,
             dyn_list |-> [e EXCEPT ![docId] = item]]
      BY <2>1, <1>7, <1>8, <1>9, PlaceIs
    <2>3. file_list' = insert(file_list, item, n)
      BY DEF AddFile, item, n
    <2> QED
      BY <2>2, <2>3, <1>7 DEF insert, L
  <1>11. docId' = docId + 1 /\ docs' = Append(docs, pos + 1) /\ pos' = pos + 1
    BY DEF AddFile
  <1>12. /\ docs' \in Seq(Nat \ {0}) /\ Len(docs') = docId + 1
         /\ \A k \in 1 .. docId : docs'[k] = docs[k]
         /\ docs'[docId + 1] = pos + 1
    BY <1>1, <1>5, <1>11, AppendProperties
  <1>13. TypeOK'
    BY <1>1, <1>2, <1>7, <1>8, <1>10, <1>11 DEF TypeOK, V
  <1>14. (\E h2 \in 1 .. file_list.phys_len : file_list.phys_len = 2 * h2)'
    <2>1. file_list'.phys_len = q
      BY <1>10
    <2>2. q = 2 * h \/ q = 2 * p
      BY <1>3, <1>7
    <2>3. p \in 1 .. q /\ h \in 1 .. q
      BY <1>1, <1>3, <1>7
    <2> QED
      BY <2>1, <2>2, <2>3
  <1>15. LastIndexLags'
    <2>1. file_list'.last_index = IF docId > n THEN docId + 1 ELSE n
      BY <1>10
    <2>2. CASE docId = 2 * m
      <3>1. file_list'.last_index = 2 * m /\ docId' \in {2 * m, 2 * m + 1}
        BY <2>1, <2>2, <1>4, <1>11
      <3>2. m \in 0 .. docId'
        BY <2>2, <1>1, <1>4, <1>11
      <3> QED
        BY <3>1, <3>2 DEF LastIndexLags
    <2>3. CASE docId = 2 * m + 1
      <3>1. file_list'.last_index = 2 * (m + 1) /\ docId' \in {2 * (m + 1), 2 * (m + 1) + 1}
        BY <2>1, <2>3, <1>4, <1>11
      <3>2. m + 1 \in 0 .. docId'
        BY <2>3, <1>1, <1>4, <1>11
      <3> QED
        BY <3>1, <3>2 DEF LastIndexLags
    <2> QED
      BY <2>2, <2>3, <1>4
  <1>16. SlotPerDocument'
    <2>1. docId' = Len(docs') /\ docId' <= file_list'.phys_len
      BY <1>7, <1>8, <1>10, <1>11, <1>12
    <2>2. ASSUME NEW k \in 0 .. q - 1
          PROVE  [e EXCEPT ![docId] = item][k] =
                   IF k < docId + 1 THEN BufferPlace(docs'[k + 1]) ELSE NULL
      <3>1. CASE k = docId
        BY <3>1, <1>7, <1>12 DEF item
      <3>2. CASE k < docId
        BY <3>2, <1>1, <1>7, <1>12
      <3>3. CASE k > docId
        BY <3>3, <1>1, <1>7
      <3> QED
        BY <3>1, <3>2, <3>3, <1>1
    <2> QED
      BY <2>1, <2>2, <1>10, <1>11 DEF SlotPerDocument
  <1> QED
    BY <1>12, <1>13, <1>14, <1>15, <1>16 DEF FileListInv

\* Every entry of the directory, taken or not, keeps the invariant.
LEMMA NextFileList == FileListInv /\ [Next]_vars => FileListInv'
  <1> SUFFICES ASSUME FileListInv, [Next]_vars PROVE FileListInv'
    OBVIOUS
  <1>1. ASSUME Entry, AddFile PROVE FileListInv'
    BY <1>1, AddFileInv DEF Entry
  <1>2. ASSUME UNCHANGED <<file_list, docId, docs>>, pos' \in Nat PROVE FileListInv'
    <2>1. TypeOK'
      BY <1>2 DEF FileListInv, TypeOK
    <2>2. LastIndexLags'
      BY <1>2 DEF FileListInv, LastIndexLags
    <2>3. SlotPerDocument'
      BY <1>2 DEF FileListInv, SlotPerDocument, BufferPlace
    <2>4. (\E p \in 1 .. file_list.phys_len : file_list.phys_len = 2 * p)'
      BY <1>2 DEF FileListInv
    <2> QED
      BY <1>2, <2>1, <2>2, <2>3, <2>4 DEF FileListInv
  <1>3. pos \in Nat
    BY DEF FileListInv, TypeOK
  <1> QED
    BY <1>1, <1>2, <1>3 DEF Next, Entry, vars

\* The invariant of file_list holds for any directory and any even DOCSIZE.
THEOREM FileListCorrect == Spec => []FileListInv
  BY InitFileList, NextFileList, PTL DEF Spec

\* Counters, list and slots of read_dir keep their types.
THEOREM ReadDirTypes == Spec => []TypeOK
  <1>1. FileListInv => TypeOK
    BY DEF FileListInv
  <1> QED
    BY <1>1, FileListCorrect, PTL

(***************************************************************************)
(* read_dir stores the name of document k in slot k of file_list, for any  *)
(* directory, any even DOCSIZE and any number of resizes.                  *)
(***************************************************************************)
THEOREM SlotsCorrect == Spec => []SlotPerDocument
  <1>1. FileListInv => SlotPerDocument
    BY DEF FileListInv
  <1> QED
    BY <1>1, FileListCorrect, PTL

-----------------------------------------------------------------------------
\* Where read_dir is in the directory: documents are entries already read.
DirInv ==
    /\ \E n \in Nat : dir \in [1 .. n -> BOOLEAN]
    /\ pos \in 0 .. Len(dir)
    /\ docs \in Seq(1 .. pos)

\* Before the first readdir nothing is a document.
LEMMA InitDir == Init => DirInv
  <1> SUFFICES ASSUME Init PROVE DirInv
    OBVIOUS
  <1>1. PICK n \in 0 .. MaxDir : dir \in [1 .. n -> BOOLEAN]
    BY DEF Init
  <1>2. n \in Nat
    OBVIOUS
  <1>3. dir \in Seq(BOOLEAN) /\ Len(dir) \in Nat
    BY <1>1, <1>2
  <1>4. pos = 0 /\ docs = <<>>
    BY DEF Init
  <1> QED
    BY <1>1, <1>2, <1>3, <1>4 DEF DirInv

\* A document is the entry just read.
LEMMA NextDir == DirInv /\ [Next]_vars => DirInv'
  <1> SUFFICES ASSUME DirInv, [Next]_vars PROVE DirInv'
    OBVIOUS
  <1>0. Len(dir) \in Nat /\ pos \in 0 .. Len(dir) /\ docs \in Seq(1 .. pos)
    <2>1. PICK n \in Nat : dir \in [1 .. n -> BOOLEAN]
      BY DEF DirInv
    <2>2. dir \in Seq(BOOLEAN)
      BY <2>1
    <2> QED
      BY <2>2, LenProperties DEF DirInv
  <1>1. CASE Entry
    <2>1. UNCHANGED dir /\ pos' = pos + 1 /\ pos < Len(dir)
      BY <1>1 DEF Entry
    <2>2. pos' \in 0 .. Len(dir') /\ 1 .. pos \subseteq 1 .. pos' /\ pos + 1 \in 1 .. pos'
      BY <1>0, <2>1
    <2>3. docs \in Seq(1 .. pos')
      BY <1>0, <2>2, LenProperties, ElementOfSeq, IsASeq
    <2>4. docs' = docs \/ docs' = Append(docs, pos + 1)
      BY <1>1 DEF Entry, AddFile
    <2>5. docs' \in Seq(1 .. pos')
      <3> DEFINE S == 1 .. pos'
      <3> HIDE DEF S
      <3>1. docs \in Seq(S) /\ pos + 1 \in S
        BY <2>2, <2>3 DEF S
      <3>2. Append(docs, pos + 1) \in Seq(S)
        BY <3>1, AppendProperties
      <3> QED
        BY <3>1, <3>2, <2>4 DEF S
    <2> QED
      BY <2>1, <2>2, <2>5 DEF DirInv
  <1>2. CASE UNCHANGED vars
    BY <1>2 DEF vars, DirInv
  <1> QED
    BY <1>1, <1>2 DEF Next

(***************************************************************************)
(* For any directory, any DOCSIZE that is even and any buffer: a response  *)
(* names the right file for as long as the library has not read another    *)
(* entry into the place of its name.  The entries that share a place are   *)
(* Batch apart, so the next one to overwrite entry i is i + Batch.         *)
(***************************************************************************)
THEOREM NamesCorrect == Spec => []NamesUntilRefill
  <1>1. FileListInv /\ DirInv => NamesUntilRefill
    <2> SUFFICES ASSUME FileListInv, DirInv, NEW k \in 1 .. Len(docs), docs[k] + Batch \notin Loaded
                 PROVE  /\ k - 1 \in DOMAIN file_list.dyn_list
                        /\ NameAt(file_list.dyn_list[k - 1]) = docs[k]
      BY DEF NamesUntilRefill
    <2> DEFINE x == docs[k]
               d == file_list.dyn_list
    <2>0. /\ Len(docs) \in Nat /\ docId = Len(docs) /\ docId <= file_list.phys_len
          /\ file_list.phys_len \in Nat /\ DOMAIN d = 0 .. file_list.phys_len - 1
          /\ \A j \in 0 .. file_list.phys_len - 1 :
                d[j] = IF j < docId THEN BufferPlace(docs[j + 1]) ELSE NULL
      BY LenProperties DEF FileListInv, TypeOK, SlotPerDocument
    <2>1. k - 1 \in DOMAIN d /\ d[k - 1] = BufferPlace(x)
      BY <2>0
    <2>2. Len(dir) \in Nat /\ pos \in 0 .. Len(dir) /\ x \in 1 .. pos
      <3>1. PICK n \in Nat : dir \in [1 .. n -> BOOLEAN]
        BY DEF DirInv
      <3>2. dir \in Seq(BOOLEAN)
        BY <3>1
      <3> QED
        BY <3>2, LenProperties, ElementOfSeq DEF DirInv
    <2> HIDE DEF x, d
    <2> DEFINE S == {i \in Loaded : BufferPlace(i) = BufferPlace(x)}
    <2>3. S \in SUBSET Nat
      BY DEF Loaded
    <2>4. x \in S
      <3>1. (x - 1) \div Batch <= (pos - 1) \div Batch
        BY <2>2, BatchAssumption, DivMono
      <3> QED
        BY <3>1, <2>2 DEF Loaded
    <2>5. \A j \in S : j <= x
      <3> SUFFICES ASSUME NEW j \in S, x < j PROVE FALSE
        BY <2>2, <2>3
      <3>1. /\ j \in 1 .. Len(dir) /\ (j - 1) \div Batch <= (pos - 1) \div Batch
            /\ (j - 1) % Batch = (x - 1) % Batch
        BY DEF Loaded, BufferPlace
      <3>2. x - 1 \in Nat /\ j - 1 \in Nat /\ pos - 1 \in Nat /\ x - 1 < j - 1 /\ Batch \in Nat \ {0}
        BY <2>2, <3>1, BatchAssumption
      <3>3. (x - 1) + Batch <= j - 1
        BY <3>1, <3>2, SameRest
      <3>4. ((x + Batch) - 1) \div Batch <= (j - 1) \div Batch
        <4>1. (x + Batch) - 1 \in Nat /\ (x + Batch) - 1 <= j - 1
          BY <2>2, <3>2, <3>3
        <4> QED
          BY <4>1, <3>2, DivMono
      <3>5. x + Batch \in 1 .. Len(dir)
        BY <2>2, <3>1, <3>2, <3>3
      <3>6. ((x + Batch) - 1) \div Batch <= (pos - 1) \div Batch
        <4>1. ((x + Batch) - 1) \div Batch \in Int /\ (j - 1) \div Batch \in Int
              /\ (pos - 1) \div Batch \in Int
          BY <2>2, <3>1, <3>2
        <4> QED
          BY <4>1, <3>1, <3>4
      <3>7. x + Batch \in Loaded
        BY <3>5, <3>6 DEF Loaded
      <3> QED
        BY <3>7 DEF x
    <2> HIDE DEF S
    <2>6. Max(S) = x
      BY <2>3, <2>4, <2>5, MaxIs
    <2> QED
      BY <2>1, <2>6 DEF NameAt, S, x, d
  <1>2. Init => DirInv
    BY InitDir
  <1>3. DirInv /\ [Next]_vars => DirInv'
    BY NextDir
  <1> QED
    BY <1>1, <1>2, <1>3, FileListCorrect, PTL DEF Spec
=============================================================================
