------------------------------ MODULE ReadDir ------------------------------
(***************************************************************************)
(* read_dir of server.c and the use thread_job makes of its result: every  *)
(* regular file gets the next docId and its name goes into file_list with  *)
(* insert(file_list, entry->d_name, 0, file_list->last_index, DYNLIST);    *)
(* thread_job prints file_list->dyn_list[docId].                           *)
(*                                                                         *)
(* What is stored is the pointer entry->d_name.  It points into the buffer *)
(* of the DIR stream, which readdir of the C library fills with up to      *)
(* Batch entries at a time, so that it names the entry at that place of    *)
(* the buffer, whatever was read there last.                               *)
(***************************************************************************)
EXTENDS DynList, Sequences

CONSTANTS DocSize,  \* initial number of slots of file_list (DOCSIZE)
          Batch,    \* entries that fit into the buffer of a DIR stream
          MaxDir    \* bound on the length of a directory

ASSUME DocSizeAssumption == DocSize \in Nat \ {0} /\ DocSize % 2 = 0
ASSUME BatchAssumption == Batch \in Nat \ {0} /\ NULL \notin Nat

VARIABLES
    dir,        \* the directory: for each entry, whether read_dir takes it
    pos,        \* entries returned by readdir
    file_list,  \* the names: an item is a place in the buffer
    docId,      \* the next document number
    docs        \* history: docs[k + 1] is the entry that became document k

vars == <<dir, pos, file_list, docId, docs>>

Init ==
    /\ dir \in UNION {[1 .. n -> BOOLEAN] : n \in 0 .. MaxDir}
    /\ pos = 0
    /\ file_list = create_list(DocSize)
    /\ docId = 0
    /\ docs = <<>>

\* The place in the buffer of entry i.
BufferPlace(i) == (i - 1) % Batch

\* insert the name, then tokenizer(.., docId++).
AddFile ==
    /\ file_list' = insert(file_list, BufferPlace(pos + 1), file_list.last_index)
    /\ docId' = docId + 1
    /\ docs' = Append(docs, pos + 1)

\* One round of the loop over readdir.
Entry ==
    /\ pos < Len(dir)
    /\ pos' = pos + 1
    /\ IF dir[pos + 1] THEN AddFile ELSE UNCHANGED <<file_list, docId, docs>>
    /\ UNCHANGED dir

Next == Entry

Spec == Init /\ [][Next]_vars

-----------------------------------------------------------------------------
TypeOK ==
    /\ pos \in Nat /\ docId \in Nat
    /\ file_list = [last_index |-> file_list.last_index, phys_len |-> file_list.phys_len,
                    dyn_list |-> file_list.dyn_list]
    /\ file_list.phys_len \in Nat /\ file_list.last_index \in Nat
    /\ file_list.dyn_list \in [0 .. file_list.phys_len - 1 -> (0 .. Batch - 1) \cup {NULL}]

\* last_index is even; it is docId or, after an odd number of files, one less.
LastIndexLags ==
    \E m \in 0 .. docId : file_list.last_index = 2 * m /\ docId \in {2 * m, 2 * m + 1}

(***************************************************************************)
(* The name stored for document k is in slot k of file_list, although      *)
(* insert starts at last_index, which lags behind, and although the list   *)
(* is resized when last_index reaches its length.  It is what lets         *)
(* thread_job index file_list by docId.                                    *)
(***************************************************************************)
SlotPerDocument ==
    /\ docId = Len(docs) /\ docId <= file_list.phys_len
    /\ \A k \in 0 .. file_list.phys_len - 1 :
           file_list.dyn_list[k] = IF k < docId THEN BufferPlace(docs[k + 1]) ELSE NULL

\* The inductive invariant: the length of the list stays even, so a list that
\* insert does not resize has a free slot from last_index on.
FileListInv ==
    /\ TypeOK
    /\ \E p \in 1 .. file_list.phys_len : file_list.phys_len = 2 * p
    /\ LastIndexLags
    /\ docs \in Seq(Nat \ {0})
    /\ SlotPerDocument

\* Entries the library has read into the buffer so far.
Loaded == {i \in 1 .. Len(dir) : (i - 1) \div Batch <= (pos - 1) \div Batch}

\* The entry whose name is at place p of the buffer.
NameAt(p) == Max({i \in Loaded : BufferPlace(i) = p})

(***************************************************************************)
(* The name thread_job prints for a document (server.c:274) is that of its *)
(* file for as long as the library has not read another entry into its     *)
(* place: slot, pointer and buffer agree through all resizes, and in a     *)
(* directory that fits into one buffer all names are right.                *)
(***************************************************************************)
NamesUntilRefill ==
    \A k \in 1 .. Len(docs) :
        docs[k] + Batch \notin Loaded =>
            /\ k - 1 \in DOMAIN file_list.dyn_list
            /\ NameAt(file_list.dyn_list[k - 1]) = docs[k]

(***************************************************************************)
(* The name a response carries for a document is the name of that file.    *)
(* Violated by a directory that does not fit into one buffer.              *)
(***************************************************************************)
NamesIntact ==
    pos > 0 => \A k \in 1 .. Len(docs) : NameAt(file_list.dyn_list[k - 1]) = docs[k]
=============================================================================
