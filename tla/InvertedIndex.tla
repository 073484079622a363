--------------------------- MODULE InvertedIndex ---------------------------
(***************************************************************************)
(* parse and disperse_keys of server.c with lookup, insert_link and        *)
(* lookup_link of helper.c: the words of the documents go, one token at a  *)
(* time, into an open-addressing hash table of Word_T, each with a list of *)
(* documents and, per document, the growable array of its line numbers.    *)
(*                                                                         *)
(* A Word_T is named by its position in heap, in order of allocation: the  *)
(* same pointer may sit in two slots.                                      *)
(***************************************************************************)
EXTENDS DynList, Sequences

CONSTANTS Words,      \* the strings that occur in the documents
          TableSize,  \* initial number of slots (DYN_SIZE)
          LIST_SIZE,  \* numbers by which an array of lines grows
          Hashes,     \* values of hash_function
          MaxTokens,  \* bound on the tokens parsed
          MaxDocs,    \* bound on the documents
          MaxLines    \* bound on the lines of a document

ASSUME IndexAssumption ==
    /\ TableSize \in Nat \ {0} /\ LIST_SIZE \in Nat \ {0}
    /\ Hashes \subseteq Nat /\ NULL \notin Nat
    /\ MaxTokens \in Nat /\ MaxDocs \in Nat \ {0} /\ MaxLines \in Nat \ {0}

VARIABLES
    hash_function,    \* any function; it never changes
    Dynlist,          \* the hash table; an item is a position in heap
    heap,             \* the Word_T allocated: [str, hash, list]
    docId, line_num,  \* the place of the next token
    crashed,          \* lookup read past the table and the process died
    tokens,           \* number of tokens parsed
    seen              \* history: seen[w][d] are the lines of d on which w was parsed

vars == <<hash_function, Dynlist, heap, docId, line_num, crashed, tokens, seen>>

Docs == 0 .. MaxDocs - 1

Init ==
    /\ hash_function \in [Words -> Hashes]
    /\ Dynlist = create_list(TableSize)
    /\ heap = <<>>
    /\ docId = 0 /\ line_num = 1
    /\ crashed = FALSE
    /\ tokens = 0
    /\ seen = [w \in Words |-> [d \in Docs |-> <<>>]]

-----------------------------------------------------------------------------
Home(w) == hash_function[w] % Dynlist.phys_len

\* Mutant of Stop: lookup looks at the home slot only.
StopAtHome(w) == Home(w)

\* The slot where lookup stops: the word, an empty slot, or phys_len, which
\* is past the end of the table and is read all the same.
Stop(w) ==
    Min({k \in Home(w) .. Dynlist.phys_len :
            \/ k = Dynlist.phys_len
            \/ Dynlist.dyn_list[k] = NULL
            \/ heap[Dynlist.dyn_list[k]].str = w})

OutOfBounds(w) == Stop(w) = Dynlist.phys_len

\* lookup(dynlist, w, hash), when what it read past the table was NULL.
lookup(w) == IF OutOfBounds(w) THEN NULL ELSE Dynlist.dyn_list[Stop(w)]

\* lookup_link: the node of document d in list, 0 if there is none.
lookup_link(list, d) ==
    LET at == {k \in 1 .. Len(list) : list[k].val = d}
    IN  IF at = {} THEN 0 ELSE Min(at)

\* A line number goes to the end of a document's array.
insert_line(node) == insert_link_val(node, line_num, LIST_SIZE)

\* create_link and the insert of its first line number.
NewNode == insert_line(create_link(docId, LIST_SIZE))

insert_link(list, node) == <<node>> \o list

\* Mutant of AddPosting: the line goes to the newest document, whichever it is.
AddPostingToHead(list) ==
    IF list # <<>> THEN [list EXCEPT ![1] = insert_line(list[1])]
    ELSE insert_link(list, NewNode)

\* The line goes to the node of the document, or to a new node at the head.
AddPosting(list) ==
    LET k == lookup_link(list, docId)
    IN  IF k # 0 THEN [list EXCEPT ![k] = insert_line(list[k])]
        ELSE insert_link(list, NewNode)

\* create_word, with the list of its first occurrence.
create_word(w) ==
    [str |-> w, hash |-> hash_function[w],
     list |-> insert_link(<<>>, NewNode)]

\* A round of the loop of disperse_keys on table m; l is the table on entry, with
\* whose last_index the slot is compared.  The old slot keeps the word too.
disperse_key(l, m, index, words) ==
    LET word == m.dyn_list[index]
        slot == FreeSlot(m, words[word].hash % l.phys_len)
    IN  IF word # NULL /\ words[word].hash >= l.phys_len \div 2 /\ slot < l.phys_len
        THEN [last_index |-> IF slot > l.last_index THEN slot + 1 ELSE l.last_index,
              phys_len |-> l.phys_len,
              dyn_list |-> [m.dyn_list EXCEPT ![slot] = word]]
        ELSE m

\* The loop over the upper half of a table just doubled: a word there with a
\* large enough hash is also stored from its new home on.
disperse_keys(l, words) ==
    LET done[k \in l.phys_len \div 2 .. l.phys_len] ==
            IF k = l.phys_len \div 2 THEN l ELSE disperse_key(l, done[k - 1], k - 1, words)
    IN  done[l.phys_len]

\* Mutant of NewWord: the slot number is kept as the hash of the word.
NewWordKeepsSlot(w) ==
    LET inserted == insert(Dynlist, Len(heap) + 1, Home(w))
    IN  /\ heap' = Append(heap, [create_word(w) EXCEPT !.hash = Home(w)])
        /\ Dynlist' = IF Full(Dynlist) THEN disperse_keys(inserted, heap') ELSE inserted

\* A word not found becomes a new Word_T; insert gets the slot computed with
\* the length the table had before it is resized.
NewWord(w) ==
    LET inserted == insert(Dynlist, Len(heap) + 1, Home(w))
    IN  /\ heap' = Append(heap, create_word(w))
        /\ Dynlist' = IF Full(Dynlist) THEN disperse_keys(inserted, heap') ELSE inserted

\* A word found gets the line.
OldWord(item) ==
    /\ heap' = [heap EXCEPT ![item] = [heap[item] EXCEPT !.list = AddPosting(heap[item].list)]]
    /\ UNCHANGED Dynlist

\* The body of parse's loop for token w.
Token(w) ==
    /\ ~crashed /\ tokens < MaxTokens
    /\ IF lookup(w) # NULL THEN OldWord(lookup(w)) ELSE NewWord(w)
    /\ tokens' = tokens + 1
    /\ seen' = [seen EXCEPT ![w] = [seen[w] EXCEPT ![docId] = Append(seen[w][docId], line_num)]]
    /\ UNCHANGED <<hash_function, docId, line_num, crashed>>

\* What lookup read past the table was not NULL and no Word_T.
TokenCrashes(w) ==
    /\ ~crashed /\ tokens < MaxTokens /\ OutOfBounds(w)
    /\ crashed' = TRUE
    /\ UNCHANGED <<hash_function, Dynlist, heap, docId, line_num, tokens, seen>>

\* The same in a search, in the index of any documents, these ones included.
SearchCrashes(w) ==
    /\ ~crashed /\ OutOfBounds(w)
    /\ crashed' = TRUE
    /\ UNCHANGED <<hash_function, Dynlist, heap, docId, line_num, tokens, seen>>

\* tokenizer reads the next line.
NextLine ==
    /\ ~crashed /\ line_num < MaxLines
    /\ line_num' = line_num + 1
    /\ UNCHANGED <<hash_function, Dynlist, heap, docId, crashed, tokens, seen>>

\* read_dir goes to the next document.
NextDoc ==
    /\ ~crashed /\ docId + 1 < MaxDocs
    /\ docId' = docId + 1 /\ line_num' = 1
    /\ UNCHANGED <<hash_function, Dynlist, heap, crashed, tokens, seen>>

Next ==
    \/ \E w \in Words : Token(w) \/ TokenCrashes(w) \/ SearchCrashes(w)
    \/ NextLine
    \/ NextDoc

Spec == Init /\ [][Next]_vars

-----------------------------------------------------------------------------
TypeOK ==
    /\ hash_function \in [Words -> Hashes]
    /\ Dynlist.phys_len \in Nat /\ Dynlist.last_index \in Nat
    /\ Dynlist.dyn_list \in [0 .. Dynlist.phys_len - 1 -> (1 .. Len(heap)) \cup {NULL}]
    /\ \A k \in 1 .. Len(heap) : heap[k].str \in Words /\ heap[k].hash = hash_function[heap[k].str]
    /\ docId \in Docs /\ line_num \in 1 .. MaxLines
    /\ crashed \in BOOLEAN /\ tokens \in 0 .. MaxTokens
    /\ seen \in [Words -> [Docs -> Seq(1 .. MaxLines)]]

\* What thread_job prints for query w: per document, newest first, the first
\* last_index numbers of its array.  Where the search reads past the table, this is
\* the answer if NULL is what it reads; SearchCrashes is the other case.
Answer(w) ==
    LET docs == IF lookup(w) = NULL THEN <<>> ELSE heap[lookup(w)].list
    IN  [k \in 1 .. Len(docs) |->
            [val |-> docs[k].val,
             list |-> [i \in 1 .. docs[k].last_index |-> docs[k].list[i - 1]]]]

\* list holds every document with an occurrence of w, newest first, complete.
ExactFor(list, w) ==
    /\ {list[k].val : k \in 1 .. Len(list)} = {d \in Docs : seen[w][d] # <<>>}
    /\ \A k \in 1 .. Len(list) :
           /\ list[k].list = seen[w][list[k].val]
           /\ k > 1 => list[k].val < list[k - 1].val

(***************************************************************************)
(* While the table has its first size and no probe has run off its end     *)
(* (last_index shows it), a search for any word, also one that collides    *)
(* with others, returns all of its occurrences and nothing else.           *)
(***************************************************************************)
ExactUntilGrowth ==
    (Dynlist.phys_len = TableSize /\ Dynlist.last_index <= TableSize) =>
        \A w \in Words : ExactFor(Answer(w), w)

(***************************************************************************)
(* Whatever happens to the table, an answer is never wrong: it lists       *)
(* documents newest first, and per document a subsequence of the lines on  *)
(* which the word really occurs.                                           *)
(***************************************************************************)
AnswersSound ==
    \A w \in Words : \A k \in 1 .. Len(Answer(w)) :
        LET node == Answer(w)[k]
            all == seen[w][node.val]
        IN  /\ k > 1 => node.val < Answer(w)[k - 1].val
            /\ node.list # <<>>
            /\ \E from \in 1 .. Len(all) : \E to \in from .. Len(all) :
                   node.list = SubSeq(all, from, to)

(***************************************************************************)
(* A search for a word returns every document and line it occurs on, as    *)
(* the README promises.  Violated: a table that has grown loses words.     *)
(***************************************************************************)
IndexComplete == ~crashed => \A w \in Words : ExactFor(Answer(w), w)
=============================================================================
