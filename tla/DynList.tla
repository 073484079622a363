------------------------------ MODULE DynList ------------------------------
(***************************************************************************)
(* The growable array DynList_T of helper.c, used both as the hash table   *)
(* of the inverted index and as the list of file names, and the array of   *)
(* line numbers inside List_T.  A list is a record of its fields; dyn_list *)
(* maps 0 .. phys_len - 1 to items or NULL, list 0 .. list_len - 1 to      *)
(* numbers.                                                                *)
(*                                                                         *)
(* tc_calloc and tc_realloc are not in the repository.  Their callers rely *)
(* on new slots being NULL, and so does this module.                       *)
(***************************************************************************)
EXTENDS Naturals, FiniteSetsExt

CONSTANT NULL

create_list(init_size) ==
    [last_index |-> 0, phys_len |-> init_size,
     dyn_list |-> [k \in 0 .. init_size - 1 |-> NULL]]

\* Mutant of resize: the new length is not recorded.
ResizeKeepsLen(l) ==
    [l EXCEPT !.dyn_list = [k \in 0 .. 2 * l.phys_len - 1 |->
                              IF k < l.phys_len THEN l.dyn_list[k] ELSE NULL]]

\* resize(list, DYNLIST): twice as many slots, the old ones kept.
resize(l) ==
    [last_index |-> l.last_index,
     phys_len |-> 2 * l.phys_len,
     dyn_list |-> [k \in 0 .. 2 * l.phys_len - 1 |->
                     IF k < l.phys_len THEN l.dyn_list[k] ELSE NULL]]

\* The slot the loop of insert stops at: the first free one from index on, or
\* phys_len when there is none.
FreeSlot(l, index) ==
    Min({k \in index .. l.phys_len : k = l.phys_len \/ l.dyn_list[k] = NULL})

Full(l) == l.last_index >= l.phys_len

\* Store item from slot index on.  Past the last slot nothing is stored, but
\* last_index moves all the same.
Place(l, item, index) ==
    LET slot == FreeSlot(l, index)
    IN  [last_index |-> IF slot > l.last_index THEN slot + 1 ELSE l.last_index,
         phys_len |-> l.phys_len,
         dyn_list |-> IF slot < l.phys_len THEN [l.dyn_list EXCEPT ![slot] = item]
                      ELSE l.dyn_list]

\* Mutant of insert: the list is never resized.
InsertNoResize(l, item, index) == Place(l, item, index)

\* insert(list, item, 0, index, DYNLIST), for an index below phys_len.
insert(l, item, index) == Place(IF Full(l) THEN resize(l) ELSE l, item, index)

-----------------------------------------------------------------------------
\* create_link(val), with room for size numbers (LIST_SIZE).
create_link(val, size) ==
    [val |-> val, list |-> [k \in 0 .. size - 1 |-> NULL],
     list_len |-> size, last_index |-> 0]

\* resize(node, LINKLIST): LIST_SIZE more numbers, the old ones kept.
resize_link(n, size) ==
    [val |-> n.val,
     list |-> [k \in 0 .. n.list_len + size - 1 |-> IF k < n.list_len THEN n.list[k] ELSE NULL],
     list_len |-> n.list_len + size, last_index |-> n.last_index]

\* insert(node, NULL, val, node->last_index, LINKLIST).
insert_link_val(n, val, size) ==
    LET m == IF n.last_index >= n.list_len THEN resize_link(n, size) ELSE n
    IN  [val |-> m.val, list |-> [m.list EXCEPT ![m.last_index] = val],
         list_len |-> m.list_len, last_index |-> m.last_index + 1]
=============================================================================
