----------------------------- MODULE SizeClass -----------------------------
(***************************************************************************)
(* The size classes of tc_malloc.h, with the program's own numbers: which   *)
(* thread list serves a request (get_index) and how large its objects are   *)
(* (index_to_size).  ObjectCacheProofs has the theorems about them.         *)
(***************************************************************************)
EXTENDS Integers

THRESHALLOC == 32 * 1024
CLASSES == 159

get_index(n) ==
    IF n <= 64 THEN (n - 1) \div 8
    ELSE IF n <= 2048 THEN (n - 65) \div 64 + 8
    ELSE (n - 2049) \div 256 + 8 + 31

index_to_size(i) ==
    IF i <= 7 THEN (i + 1) * 8
    ELSE IF i <= 38 THEN (i + 1 - 8) * 64 + 64
    ELSE (i + 1 - 39) * 256 + 2048

\* The sizes that tc_malloc hands to allocate.  No caller asks for 0 bytes, for
\* which the unsigned size - 1 would wrap.
Sizes == 1 .. THRESHALLOC

\* The class of a request of n bytes is a list that exists, its objects are large
\* enough, and no smaller class has objects that are: at the borders of the three
\* groups get_index and index_to_size (tc_malloc.h:233-284) must agree exactly.
SmallestClass(n) ==
    LET i == get_index(n)
    IN  /\ i \in 0 .. CLASSES - 1
        /\ index_to_size(i) >= n
        /\ \A j \in 0 .. i - 1 : index_to_size(j) < n

\* tc_free finds the list of an object from objs_size, which the central cache has
\* from index_to_size (tc_malloc.c:501, 673): it must be the list of the request.
FreedWhereAllocated(n) == get_index(index_to_size(get_index(n))) = get_index(n)
=============================================================================
