------------------------------ MODULE SpanList ------------------------------
(***************************************************************************)
(* The doubly linked rings of spans of tc_malloc.h.  A ring is entered      *)
(* through a head pointer kept elsewhere (pgcache.list[i],                  *)
(* centralcache.list[i], centralcache.idle[i]).  The operators map a record *)
(* [head, next, prev] to the one after the call; next and prev are the      *)
(* fields of all spans.                                                     *)
(***************************************************************************)
EXTENDS Naturals, FiniteSets, Functions

CONSTANTS
    Spans,  \* the span structures
    NULL    \* the C null pointer

ASSUME NullAssumption == NULL \notin Spans

\* A span's fields when it is on no ring ("selfish node").
Selfish == [s \in Spans |-> s]

\* spanlist_push: s becomes the head.  A head without a predecessor is first
\* repaired into a ring of one.
spanlist_push(r, s) ==
    LET h == r.head
        alone == h = NULL
        p == IF alone THEN s ELSE IF r.prev[h] = NULL THEN h ELSE r.prev[h]
        n == IF alone THEN s ELSE h
    IN  [head |-> s,
         next |-> [r.next EXCEPT ![s] = n, ![p] = s],
         prev |-> [r.prev EXCEPT ![s] = p, ![n] = s]]

\* What spanlist_pop does to the links of a ring of two or more.
Unlink(r, s) ==
    [r EXCEPT !.next = [@ EXCEPT ![r.prev[s]] = r.next[s], ![s] = s],
              !.prev = [@ EXCEPT ![r.next[s]] = r.prev[s], ![s] = s]]

\* Mutant: spanlist_pop is always called with the head of the list, whose
\* successor it then overwrites.
RemoveThroughHead(r, s) ==
    IF r.next[s] = s THEN [r EXCEPT !.head = NULL]
    ELSE IF r.head = s THEN [Unlink(r, s) EXCEPT !.head = r.next[s]]
    ELSE LET u == Unlink(r, s)
         IN  IF r.head = NULL THEN u
             ELSE [u EXCEPT !.next = [@ EXCEPT ![r.head] = r.next[s], ![s] = s]]

\* remove_span: spanlist_pop with the given head if s is there, and otherwise
\* with the cell s->prev in the place of the head, so that the last span of a
\* ring that is not the head's loses its predecessor.
remove_span(r, s) ==
    LET single == r.next[s] = s
    IN  IF r.head = s
        THEN IF single THEN [r EXCEPT !.head = NULL]
                       ELSE [Unlink(r, s) EXCEPT !.head = r.next[s]]
        ELSE IF single THEN [r EXCEPT !.prev = [@ EXCEPT ![s] = NULL]]
                       ELSE Unlink(r, s)

\* The k-th span a loop over ->next meets from h on.
Walk(h, next) ==
    LET step[k \in 0 .. Cardinality(Spans)] ==
            IF k = 0 THEN h ELSE next[step[k - 1]]
    IN  step

\* The spans such a loop visits.
Ring(h, next) ==
    LET at == Walk(h, next)
    IN  IF h = NULL THEN {} ELSE {at[k] : k \in DOMAIN at}
=============================================================================
