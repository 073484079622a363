# Verification of SearchEngine in TLA+

SearchEngine is a C program: a server that indexes the words of the files of a
directory and answers search requests over TCP, two client programs, and a
memory allocator of its own (`tc_malloc`). This directory holds TLA+ models of
its parts, TLC configurations that check them on small instances, and TLAPS
proofs for instances of any size.

Run a check with `tlc -config <file>.cfg <module>` and a proof with `tlapm
<module>.tla`; `PROJECT.json` lists the runs, their properties, the lines of
source each definition stands for, and a mutant per property.

## The system

| part | source | state | operations |
|---|---|---|---|
| event loop | `server.c` main | `currentfds`, `readyfds`, `maxfd`, the open descriptors | select, scan, accept until EWOULDBLOCK or EMFILE, dispatch a job and FD_CLR |
| request handler | `server.c` thread_job, create_pckt, `common.h` | packet buffer, descriptor, the bytes in transit | receive header and word, look up, send header and payload or error, close |
| thread pool | `thread_pool.c` | linked list `Job_queue`, mutex, condition variable, one local `job` per worker | init_pool, add_job_to_pool, activate_workers |
| clients | `client1.c`, `client2.c` | one connection per request, a buffer for the reply that is never cleared | connect, send, receive, close |
| growable lists | `helper.c` | `last_index`, `phys_len`, `dyn_list`; per document `list`, `list_len`, `last_index` | create_list, create_link, insert, resize |
| inverted index | `server.c` parse, disperse_keys; `helper.c` lookup, link lists | hash table of words, per word a list of documents, per document a list of lines | token, resize and disperse, search |
| bootstrapping | `server.c` read_dir, tokenizer | `file_list`, `docId`, the directory stream | next entry, insert name |
| tokenizer | `server.c` tokenizer, parse; `helper.c` StrStrip, StrTok, StrSplit, StrGetLength, StrCopy | the file, the piece in the buffer, a position in it, the line number | open, read a piece, next word, copy it, close |
| allocator: caches | `tc_malloc.c` | per thread and class a list of objects, `objlen`, `max_length`; per class two rings of spans, `list` and `idle`; the fields of a span; `centralcache_lock` | tc_thread_init, small tc_malloc and tc_free, fetch_objs, return_objs_to_centralcache |
| allocator: page heap | `tc_malloc.c` | free spans by number of pages, the page map, the chunk of span structures, the break; `pageheap_lock` | fetch_span, split, fetch from the system, return (merging is commented out) |
| allocator: size classes | `tc_malloc.h` | none | get_index, index_to_size |

How they interact: main bootstraps (read_dir calls the tokenizer, which fills
the index) before it opens the pool; after that the index is only read. main
hands a descriptor to the pool by add_job_to_pool, a worker runs thread_job on
it, and the two share the process's descriptor table and nothing else: main
opens descriptors (accept), workers close them. Clients and server share the
connections. All of them allocate with tc_malloc: each thread from lists of its
own, which trade batches of objects with the central cache under
`centralcache_lock`, which trades spans with the page heap under
`pageheap_lock`.

What is hard: the interleavings of main and the workers around the condition
variable and around descriptor numbers that are reused; clients that stop or
disappear in mid-request; messages that arrive in pieces, or not, in buffers
that hold bytes of earlier ones; the pool and the descriptor table at their
limits; the arithmetic of `last_index`, `phys_len` and hash values when a list
grows; the bounds of the tokenizer; the allocator's counts and rings, whose
redundant fields (`obj_len`, `loc`) drift from what they describe.
`PROJECT.json` lists these hazards at their lines.

## Modules

`JobPool` is the abstract pool: a FIFO of pending jobs and workers that run one
job at a time. `ThreadPool` is `thread_pool.c`: each action is what one thread
does between two points where another can see it (lock, test of size, the atomic
release-and-sleep of pthread_cond_wait, wake-up, dequeue, unlock, call of
exec_func, return). A job and its node share a name, since each add_job_to_pool
allocates one node and nothing frees it; `next` is the field of the nodes. The
history variables `log`, `taken` and `runs` record what was enqueued, dequeued
and run and influence nothing. `tc_thread_init` returns the address of a
thread-local array, so the worker's early return on NULL cannot be taken and has
no action. POSIX allows pthread_cond_wait to return without a signal:
`SpuriousWakeup`. A job may never come back from exec_func; that it may end the
process (SIGPIPE) is left to `Server`. `Pool` in `ThreadPool` is the refinement mapping: pending jobs
are the part of `log` not taken, and a worker runs `job` from dequeue_job to the
return of exec_func.

`Server` composes `JobPool` with the event loop, thread_job and the clients.
Descriptors are integers and accept hands out the lowest free one, as the kernel
does. `todo` is what the for loop over `0 .. maxfd` has still to visit of
`readyfds`; `desc_ready` is its size. `Scan` dispatches a descriptor with
`Pool!Submit` and `Clear` is the FD_CLR after it, so that the window between
them is open. A request is two parts, header and word; a reply is a header and,
for a RESPONSE, the lines, named by the word they belong to. `Abort` kills a
client, whose end is closed by its kernel; `Sigpipe` is what a second write to
it can do. close and the return to the pool are one action: nothing between them
is visible to another thread. Memory exhaustion at lines 409 and 411 of
server.c, FD_SETSIZE and the 1024 connections of the backlog are not modelled.

`Exchange` is one connection after another between one client and one worker,
byte by byte. It is what `Server` abstracts from: there a message is two parts,
here read and write move any number of bytes through socket buffers of
`SockBuf`; a header is the bytes that create_pckt makes of two numbers on a host
of either byte order (a number has FIELD = 2 bytes of BASE = 5 values); a reply
is built in a packet of DYN_SIZE bytes and received into the client's `buf`,
which is a memory that keeps what was there before. Neither side looks at how
much recv_from_host has read before it tests msg_type, so `CheckHeader` and
`CheckRequest` test what is in the buffer: bytes of the reply before, the word
typed last, or what the allocator left in a new block (`Residue`: a free-list
link, an address, whose high bytes are no message type). A write outside of a
buffer ends what the model knows: the side is "corrupt". There is one fault in a
behaviour: the client is killed, the server is killed, or the connection is
reset. The first write after a reset returns -1 without a signal, which nobody
looks at (`ClientWriteFails`, `ServerWriteFails`); a second one, or one to an end
that was closed before, raises SIGPIPE. The message types are 1, 2 and 3 for 0x10, 0x11 and 0x20: what matters is
that they fit into the lowest byte, with NULs above it that text cannot have.
ERROR is the code of a space, so that text may complete a header that breaks off
before its last byte; `NotFoundIsAbsent` names that case.

`DynList` holds the operators of the growable lists: `insert` resizes when
`last_index` has reached `phys_len`, puts the item into the first free slot from
an index on, and moves `last_index` only if that slot is beyond it;
`insert_link_val` appends a line number to the array of a document, which grows
by LIST_SIZE. tc_calloc and tc_realloc are called but neither declared nor defined
in the repository; their callers need new slots to be NULL, which is assumed here.

`InvertedIndex` is the loop body of parse on that list. Words in the table are
pointers into `heap`, because disperse_keys can leave one pointer in two slots.
The hash function is any function into `Hashes`, chosen in the initial state.
`disperse_key` is a round of the loop of disperse_keys, which is a recursive
function over the indices. The history variable `seen` records for each word and
document the lines on which the word was parsed, and `tokens` counts for the
bound on the tokens; neither influences anything.
lookup reads `dyn_list[phys_len]` when a chain reaches the end of the table;
what is there is not ours to know, so either it is NULL (not found) or the
process dies (`TokenCrashes` while parsing, `SearchCrashes` in a search).

`ReadDir` is read_dir on the same list. What it stores is a pointer into the
buffer of the directory stream; `NameAt` says which entry such a pointer names
after the C library has refilled the buffer.

`Tokenizer` is the cutting of one string by parse. Only whether a character is a
letter matters, so a string is a sequence of Booleans and a word a pair of
positions. `Document` extends it to tokenizer: the file is opened, fgets reads a
piece (up to a newline, DYN_SIZE - 1 characters or the end of the file), parse
is called on it with the next line number, and each word is handed to the index
with a copy whose block StrGetLength measures and StrCopy fills. The index
itself is `InvertedIndex`; the copy is made for every word here, and only for
new ones in the program.

`SpanList` holds the ring operations of tc_malloc.h on the `next` and `prev`
fields, remove_span's use of `&span->prev` as a head included. spanlist_pop's
tests for a NULL neighbour on a ring of two or more are left out; `RingsSound`
shows that there is none.

`ObjectCache` is the thread caches and the central cache. An object is its span
and a number. `central` is centralcache_lock; a thread holds it from
`SearchList` to `FetchObjs` and from `ReturnObjs` to `GiveBackSpan`, so that
others run while it waits for the page heap. pageheap_lock is taken and given
back within one step. tc_free's look at `objs_size` is made without a lock, as
in the code. Any thread may free any block. `Local` is what a thread knows of the
call it is in; `ReturnAll` is the loop over a returned batch, one `ReturnObj` per
round, with spans that may differ from round to round. `Cut` is what a span is
divided into now and `Places` where a block can be, from its span's free list to
a thread's hand on the way to the page heap. Large blocks are as large as the
central cache's spans, which makes them share a free list. `BlockStore` is what
the program relies on, a set of blocks in use that never overlap and the number
of calls that have returned; `ImplementsBlockStore` maps `held` and `ops` to it.
A call that waits for the central cache has not returned yet.

`PageHeap` is fetch_span and return_span_to_pgcache on pages and span
structures, the chunks they are taken from included, for requests in bytes that
bytes_to_pages rounds down. `AlienSbrk` is the C library moving the break. It
shows what `ObjectCache` takes for granted: that the page map names the span of
a live block. The loop at tc_malloc.c:200-218 is left out, as it is reached only
with an empty list; so is the mark `isolated`, which nothing reads.

`SizeClass` is get_index and index_to_size with the program's numbers.

`MCServer`, `MCExchange`, `MCObjectCache` and `MCInvertedIndex` give TLC the
symmetry sets and the constants that are functions. `ThreadPoolProofs`,
`ServerProofs`, `ReadDirProofs`, `DocumentProofs`, `InvertedIndexProofs`,
`ObjectCacheProofs` and `PageHeapProofs` hold the theorems (those about `SizeClass`
are in `ObjectCacheProofs`), `NatLemmas` what they share: the least element of a
set of numbers, induction as a set of numbers, `Min` and `Max`, and a little
arithmetic.

## Runs

| run | question | bounds | result |
|---|---|---|---|
| pool | Is the list always the queue of pending jobs, does each job run at most once, does one signal per job suffice, does the pool implement `JobPool`, is every enqueued job run while not all workers are held for ever? | 2 workers, 4 jobs, one meeting a failing allocation | holds |
| server_safety | Has every open descriptor one owner, is select called with valid descriptors, does a client only read its own reply? | 2 workers, 2 descriptors, 3 clients, 1 may be killed | holds |
| server_live | Is every complete request answered while fewer clients stall than there are workers? | 2 workers, 2 descriptors, 2 clients with 2 requests, 1 may stall | holds |
| server_client_gone | Is it still so when a client may be killed? | as above, 1 request, 1 killed | violated, server.c:285 |
| index_safety | Are searches exact until the table grows, and never wrong afterwards? | 3 words, 3 slots, hashes 0..5, 5 tokens, 2 documents of 2 lines, line arrays growing by 2 | holds |
| index_growth | Are searches complete? | same | violated, server.c:63 |
| readdir_safety | Is the name of document k in slot k, and right until the stream's buffer is refilled? | all directories of up to 10 entries, a buffer of 4, initial length 2 | holds |
| document | Are short lines indexed exactly, is only the last word of a long piece wrong, how far do line numbers drift, do copies fit, does reading end? | all texts of up to 8 letters, delimiters and newlines, buffer of 6, MAX_WORD_LEN 4 | holds |
| exchange | Does the client get exactly the reply to its word however bytes are cut, what do stale bytes and faults do, which buffers can overflow, does it end? | both clients, both byte orders, 2 requests, socket buffers of 3 bytes, 5 words, one fault | holds |
| cache_safety | Is each object in one place, are the counts and rings right, are the thread caches bounded, is nobody stuck, is it an allocator (`BlockStore`)? | 2 threads, 2 classes of 2 objects and of 1 per span, large blocks, 5 allocations, 7 spans | holds |
| cache_leak | Is every span with free objects where get_span_central looks for it? | 1 class, 6 allocations | violated, tc_malloc.c:443 |
| heap_safety | Has every page one owner, does the map name it, how much less than asked for can a block with a list of its own hold? | 12 pages of 2 bytes, 8 span structures in chunks of 4, requests of 3 to 11 bytes, 3 lists | holds |

Why the bounds are enough. With two workers and three jobs that are enqueued, both
workers can be held while the third job waits, and one can be held for ever while
the other serves the rest, or sleeps when it is signalled, or wakes too early; the
queue fills and drains, with the stale `tail` and the stale local `job` in play,
and a fourth job meets the failing allocation while others wait. What takes three
workers (one asleep, one woken, one busy) is covered by the theorems below, for any
number of workers and jobs; only `EveryJobRuns` is not among them. Two descriptors for three connections force reuse and EMFILE. A table of three slots
is the smallest in which a word can land on the last slot, run off the end and
meet a resize, and hash values up to twice the length make homes move when it
doubles. A file list that starts at two is resized at two, four and eight names,
and a word that occurs five times makes its line array grow twice. In the
tokenizer all that matters is whether a position is before or after the middle
of the buffer and where a piece ends; eight characters are a line that does not
fit into the buffer of six, with one before or after it. In an exchange headers
of four bytes and texts of up to six do not fit into socket buffers of three, so
that each side is stopped by the other inside of a field; the texts have the
lengths around BUFSIZE and DYN_SIZE; two requests leave the reply to the first
in the buffer. Two objects per span and fetches of up to two let a thread empty
a span at once, which is what puts it into the idle list; one class doubles its
limit and the other adds one; with five allocations a span with a stale `loc` is
at the head of a list of several, and a span of one class is returned and carved
for the other. With one large block at a time the seven spans are never used up.
The program's spans of 32 KB objects hold 16 and a fetch takes up to 32, so this
happens there too. Twelve pages see two fetches from the system, a second chunk
of structures and requests beyond the last list. Deadlock checking is off where
the model has a proper end: clients that are done, documents that are parsed, a
process that has exited, a bound on pages that is reached.

Fairness. In `ThreadPool` every step of a thread inside of the pool's own code is
weakly fair if it can be taken; acquiring the mutex is strongly fair, since a mutex
that is released again and again is eventually granted to a waiter;
add_job_to_pool goes on whether or not its allocation fails. Nothing is assumed of
the return of exec_func, since thread_job waits for its client without a timeout
(common.h:149), of spurious wake-ups or of the arrival of jobs. `Document` is one thread, which keeps running. In `Exchange` the client
and the worker are each weakly fair, faults are not. In `Server` main, each
worker and each client that is not in `Stalled` is weakly fair; being killed is
not.

## Proofs

`ThreadPoolProofs`, from the assumptions that the set of workers is finite and
not empty and that thread and job names differ from NULL:

- `PoolCorrect`: `Spec => []PoolInv`. `QueueShape` and `RunsOnce` are not
  inductive by themselves. `PoolInv` adds who holds the mutex (`LockOwnership`),
  that jobs not enqueued yet have no successor and were not run and that the
  log has no repetition (`FreshJobs`), and that a worker past dequeue_job holds
  a job of the dequeued part of the log, not run until the call (`HeldJobs`).
  There is a lemma for each step that touches the queue or a job and one for
  those that only touch the lock.
- `PoolTypes`, `QueueIsJobs`, `JobsRunOnce`: the type invariant, `QueueShape` and
  `RunsOnce` follow.
- `NoLostWakeup`: `Spec => []NoIdleSleeper`. The number of workers that will
  test the queue before they sleep, plus one while a signal is due, is compared
  with the number of jobs: enqueuing adds one to both sides, the signal turns
  the pending one into a contender, dequeuing takes one from both, and a worker
  only goes to sleep when there is no job.
- `PoolRefines`: `Spec => ImplementsJobPool`, step by step along the mapping.

`ServerProofs`, for any number of workers, descriptors, clients, requests and
stalling or disappearing clients, from `ServerAssumption` (a client makes at
least one request, names differ from NULL). `ServerCorrect`: `Spec =>
[]ServerInv`. What a client reads depends on everything before it, so the
invariant follows a connection through the whole system:

- `Ownership` is `OneOwner` without counting: no descriptor twice among the
  pending jobs and the workers, none of these watched by main, and a descriptor
  is open exactly if it is watched or in the pool. It has to speak of the window
  between dispatch and FD_CLR, where the descriptor is in `currentfds` and in the
  pool; `Watched` leaves it out.
- `MainInv`: the scan visits descriptors of `currentfds` only. Without it, `Clear`
  could remove one that a worker has closed and accept has opened again.
- `WorkerInv` and `ConnInv`: a worker that is not idle has an open descriptor; a
  connection waits in one place of the backlog, or is open on one descriptor, or
  is shut, and it has begun.
- `ClientInv`: what the position of a client says about the bytes it has sent.
- `ReplyInv`: what the position of a worker says about the bytes it has written,
  that a shut connection carries the whole reply owed to it and that bytes on an
  open one come from a worker that has it now. This is what makes a reused
  descriptor harmless.

`ServerTypes`, `SelectNeverFails` (`SelectSetValid`), `OneOwnerAlways` and
`OwnReplyAlways` follow from it. `Ownership` and `MainInv` are claimed only while
the server is alive: `Sigpipe` ends it anywhere.

`ReadDirProofs`, from an even `DOCSIZE`. `FileListCorrect` is the invariant
`FileListInv`: the length stays even and `last_index` is even and equal to the
number of files or one less; hence a list that insert does not resize has a free
slot from `last_index` on, and that slot is docId (`SlotsCorrect`). With an odd
`DOCSIZE` the property is false, which is why the assumption is there.
`NamesCorrect` is `NamesUntilRefill`; it also needs that documents are entries
that have been read, in increasing order (`DirInv`). `ReadDirTypes` is `TypeOK`.

`DocumentProofs`, for texts of any length, any size of the buffer above 1 and any
MAX_WORD_LEN. `DocumentCorrect` is `Spec => []DocInv`; its parts:

- `PieceInv`: buf holds the characters of the file before pos, a newline only as the
  last one, and a piece ends with a line, with the buffer or with the file.
- `ParseInv`: the words before the last are words of the string and none between
  them is missing. While parse goes on this is so of the last word too,
  and the character before index is no letter. `OnlyLastWrong` alone is not
  inductive: it says nothing of words between the last one and index. A round
  is described once, without the bounds of the helpers (`Found`, `WordIs`): where
  parse stops because of them is the only place where a word can be cut.
- `NumberInv`: line_num is the number of pieces that begin up to the one in buf, and
  the next one begins at a column that is a multiple of DYN_SIZE - 1. That no piece
  begins inside another (`NoStart`) and the next one is one more (`NextStart`) is
  arithmetic with remainders.
- `CopyInv`: a copy that did not fit was one of a part of a long word of the text
  (`Covered`, `LongCopy`).
- `ShortInv`, while every line is at most half as long as the buffer: a piece is a
  line (`ReadShort`), and what was handed to the index are the words of the text
  before the place reached, in order (`TakenTrue`, `TakenOnly`, `NoneSeen`). That a
  short line fits is not enough for this: the bounds bite from the middle of the
  buffer on, which is where `Found` uses `2 * End <= max_len`.

`DocumentTypes` (`TypeOK`), `WordsRight` (`OnlyLastWrong`), `NumbersRight`
(`LineNumbers`), `CopiesAlwaysFit` (`CopiesFit`) and `ShortLinesRight`
(`ShortLinesExact`, with a bijection for the number of tokens) follow.

`InvertedIndexProofs`, for any set of words, table size, growth of the line
arrays, hash function, number of documents, lines and tokens. `IndexCorrect` is
`Spec => []IndexInv`, which has three parts:

- The table (`TableOK`). `Chained` is linear probing: between the home of a word
  and its slot no slot is free. A resize breaks the usual form of it, as the home
  of a word may move beyond its slot; `Chained` says nothing of such a slot, which
  lookup never looks at. `FindsLatest`: a slot that lookup can reach holds the
  last Word_T allocated for its string. This is what a word lost and stored again
  relies on, and it holds because insert with the slot computed for the old length
  only uses slots that were free (`WithNew`, `OneMore`).
- The lists (`PostingsOK`). Each node holds a run of the lines parsed (`EndsAt`),
  newest document first; the nodes of the latest Word_T of a string end with the
  last line parsed (`UpToDate`), so that the next line continues the run.
- While the table is small (`Small`: first size, `last_index` not beyond it),
  `AllExact`: one Word_T per word, in a slot where lookup finds it, with all its
  lines. insert signals by `last_index` that a word found no slot, and a resize
  changes `phys_len`; both end the claim, and that they are the only ways to lose
  a word is what `Inserted` proves.

The loop of disperse_keys is a recursive function; that it exists (`RoundsExist`)
and what its rounds keep (`Dispersed`) is shown by induction with
`NatSetInduction`. `IndexTypes` (`TypeOK`), `ExactSearches` (`ExactUntilGrowth`)
and `AnswersNeverWrong` (`AnswersSound`) follow.

`ObjectCacheProofs`, for any finite number of threads and spans, any number of
classes and of objects per span, any MAXFETCHSIZE and any set of classes that
double, from `CacheAssumption`. `CacheCorrect` is `Spec => []IInv`; the parts of
`IInv` and what they are for:

- `LockInv`: who holds centralcache_lock. No step but the holder's can disturb the
  span in its hand, which is how `SpanInv` survives the other threads: the span a
  thread is about to take from has a free object and is of its class.
- `ThreadInv`: a list that is fetched for is empty and has room for what was
  asked. Without it `CacheBounded` is not inductive: deallocate tests with `==`,
  and a fetch that overshot max_length would never be flushed again.
- `CountInv`: free and referenced objects of a span add up to what it was cut
  into, and obj_len is at least that. obj_len itself is not known, as every return
  adds to it; that it is large enough makes fetch_objs take at least one object,
  and that the sum is exact makes a count of 0 mean that nothing is out.
- `PlaceInv`: `OneHolder` without counting, each block in exactly one place. It
  is what shows that a span whose count is 0 has no object in any cache or batch,
  so that it can be carved for another class.
- `RingInv`: there is a set `L` of spans such that next and prev are inverse and a
  ring has only spans of one class that are all in `L` or all not (`Colour`). The
  heads of the lists are in `L` and those of idle are not. A span that no head
  leads to any more, as the stale loc can leave behind, has a side too: this is
  what makes the claim inductive where a statement about reachable spans is not.
  `RemoveRing` and `PushRing` say what remove_span and spanlist_push do to rings
  of one colour each, also when the span is not on the ring of the head.

The loop over a batch is shown by induction over its rounds (`ReturnAllIs`): after
k rounds each span has got back those of the first k objects that are its own.
`CacheTypes`, `CachesBounded`, `BlocksOnce` (`OneHolder`), `RefcountsExact` and
`RingsAlwaysSound` (`RingsSound`, where that the ring of a head has one colour is
an induction along `Walk`) follow. `CacheRefines` is `Spec =>
ImplementsBlockStore`: blocks in use do not overlap (`Apart`, from `PlaceInv`: two
blocks of one span are of the same cut), a call returns in the step that gives it
its block, also after it has waited for the central cache (`ReturnedStep`), and
every other step stutters.

`PageHeapProofs`, for any number of pages, lists and structures and any page
size. `HeapOK(h, G, A)` says of a heap `h`, a set `G` of spans in the hands of
callers and a set `A` of pages no span stands for (those the C library took, and
for a moment those just got from sbrk): the lists hold spans of their size,
nobody has a span that somebody else has, each page below the break and not in
`A` belongs to a live span, and the page map sends each page of a live span to
it. That spans are disjoint is not a part of it but a consequence, as the map is
a function: this is what makes the invariant provable one page at a time. The
operations are cut into what they are made of (moving the break, a new chunk of
structures, claiming and mapping pages, push, pop, changing the size of a span)
with a lemma each that says which `HeapOK(g, ...)` it leads to; fetch_span is put
together from them, and the order of its writes (a rest is mapped before it is
pushed on the list of its size) is what the lemmas check. `HeapCorrect` is `Spec
=> []HeapInv`: `HeapOK` with the spans given out and the alien pages, the break
within its bound, and that a span given out for a request that has a list has at
least the pages asked for; `HeapTyped`
(`TypeOK`), `OneOwnerPerPage` (`PagesPartitioned`), `MapIsRight`
(`MapNamesOwner`) and `ShortByNoMore` (`ShortByARest`) follow.

`ClassCorrect` and `FreeFindsList`, also in `ObjectCacheProofs`, are about
`SizeClass`. They follow from the lemma `Groups`, which bounds the quotient in each
of the three groups of sizes, and hold for every size from 1 to THRESHALLOC with
the program's own constants, so there is no run.

Only model-checked: liveness (`EveryJobRuns`, `EveryRequestAnswered`,
`DocumentEnds`, `ExchangeEnds`), which needs fairness, and the properties of
`Exchange`. There an integer is its digits in base BASE; the provers know nothing
of powers, and that a number has just one sequence of FIELD digits, on which every
reading of a header rests, would have to be assumed.

## Where the program does not do what is said of it

Three violated runs show it; each counterexample is a few steps long:

- server_client_gone: a client that disappears while its response is written
  ends the server (server.c:285).
- index_growth: a hash table that has grown loses words (server.c:63; the table
  grows as soon as its last slot is used).
- cache_leak: a batch of returned objects from two spans leaves one of them in
  the idle list, out of reach (tc_malloc.c:443).

Six more statements are in the modules and false, but have no run of their own;
add them as an INVARIANT to the configuration of their module to see it:

- `MutexReturned` (Pool.cfg): the early return at thread_pool.c:155 keeps
  the mutex. `EveryJobRuns` says that otherwise a job is only left in the queue
  when every worker is held for ever, which as many clients that stop in the
  middle of a request as there are workers can bring about (`EveryRequestAnswered`
  is checked for fewer).
- `NamesIntact` (ReadDirSafety.cfg): the names of a directory larger than one
  readdir buffer are overwritten (server.c:228); `NamesUntilRefill` says which
  are right.
- `EveryWordIndexed` (Document.cfg): words beyond the middle of a line
  buffer are lost (helper.c:454, 463, 476); `OnlyLastWrong` says how far.
- `NotFoundIsAbsentInClient2` (Exchange.cfg): client2 says "no such word in the
  server" when the reply does not come (client2.c:129-133).
- `EveryRequestFits` (HeapSafety.cfg): a request beyond PAGEHEAPSIZE pages can get
  a smaller span (tc_malloc.c:169).
- `BlockHoldsSize` (HeapSafety.cfg): bytes_to_pages rounds down, so that a large
  block whose size is no multiple of the page is short (tc_malloc.c:657);
  `ShortByARest` says by how much, for blocks that have a list of their own.

`NotFoundIsAbsent`, `BuffersHold` and `CopiesFit` hold with the exceptions they
name: a reply that breaks off before the last byte of its header
(client1.c:105), responses of more than DYN_SIZE characters (server.c:273) and
of exactly BUFSIZE ones (client2.c:123), a read that fails after the header
(server.c:261), a word of MAX_WORD_LEN letters (server.c:154).

## Not modelled

A failing sbrk and the end of the page map in tc_malloc: what follows is
undefined. tc_calloc and tc_realloc, which are not in the repository, and their
failing outside of add_job_to_pool. StrCompare and StrConcat, whose bounds are
far from the lengths in use; StrSearch, flush_buf and open_clientfd, which
nothing calls. Input longer than the buffers of client2's scanf. Command lines,
name resolution, socket options, putting a path together: I/O without state. A
failing open_listenfd, after which main calls select on descriptor -1. The
clean-up after main's endless loop and the destroy functions, which are never
reached, and client1's tc_free of a freed structure as its last statement. The
`args` and `job_t` of a request are never freed; the models of the pool use it
(a node's name is never reused) and say nothing of the memory.

