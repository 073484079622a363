------------------------------ MODULE Server ------------------------------
(***************************************************************************)
(* server.c after bootstrapping: main's event loop around select, the pool *)
(* of workers running thread_job, and the clients of client1.c and         *)
(* client2.c that open one connection per request.  The pool is JobPool,   *)
(* which ThreadPool implements.                                            *)
(*                                                                         *)
(* Descriptors are the integers the kernel hands out, lowest free first;   *)
(* listenfd is the smallest one in use here.  A connection is a client and *)
(* the number of its request.  A byte stream is abstracted to the parts    *)
(* the two sides write: request header and word, reply header and lines.   *)
(***************************************************************************)
EXTENDS Naturals, Sequences, FiniteSets, FiniteSetsExt

CONSTANTS Workers,    \* threads of the pool
          Clients,    \* client threads (request_server)
          OneWrite,   \* the clients that send header and word in one write (client2)
          Stalled,    \* clients that may stop for ever in the middle of a request
          Requests,   \* requests per client (req_per_thread)
          listenfd,   \* descriptor of the listening socket
          LastFd,     \* largest descriptor the process may open
          Query,      \* Query[x]: the word that connection x asks for
          Index,      \* the words that lookup finds in the inverted index
          Empty,      \* the empty string
          MaxAborts,  \* how many clients may be killed in mid-request
          NULL        \* no connection, no descriptor, no word

Fds == listenfd + 1 .. LastFd
Conns == Clients \X (1 .. Requests)
Words == {Query[x] : x \in Conns} \cup {Empty}

ASSUME ServerAssumption ==
    /\ listenfd \in Nat /\ LastFd \in Nat /\ Requests \in Nat \ {0} /\ MaxAborts \in Nat
    /\ OneWrite \subseteq Clients /\ Stalled \subseteq Clients
    /\ NULL \notin Fds /\ NULL \notin Conns /\ NULL \notin Words

VARIABLES
    sock,        \* sock[f]: the connection open on descriptor f, or NULL
    acceptq,     \* connections the kernel has completed and main not accepted
    currentfds,  \* the descriptors main watches
    todo,        \* the descriptors of readyfds the scan has still to visit
    maxfd,       \* highest descriptor seen
    mpc,         \* where main is: select, scan, accept, clear or exit
    pending, running,  \* the pool: a job is the descriptor in its args
    wpc,         \* wpc[w]: where worker w is in thread_job
    query,       \* query[w]: the string in w's packet
    up,          \* up[x]: parts of the request the client has written
    eof,         \* eof[x]: the client has closed its end
    down,        \* down[x]: parts of the reply the server has written
    shut,        \* shut[x]: the server has closed its end
    cpc,         \* cpc[c]: where client c is in request_server
    req,         \* req[c]: number of its current request
    got,         \* got[x]: what the client made of the reply, or NULL
    aborts       \* how many clients were killed

main == <<currentfds, todo, maxfd, mpc>>
worker == <<wpc, query>>
pool == <<pending, running>>
client == <<cpc, req, got, aborts>>
wire == <<up, eof, down, shut>>
vars == <<sock, acceptq, main, pool, worker, wire, client>>

Pool == INSTANCE JobPool WITH Jobs <- Fds

Alive == mpc # "exit"

-----------------------------------------------------------------------------
Init ==
    /\ sock = [f \in Fds |-> NULL] /\ acceptq = <<>>
    /\ currentfds = {listenfd} /\ todo = {} /\ maxfd = listenfd /\ mpc = "select"
    /\ Pool!Init
    /\ wpc = [w \in Workers |-> "idle"] /\ query = [w \in Workers |-> NULL]
    /\ up = [x \in Conns |-> 0] /\ eof = [x \in Conns |-> FALSE]
    /\ down = [x \in Conns |-> <<>>] /\ shut = [x \in Conns |-> FALSE]
    /\ cpc = [c \in Clients |-> "connect"] /\ req = [c \in Clients |-> 1]
    /\ got = [x \in Conns |-> NULL] /\ aborts = 0

-----------------------------------------------------------------------------
\* main: the event loop.

\* What select reports for descriptor f, watched for reading.
Readable(f) ==
    IF f = listenfd THEN acceptq # <<>>
    ELSE sock[f] # NULL /\ (up[sock[f]] > 0 \/ eof[sock[f]])

Closed(f) == f # listenfd /\ sock[f] = NULL

\* Mutant of Select: maxfd instead of maxfd+1 as the first argument.
SelectBelowMaxfd ==
    LET asked == {f \in currentfds : f < maxfd}
        ready == {f \in asked : Readable(f)}
    IN  /\ mpc = "select"
        /\ IF \E f \in asked : Closed(f)
           THEN mpc' = "exit" /\ UNCHANGED todo
           ELSE ready # {} /\ mpc' = "scan" /\ todo' = ready
        /\ UNCHANGED <<sock, acceptq, currentfds, maxfd, pool, worker, wire, client>>

\* select(maxfd+1, ...): a closed descriptor makes it fail, and main exits.
\* desc_ready is the number of descriptors in todo.
Select ==
    LET asked == {f \in currentfds : f <= maxfd}
        ready == {f \in asked : Readable(f)}
    IN  /\ mpc = "select"
        /\ IF \E f \in asked : Closed(f)
           THEN mpc' = "exit" /\ UNCHANGED todo
           ELSE ready # {} /\ mpc' = "scan" /\ todo' = ready
        /\ UNCHANGED <<sock, acceptq, currentfds, maxfd, pool, worker, wire, client>>

\* Mutant of Scan: the listening socket is handed to a worker too.
ScanAll ==
    /\ mpc = "scan"
    /\ IF todo = {} THEN mpc' = "select" /\ UNCHANGED pool
       ELSE mpc' = "clear" /\ Pool!Submit(Min(todo))
    /\ UNCHANGED <<sock, acceptq, currentfds, todo, maxfd, worker, wire, client>>

\* The for loop over 0 .. maxfd visits the ready descriptors in order.
Scan ==
    /\ mpc = "scan"
    /\ IF todo = {} THEN mpc' = "select" /\ UNCHANGED pool
       ELSE IF Min(todo) = listenfd
       THEN mpc' = "accept" /\ UNCHANGED pool
       ELSE mpc' = "clear" /\ Pool!Submit(Min(todo))
    /\ UNCHANGED <<sock, acceptq, currentfds, todo, maxfd, worker, wire, client>>

Free == {f \in Fds : sock[f] = NULL}

\* Mutant of Accept: maxfd is not raised for the new descriptor.
AcceptKeepsMaxfd ==
    /\ mpc = "accept"
    /\ IF acceptq = <<>> \/ Free = {}
       THEN /\ mpc' = "scan" /\ todo' = todo \ {listenfd}
            /\ UNCHANGED <<sock, acceptq, currentfds>>
       ELSE LET newfd == Min(Free) IN
            /\ sock' = [sock EXCEPT ![newfd] = Head(acceptq)]
            /\ acceptq' = Tail(acceptq)
            /\ currentfds' = currentfds \cup {newfd}
            /\ UNCHANGED <<mpc, todo>>
    /\ UNCHANGED <<maxfd, pool, worker, wire, client>>

\* One round of the accept loop; it ends when nobody waits (EWOULDBLOCK) or
\* the process has no descriptor left (EMFILE).
Accept ==
    /\ mpc = "accept"
    /\ IF acceptq = <<>> \/ Free = {}
       THEN /\ mpc' = "scan" /\ todo' = todo \ {listenfd}
            /\ UNCHANGED <<sock, acceptq, currentfds, maxfd>>
       ELSE LET newfd == Min(Free) IN
            /\ sock' = [sock EXCEPT ![newfd] = Head(acceptq)]
            /\ acceptq' = Tail(acceptq)
            /\ currentfds' = currentfds \cup {newfd}
            /\ maxfd' = IF newfd > maxfd THEN newfd ELSE maxfd
            /\ UNCHANGED <<mpc, todo>>
    /\ UNCHANGED <<pool, worker, wire, client>>

\* Mutant of Clear: FD_CLR is left out.
ClearForgotten ==
    /\ mpc = "clear"
    /\ todo' = todo \ {Min(todo)}
    /\ mpc' = "scan"
    /\ UNCHANGED <<sock, acceptq, currentfds, maxfd, pool, worker, wire, client>>

\* FD_CLR, after add_job_to_pool: the worker may have closed the descriptor.
Clear ==
    /\ mpc = "clear"
    /\ currentfds' = currentfds \ {Min(todo)}
    /\ todo' = todo \ {Min(todo)}
    /\ mpc' = "scan"
    /\ UNCHANGED <<sock, acceptq, maxfd, pool, worker, wire, client>>

MainStep == Select \/ Scan \/ Accept \/ Clear

-----------------------------------------------------------------------------
\* thread_job, run by worker w on the descriptor of its job.
Conn(w) == sock[running[w]]
WGoto(w, label) == wpc' = [wpc EXCEPT ![w] = label]

StartJob(w) ==
    /\ Alive
    /\ Pool!Start(w) /\ WGoto(w, "header")
    /\ UNCHANGED <<sock, acceptq, main, query, wire, client>>

\* recv_from_host returns when part n of the request is there or never will be.
recv_from_host(x, n) == up[x] >= n \/ eof[x]

\* The header and the test of msg_type.  At end of file packet keeps the
\* allocator's bytes, whose second word is no REQUEST.
RecvHeader(w) ==
    /\ Alive /\ wpc[w] = "header"
    /\ recv_from_host(Conn(w), 1)
    /\ WGoto(w, IF up[Conn(w)] > 0 THEN "word" ELSE "close")
    /\ UNCHANGED <<sock, acceptq, main, pool, query, wire, client>>

\* Mutant of RecvWord: packet is one static buffer for all workers.
RecvWordShared(w) ==
    /\ Alive /\ wpc[w] = "word"
    /\ recv_from_host(Conn(w), 2)
    /\ query' = [v \in Workers |-> IF up[Conn(w)] = 2 THEN Query[Conn(w)] ELSE Empty]
    /\ WGoto(w, "reply")
    /\ UNCHANGED <<sock, acceptq, main, pool, wire, client>>

\* The word; at end of file the string is empty.
RecvWord(w) ==
    /\ Alive /\ wpc[w] = "word"
    /\ recv_from_host(Conn(w), 2)
    /\ query' = [query EXCEPT ![w] = IF up[Conn(w)] = 2 THEN Query[Conn(w)] ELSE Empty]
    /\ WGoto(w, "reply")
    /\ UNCHANGED <<sock, acceptq, main, pool, wire, client>>

\* send_to_host writes the whole part; the kernel buffers it.
send_to_host(x, part) == down' = [down EXCEPT ![x] = Append(@, part)]

\* lookup, and the header of a response or the error packet.  A first write
\* to a closed peer succeeds.
SendHeader(w) ==
    /\ Alive /\ wpc[w] = "reply"
    /\ IF query[w] \in Index
       THEN send_to_host(Conn(w), "RESPONSE") /\ WGoto(w, "payload")
       ELSE send_to_host(Conn(w), "ERROR") /\ WGoto(w, "close")
    /\ UNCHANGED <<sock, acceptq, main, pool, query, up, eof, shut, client>>

SendPayload(w) ==
    /\ Alive /\ wpc[w] = "payload"
    /\ send_to_host(Conn(w), query[w]) /\ WGoto(w, "close")
    /\ UNCHANGED <<sock, acceptq, main, pool, query, up, eof, shut, client>>

\* The second write to a peer that is gone: once its reset has arrived the
\* process is killed by SIGPIPE, which nothing blocks or ignores.
Sigpipe(w) ==
    /\ Alive /\ wpc[w] = "payload" /\ eof[Conn(w)]
    /\ mpc' = "exit"
    /\ UNCHANGED <<sock, acceptq, currentfds, todo, maxfd, pool, worker, wire, client>>

\* close(fd), and back to the pool.
CloseJob(w) ==
    /\ Alive /\ wpc[w] = "close"
    /\ Pool!Finish(w) /\ WGoto(w, "idle")
    /\ query' = [query EXCEPT ![w] = NULL]
    /\ shut' = [x \in Conns |-> shut[x] \/ x = Conn(w)]
    /\ sock' = [sock EXCEPT ![running[w]] = NULL]
    /\ UNCHANGED <<acceptq, main, up, eof, down, client>>

WorkerStep(w) ==
    \/ StartJob(w) \/ RecvHeader(w) \/ RecvWord(w)
    \/ SendHeader(w) \/ SendPayload(w) \/ CloseJob(w)

-----------------------------------------------------------------------------
\* request_server of client c.  The server's exit resets every connection.
This(c) == <<c, req[c]>>
CGoto(c, label) == cpc' = [cpc EXCEPT ![c] = label]

Connect(c) ==
    /\ Alive /\ cpc[c] = "connect"
    /\ acceptq' = Append(acceptq, This(c))
    /\ CGoto(c, "send")
    /\ UNCHANGED <<sock, main, pool, worker, wire, req, got, aborts>>

\* client1 writes the header and then the word.
Send(c) ==
    /\ Alive /\ cpc[c] = "send" /\ c \notin OneWrite
    /\ up' = [up EXCEPT ![This(c)] = @ + 1]
    /\ CGoto(c, IF up[This(c)] = 1 THEN "recv" ELSE "send")
    /\ UNCHANGED <<sock, acceptq, main, pool, worker, eof, down, shut, req, got, aborts>>

\* client2 writes both at once.
SendPacket(c) ==
    /\ Alive /\ cpc[c] = "send" /\ c \in OneWrite
    /\ up' = [up EXCEPT ![This(c)] = 2]
    /\ CGoto(c, "recv")
    /\ UNCHANGED <<sock, acceptq, main, pool, worker, eof, down, shut, req, got, aborts>>

\* recv_from_host of the header and, for a RESPONSE, of the lines; close, and
\* the next request.  A short read leaves no usable reply.
Receive(c) ==
    LET x == This(c)
        parts == down[x]
        whole == parts # <<>> /\ (parts[1] = "RESPONSE" => Len(parts) = 2)
    IN  /\ cpc[c] = "recv" /\ (whole \/ shut[x] \/ ~Alive)
        /\ got' = [got EXCEPT ![x] = IF whole THEN parts ELSE <<>>]
        /\ eof' = [eof EXCEPT ![x] = TRUE]
        /\ IF req[c] < Requests
           THEN CGoto(c, "connect") /\ req' = [req EXCEPT ![c] = @ + 1]
           ELSE CGoto(c, "done") /\ UNCHANGED req
        /\ UNCHANGED <<sock, acceptq, main, pool, worker, up, down, shut, aborts>>

\* The client process is killed; the kernel closes its end.
Abort(c) ==
    /\ cpc[c] \in {"send", "recv"} /\ aborts < MaxAborts
    /\ eof' = [eof EXCEPT ![This(c)] = TRUE]
    /\ CGoto(c, "gone") /\ aborts' = aborts + 1
    /\ UNCHANGED <<sock, acceptq, main, pool, worker, up, down, shut, req, got>>

ClientStep(c) == Connect(c) \/ Send(c) \/ SendPacket(c) \/ Receive(c)

-----------------------------------------------------------------------------
Next ==
    \/ MainStep
    \/ \E w \in Workers : WorkerStep(w) \/ Sigpipe(w)
    \/ \E c \in Clients : ClientStep(c) \/ Abort(c)

Spec == Init /\ [][Next]_vars

(***************************************************************************)
(* main and the workers keep running, and so do the clients that are not   *)
(* stalled: nothing but the steps above makes them wait.                   *)
(***************************************************************************)
Fairness ==
    /\ WF_vars(MainStep)
    /\ \A w \in Workers : WF_vars(WorkerStep(w))
    /\ \A c \in Clients \ Stalled : WF_vars(ClientStep(c))

FairSpec == Spec /\ Fairness

-----------------------------------------------------------------------------
TypeOK ==
    /\ sock \in [Fds -> Conns \cup {NULL}] /\ acceptq \in Seq(Conns)
    /\ currentfds \subseteq Fds \cup {listenfd} /\ todo \subseteq Fds \cup {listenfd}
    /\ maxfd \in Fds \cup {listenfd}
    /\ mpc \in {"select", "scan", "accept", "clear", "exit"}
    /\ pending \in Seq(Fds) /\ running \in [Workers -> Fds \cup {NULL}]
    /\ wpc \in [Workers -> {"idle", "header", "word", "reply", "payload", "close"}]
    /\ query \in [Workers -> Words \cup {NULL}]
    /\ up \in [Conns -> 0 .. 2] /\ eof \in [Conns -> BOOLEAN] /\ shut \in [Conns -> BOOLEAN]
    /\ down \in [Conns -> Seq({"RESPONSE", "ERROR"} \cup Words)]
    /\ got \in [Conns -> {NULL} \cup Seq({"RESPONSE", "ERROR"} \cup Words)]
    /\ cpc \in [Clients -> {"connect", "send", "recv", "done", "gone"}]
    /\ req \in [Clients -> 1 .. Requests] /\ aborts \in 0 .. MaxAborts

\* The descriptor main has submitted and not yet taken out of currentfds.
Leaving == IF mpc = "clear" THEN {Min(todo)} ELSE {}
Watched == (currentfds \ {listenfd}) \ Leaving

JobsFor(f) == {<<"pending", k>> : k \in {k \in 1 .. Len(pending) : pending[k] = f}}
              \cup {<<"running", w>> : w \in {w \in Workers : running[w] = f}}

(***************************************************************************)
(* Every open connection has one owner, and only open connections have:    *)
(* it is watched by main, or it belongs to one job of the pool, and never  *)
(* both.  So no descriptor is leaked, closed twice, or read by two         *)
(* workers, although add_job_to_pool comes before FD_CLR.                  *)
(***************************************************************************)
OneOwner ==
    Alive => \A f \in Fds :
        LET owners == Cardinality(JobsFor(f)) + (IF f \in Watched THEN 1 ELSE 0)
        IN  owners = IF sock[f] = NULL THEN 0 ELSE 1

(***************************************************************************)
(* select is never called with a closed descriptor, nor with a watched one *)
(* above maxfd, which it would not report.                                 *)
(***************************************************************************)
SelectSetValid ==
    mpc = "select" => \A f \in currentfds : ~Closed(f) /\ f <= maxfd

\* The reply thread_job owes to connection x.
Owed(x) ==
    LET q == IF up[x] = 2 THEN Query[x] ELSE Empty
    IN  IF up[x] = 0 THEN <<>> ELSE IF q \in Index THEN <<"RESPONSE", q>> ELSE <<"ERROR">>

(***************************************************************************)
(* A client that sent its whole request never reads anything but the reply *)
(* to its own word, header and lines, although descriptors are reused      *)
(* while workers still run: what a worker writes goes to the connection it *)
(* read the word from.                                                     *)
(***************************************************************************)
OwnReply ==
    \A x \in Conns :
        /\ down[x] # <<>> => \E k \in 1 .. Len(Owed(x)) : down[x] = SubSeq(Owed(x), 1, k)
        /\ got[x] # NULL /\ Alive => got[x] = Owed(x)

(***************************************************************************)
(* Every complete request of a client that does not stall is answered,     *)
(* provided fewer clients stall than there are workers.                    *)
(***************************************************************************)
EveryRequestAnswered ==
    \A x \in Conns : x[1] \notin Stalled =>
        (up[x] = 2 ~> (got[x] = Owed(x) \/ cpc[x[1]] = "gone"))
=============================================================================
