--------------------------- MODULE ServerProofs ---------------------------
(***************************************************************************)
(* Proofs about Server for any number of workers, clients, requests and    *)
(* descriptors.                                                            *)
(***************************************************************************)
EXTENDS Server, NatLemmas, SequenceTheorems, FiniteSetTheorems, TLAPS

USE ServerAssumption

-----------------------------------------------------------------------------
(***************************************************************************)
(* The inductive invariant.  OneOwner, SelectSetValid and OwnReply are not  *)
(* inductive: what a worker has written says nothing about the next step   *)
(* unless it is known which connection it has, which word it read from it,  *)
(* and that no other worker, past or present, has had the same one.        *)
(***************************************************************************)
InPool(f) ==
    \/ \E k \in 1 .. Len(pending) : pending[k] = f
    \/ \E w \in Workers : running[w] = f

\* Descriptors: what OneOwner says, without counting.
Ownership ==
    /\ \A i, k \in 1 .. Len(pending) : pending[i] = pending[k] => i = k
    /\ \A v, w \in Workers : running[v] = running[w] /\ running[v] # NULL => v = w
    /\ \A w \in Workers, k \in 1 .. Len(pending) : running[w] # pending[k]
    /\ \A f \in Watched : ~InPool(f)
    /\ \A f \in Fds : sock[f] # NULL <=> (f \in Watched \/ InPool(f))

\* main: the scan visits watched descriptors only, none of them above maxfd.
MainInv ==
    /\ \A f \in currentfds : f <= maxfd
    /\ mpc \in {"scan", "accept", "clear"} => todo \subseteq currentfds
    /\ mpc = "clear" => todo # {} /\ Min(todo) # listenfd

\* A worker that is not idle has a descriptor with a connection.
WorkerInv ==
    \A w \in Workers :
        /\ wpc[w] = "idle" <=> running[w] = NULL
        /\ running[w] # NULL => Conn(w) # NULL

\* The client of x has connected.
Begun(x) == x[2] < req[x[1]] \/ (x[2] = req[x[1]] /\ cpc[x[1]] # "connect")

\* A connection waits in acceptq, is open on one descriptor, or is shut.
ConnInv ==
    /\ \A f, g \in Fds : sock[f] = sock[g] /\ sock[f] # NULL => f = g
    /\ \A i, k \in 1 .. Len(acceptq) : acceptq[i] = acceptq[k] => i = k
    /\ \A f \in Fds, k \in 1 .. Len(acceptq) : sock[f] # acceptq[k]
    /\ \A f \in Fds : sock[f] # NULL => Begun(sock[f]) /\ ~shut[sock[f]]
    /\ \A k \in 1 .. Len(acceptq) : Begun(acceptq[k]) /\ ~shut[acceptq[k]]
    /\ \A x \in Conns : shut[x] => Begun(x)

\* Nothing more of the request of x will come.
Settled(x) == up[x] = 2 \/ eof[x]

\* How far the request of x is, from where its client is.
Progress(x) ==
    /\ ~Begun(x) => up[x] = 0 /\ ~eof[x]
    /\ x = This(x[1]) /\ cpc[x[1]] = "send" => up[x] < 2 /\ ~eof[x]
    /\ x = This(x[1]) /\ cpc[x[1]] = "recv" => up[x] = 2
    /\ x[2] < req[x[1]] => up[x] = 2
    /\ got[x] # NULL => up[x] = 2

ClientInv == \A x \in Conns : Progress(x)

\* The string thread_job looks up for x once the request is settled.
Asked(x) == IF up[x] = 2 THEN Query[x] ELSE Empty

\* What worker w has written so far, for each place it can be at.
Written(w) ==
    /\ wpc[w] \in {"header", "word", "reply"} => down[Conn(w)] = <<>>
    /\ wpc[w] = "word" => up[Conn(w)] > 0
    /\ wpc[w] \in {"reply", "payload"} =>
          up[Conn(w)] > 0 /\ Settled(Conn(w)) /\ query[w] = Asked(Conn(w))
    /\ wpc[w] = "payload" => down[Conn(w)] = <<"RESPONSE">> /\ query[w] \in Index
    /\ wpc[w] = "close" => down[Conn(w)] = Owed(Conn(w)) /\ Settled(Conn(w))

\* Some worker has the connection x.
Served(x) == \E w \in Workers : running[w] # NULL /\ Conn(w) = x

ReplyInv ==
    /\ \A w \in Workers : Written(w)
    /\ \A x \in Conns : shut[x] => down[x] = Owed(x) /\ Settled(x)
    /\ \A x \in Conns : down[x] # <<>> /\ ~shut[x] => Served(x)
    /\ \A x \in Conns : got[x] # NULL /\ Alive => got[x] = Owed(x)

ServerInv ==
    /\ TypeOK
    /\ Alive => Ownership /\ MainInv
    /\ WorkerInv /\ ConnInv /\ ClientInv /\ ReplyInv

-----------------------------------------------------------------------------
(* Lemmas about the operators. *)

\* Descriptors are numbers, and listenfd is below all that are handed out.
LEMMA FdFacts ==
    /\ Fds \subseteq Nat /\ listenfd \in Nat /\ listenfd \notin Fds
    /\ \A f \in Fds : listenfd < f
  BY DEF Fds

\* The descriptor the scan is at is one of todo.
LEMMA TodoMin ==
    ASSUME TypeOK, todo # {}
    PROVE  Min(todo) \in todo
  <1>1. todo \in SUBSET Nat
    BY FdFacts DEF TypeOK
  <1> QED
    BY <1>1, MinIn

\* accept takes a descriptor that is not open.
LEMMA FreeMin ==
    ASSUME TypeOK, Free # {}
    PROVE  Min(Free) \in Fds /\ sock[Min(Free)] = NULL
  <1>1. Free \in SUBSET Nat
    BY FdFacts DEF Free
  <1> QED
    BY <1>1, MinIn DEF Free

\* What the head and the tail of a sequence are, by position.
LEMMA HeadTail ==
    ASSUME NEW S, NEW q \in Seq(S), q # <<>>
    PROVE  /\ Head(q) \in S /\ Tail(q) \in Seq(S)
           /\ Len(q) \in Nat /\ Len(q) > 0
           /\ Head(q) = q[1] /\ Len(Tail(q)) = Len(q) - 1
           /\ \A i \in 1 .. Len(Tail(q)) : Tail(q)[i] = q[i + 1] /\ i + 1 \in 1 .. Len(q)
  BY HeadTailProperties, LenProperties, EmptySeq

\* A sequence of two from its parts.
LEMMA AppendPair ==
    ASSUME NEW a, NEW b
    PROVE  Append(<<a>>, b) = <<a, b>>
  <1> DEFINE S == {a, b}
             s == Append(<<a>>, b)
             t == <<a, b>>
  <1>1. <<a>> \in Seq(S) /\ t \in Seq(S) /\ b \in S
    OBVIOUS
  <1>2. s \in Seq(S) /\ Len(s) = 2 /\ s[1] = a /\ s[2] = b
    BY <1>1, AppendProperties
  <1>3. Len(t) = 2 /\ t[1] = a /\ t[2] = b
    OBVIOUS
  <1> HIDE DEF s, t
  <1>4. s = t
    BY <1>1, <1>2, <1>3, SeqEqual
  <1> QED
    BY <1>4 DEF s, t

\* The first part of a sequence of two.
LEMMA FirstOfPair ==
    ASSUME NEW a, NEW b
    PROVE  SubSeq(<<a, b>>, 1, 1) = <<a>>
  <1> DEFINE S == {a, b}
             s == SubSeq(<<a, b>>, 1, 1)
             t == <<a>>
  <1>1. <<a, b>> \in Seq(S) /\ t \in Seq(S) /\ Len(<<a, b>>) = 2 /\ <<a, b>>[1] = a
    OBVIOUS
  <1>2. s \in Seq(S) /\ Len(s) = 1 /\ s[1] = a
    BY <1>1, SubSeqProperties
  <1>3. Len(t) = 1 /\ t[1] = a
    OBVIOUS
  <1> HIDE DEF s, t
  <1>4. s = t
    BY <1>1, <1>2, <1>3, SeqEqual
  <1> QED
    BY <1>4 DEF s, t

\* The current connection of a client.
LEMMA ThisConn ==
    ASSUME TypeOK, NEW c \in Clients
    PROVE  This(c) \in Conns /\ This(c)[1] = c /\ This(c)[2] = req[c]
  BY DEF TypeOK, This, Conns

-----------------------------------------------------------------------------
\* Types.

\* Initially every variable has its type.
LEMMA TypeInit == Init => TypeOK
  <1> SUFFICES ASSUME Init PROVE TypeOK
    OBVIOUS
  <1>1. acceptq \in Seq(Conns) /\ pending \in Seq(Fds)
    BY DEF Init, Pool!Init
  <1>2. <<>> \in Seq({"RESPONSE", "ERROR"} \cup Words)
    OBVIOUS
  <1> QED
    BY <1>1, <1>2 DEF Init, Pool!Init, TypeOK

\* The steps of the event loop keep the types.
LEMMA MainType == TypeOK /\ MainStep => TypeOK'
  <1> SUFFICES ASSUME TypeOK, MainStep PROVE TypeOK'
    OBVIOUS
  <1>1. CASE Select
    BY <1>1 DEF Select, TypeOK, pool, worker, wire, client
  <1>2. CASE Scan
    <2>1. CASE todo # {} /\ Min(todo) # listenfd
      <3>1. Min(todo) \in Fds
        BY <2>1, TodoMin DEF TypeOK
      <3>2. pending' \in Seq(Fds)
        <4>1. pending' = Append(pending, Min(todo))
          BY <2>1, <1>2 DEF Scan, Pool!Submit
        <4>2. pending \in Seq(Fds)
          BY DEF TypeOK
        <4> QED
          BY <3>1, <4>1, <4>2, AppendProperties
      <3>3. UNCHANGED <<sock, acceptq, currentfds, todo, maxfd, wpc, query, up, eof,
                        down, shut, cpc, req, got, aborts, running>> /\ mpc' = "clear"
        BY <2>1, <1>2 DEF Scan, Pool!Submit, worker, wire, client
      <3> QED
        BY <3>2, <3>3 DEF TypeOK
    <2>2. CASE todo = {} \/ Min(todo) = listenfd
      BY <2>2, <1>2 DEF Scan, TypeOK, pool, worker, wire, client
    <2> QED
      BY <2>1, <2>2
  <1>3. CASE Accept
    <2>1. CASE acceptq = <<>> \/ Free = {}
      BY <2>1, <1>3 DEF Accept, TypeOK, pool, worker, wire, client
    <2>2. CASE acceptq # <<>> /\ Free # {}
      <3>1. Min(Free) \in Fds
        BY <2>2, FreeMin
      <3>2. Head(acceptq) \in Conns /\ Tail(acceptq) \in Seq(Conns)
        BY <2>2, HeadTail DEF TypeOK
      <3>3. /\ sock' = [sock EXCEPT ![Min(Free)] = Head(acceptq)]
            /\ acceptq' = Tail(acceptq) /\ currentfds' = currentfds \cup {Min(Free)}
            /\ maxfd' \in {Min(Free), maxfd}
            /\ UNCHANGED <<mpc, todo, pending, running, wpc, query, up, eof, down, shut,
                           cpc, req, got, aborts>>
        BY <2>2, <1>3 DEF Accept, pool, worker, wire, client
      <3> QED
        BY <3>1, <3>2, <3>3 DEF TypeOK
    <2> QED
      BY <2>1, <2>2
  <1>4. CASE Clear
    BY <1>4 DEF Clear, TypeOK, pool, worker, wire, client
  <1> QED
    BY <1>1, <1>2, <1>3, <1>4 DEF MainStep

\* So do those of thread_job; what it looks up is a word because of ReplyInv.
LEMMA WorkerType ==
    ASSUME TypeOK, WorkerInv, ReplyInv, NEW w \in Workers, WorkerStep(w) \/ Sigpipe(w)
    PROVE  TypeOK'
  <1> DEFINE Parts == {"RESPONSE", "ERROR"} \cup Words
  <1>0. wpc[w] # "idle" => running[w] \in Fds /\ Conn(w) \in Conns
    BY DEF TypeOK, WorkerInv, Conn
  <1>1. CASE StartJob(w)
    <2>1. Head(pending) \in Fds /\ Tail(pending) \in Seq(Fds)
      BY <1>1, HeadTail DEF StartJob, Pool!Start, TypeOK
    <2> QED
      BY <1>1, <2>1 DEF StartJob, Pool!Start, WGoto, TypeOK, main, wire, client
  <1>2. CASE RecvHeader(w)
    BY <1>2 DEF RecvHeader, WGoto, TypeOK, main, pool, wire, client
  <1>3. CASE RecvWord(w)
    <2>1. (IF up[Conn(w)] = 2 THEN Query[Conn(w)] ELSE Empty) \in Words
      BY <1>3, <1>0 DEF RecvWord, Words
    <2> QED
      BY <1>3, <2>1 DEF RecvWord, WGoto, TypeOK, main, pool, wire, client
  <1>4. ASSUME NEW x \in Conns, NEW part \in Parts, send_to_host(x, part)
        PROVE  down' \in [Conns -> Seq(Parts)]
    <2>1. down[x] \in Seq(Parts)
      BY DEF TypeOK
    <2>2. Append(down[x], part) \in Seq(Parts)
      BY <2>1, AppendProperties
    <2> HIDE DEF Parts
    <2> QED
      BY <1>4, <2>2 DEF send_to_host, TypeOK, Parts
  <1>5. CASE SendHeader(w)
    <2>1. down' \in [Conns -> Seq(Parts)]
      BY <1>5, <1>0, <1>4 DEF SendHeader
    <2> QED
      BY <1>5, <2>1 DEF SendHeader, WGoto, TypeOK, main, pool, client
  <1>6. CASE SendPayload(w)
    <2>1. query[w] \in Words
      BY <1>6, <1>0 DEF SendPayload, ReplyInv, Written, Asked, Words
    <2>2. down' \in [Conns -> Seq(Parts)]
      BY <1>6, <1>0, <1>4, <2>1 DEF SendPayload
    <2> QED
      BY <1>6, <2>2 DEF SendPayload, WGoto, TypeOK, main, pool, client
  <1>7. CASE Sigpipe(w)
    BY <1>7 DEF Sigpipe, TypeOK, pool, worker, wire, client
  <1>8. CASE CloseJob(w)
    BY <1>8, <1>0 DEF CloseJob, Pool!Finish, WGoto, TypeOK, main, client
  <1> QED
    BY <1>1, <1>2, <1>3, <1>5, <1>6, <1>7, <1>8 DEF WorkerStep

\* And those of a client, which writes no third part of a request.
LEMMA ClientType ==
    ASSUME TypeOK, ClientInv, NEW c \in Clients, ClientStep(c) \/ Abort(c)
    PROVE  TypeOK'
  <1> USE ThisConn
  <1>1. CASE Connect(c)
    <2>1. acceptq' \in Seq(Conns)
      <3>1. acceptq \in Seq(Conns) /\ acceptq' = Append(acceptq, This(c))
        BY <1>1 DEF Connect, TypeOK
      <3> QED
        BY <3>1, AppendProperties
    <2> QED
      BY <1>1, <2>1 DEF Connect, CGoto, TypeOK, main, pool, worker, wire
  <1>2. CASE Send(c)
    <2>1. up[This(c)] \in {0, 1}
      <3>1. up[This(c)] \in 0 .. 2 /\ cpc[c] = "send"
        BY <1>2 DEF Send, TypeOK
      <3>2. up[This(c)] < 2
        <4> DEFINE x == This(c)
        <4>1. x \in Conns /\ x[1] = c /\ x = This(x[1])
          BY ThisConn
        <4> HIDE DEF x
        <4>2. up[x] < 2
          BY <4>1, <3>1 DEF ClientInv, Progress
        <4> QED
          BY <4>2 DEF x
      <3> QED
        BY <3>1, <3>2
    <2>2. UNCHANGED <<sock, acceptq, main, pool, worker, eof, down, shut, req, got, aborts>>
      BY <1>2 DEF Send
    <2>3. up' \in [Conns -> 0 .. 2]
      <3>1. up[This(c)] + 1 \in 0 .. 2 /\ up \in [Conns -> 0 .. 2]
        BY <2>1 DEF TypeOK
      <3> QED
        BY <1>2, <3>1 DEF Send
    <2>4. cpc' \in [Clients -> {"connect", "send", "recv", "done", "gone"}]
      BY <1>2 DEF Send, CGoto, TypeOK
    <2> QED
      BY <2>2, <2>3, <2>4 DEF TypeOK, main, pool, worker
  <1>3. CASE SendPacket(c)
    <2>1. UNCHANGED <<sock, acceptq, main, pool, worker, eof, down, shut, req, got, aborts>>
      BY <1>3 DEF SendPacket
    <2>2. up' \in [Conns -> 0 .. 2]
      BY <1>3 DEF SendPacket, TypeOK
    <2>3. cpc' \in [Clients -> {"connect", "send", "recv", "done", "gone"}]
      BY <1>3 DEF SendPacket, CGoto, TypeOK
    <2> QED
      BY <2>1, <2>2, <2>3 DEF TypeOK, main, pool, worker
  <1>4. CASE Receive(c)
    <2>1. down[This(c)] \in Seq({"RESPONSE", "ERROR"} \cup Words)
      BY DEF TypeOK
    <2>2. got' \in [Conns -> {NULL} \cup Seq({"RESPONSE", "ERROR"} \cup Words)]
      <3>1. PICK v \in Seq({"RESPONSE", "ERROR"} \cup Words) :
                got' = [got EXCEPT ![This(c)] = v]
        BY <1>4, <2>1, EmptySeq DEF Receive
      <3> QED
        BY <3>1 DEF TypeOK
    <2>3. req' \in [Clients -> 1 .. Requests]
      <3>1. req \in [Clients -> 1 .. Requests] /\ Requests \in Nat
        BY DEF TypeOK
      <3>2. \/ UNCHANGED req
            \/ req[c] < Requests /\ req' = [req EXCEPT ![c] = @ + 1]
        BY <1>4 DEF Receive
      <3> QED
        BY <3>1, <3>2
    <2>4. /\ UNCHANGED <<sock, acceptq, currentfds, todo, maxfd, mpc, pending, running,
                        wpc, query, up, down, shut, aborts>>
          /\ eof' = [eof EXCEPT ![This(c)] = TRUE]
          /\ \E l \in {"connect", "done"} : cpc' = [cpc EXCEPT ![c] = l]
      BY <1>4 DEF Receive, CGoto, main, pool, worker
    <2> QED
      BY <2>2, <2>3, <2>4 DEF TypeOK
  <1>5. CASE Abort(c)
    BY <1>5 DEF Abort, CGoto, TypeOK, main, pool, worker
  <1> QED
    BY <1>1, <1>2, <1>3, <1>4, <1>5 DEF ClientStep

-----------------------------------------------------------------------------
\* Ownership of descriptors, and main's variables.

\* Steps that leave pool, descriptors and main alone.
LEMMA SameOwnership ==
    ASSUME Ownership, MainInv,
           UNCHANGED <<sock, currentfds, todo, maxfd, mpc, pending, running>>
    PROVE  Ownership' /\ MainInv'
  <1>1. Watched' = Watched /\ \A f : InPool(f)' = InPool(f)
    BY DEF Watched, Leaving, InPool
  <1>2. Ownership'
    BY <1>1 DEF Ownership
  <1> QED
    BY <1>2 DEF MainInv

\* select: nothing changes hands, and todo gets descriptors of currentfds.
LEMMA SelectOwnership ==
    ASSUME Ownership, MainInv, Select, Alive'
    PROVE  Ownership' /\ MainInv'
  <1>1. /\ UNCHANGED <<sock, currentfds, maxfd, pending, running>>
        /\ mpc = "select" /\ mpc' = "scan" /\ todo' \subseteq currentfds
    BY DEF Select, Alive, pool
  <1>2. Watched' = Watched /\ \A f : InPool(f)' = InPool(f)
    BY <1>1 DEF Watched, Leaving, InPool
  <1>3. Ownership'
    BY <1>1, <1>2 DEF Ownership
  <1> QED
    BY <1>1, <1>3 DEF MainInv

\* add_job_to_pool: the descriptor goes from main to the pool.
LEMMA ScanOwnership ==
    ASSUME TypeOK, Ownership, MainInv, Scan
    PROVE  Ownership' /\ MainInv'
  <1> DEFINE f == Min(todo)
  <1>1. CASE todo = {} \/ f = listenfd
    <2>1. /\ UNCHANGED <<sock, currentfds, todo, maxfd, pending, running>>
          /\ mpc = "scan" /\ mpc' \in {"select", "accept"}
      BY <1>1 DEF Scan, pool
    <2>2. Watched' = Watched /\ \A g : InPool(g)' = InPool(g)
      BY <2>1 DEF Watched, Leaving, InPool
    <2>3. Ownership'
      BY <2>1, <2>2 DEF Ownership
    <2> QED
      BY <2>1, <2>3 DEF MainInv
  <1>2. CASE todo # {} /\ f # listenfd
    <2>1. /\ UNCHANGED <<sock, currentfds, todo, maxfd, running>>
          /\ mpc = "scan" /\ mpc' = "clear" /\ pending' = Append(pending, f)
      BY <1>2 DEF Scan, Pool!Submit
    <2>2. f \in todo /\ f \in Fds
      BY <1>2, TodoMin DEF TypeOK
    <2>3. f \in Watched /\ Watched' = Watched \ {f}
      BY <1>2, <2>1, <2>2 DEF Watched, Leaving, MainInv
    <2> HIDE DEF f
    <2>4. /\ pending \in Seq(Fds) /\ Len(pending) \in Nat
          /\ Len(pending') = Len(pending) + 1
          /\ \A k \in 1 .. Len(pending) : pending'[k] = pending[k]
          /\ pending'[Len(pending) + 1] = f
      BY <2>1, <2>2, AppendProperties, LenProperties DEF TypeOK
    <2>5. \A g : InPool(g)' <=> (InPool(g) \/ g = f)
      BY <2>1, <2>4 DEF InPool
    <2>6. ~InPool(f) /\ \A k \in 1 .. Len(pending) : pending[k] # f
      BY <2>3 DEF Ownership, InPool
    <2>7. \A w \in Workers : running[w] # f
      BY <2>3 DEF Ownership, InPool
    <2>8. \A i, k \in 1 .. Len(pending') : pending'[i] = pending'[k] => i = k
      BY <2>4, <2>6 DEF Ownership
    <2>9. \A w \in Workers, k \in 1 .. Len(pending') : running'[w] # pending'[k]
      BY <2>1, <2>4, <2>7 DEF Ownership
    <2>10. \A g \in Watched' : ~InPool(g)'
      BY <2>3, <2>5 DEF Ownership
    <2>11. \A g \in Fds : sock'[g] # NULL <=> (g \in Watched' \/ InPool(g)')
      BY <2>1, <2>3, <2>5 DEF Ownership
    <2>12. Ownership'
      BY <2>1, <2>8, <2>9, <2>10, <2>11 DEF Ownership
    <2>13. MainInv'
      BY <1>2, <2>1 DEF MainInv, f
    <2> QED
      BY <2>12, <2>13
  <1> QED
    BY <1>1, <1>2

\* accept: a descriptor that nobody owned goes to main.
LEMMA AcceptOwnership ==
    ASSUME TypeOK, Ownership, MainInv, Accept
    PROVE  Ownership' /\ MainInv'
  <1>0. \A g : InPool(g)' = InPool(g)
    BY DEF Accept, InPool, pool
  <1>1. CASE acceptq = <<>> \/ Free = {}
    <2>1. /\ UNCHANGED <<sock, currentfds, maxfd, pending, running>>
          /\ mpc = "accept" /\ mpc' = "scan" /\ todo' = todo \ {listenfd}
      BY <1>1 DEF Accept, pool
    <2>2. Watched' = Watched
      BY <2>1 DEF Watched, Leaving
    <2>3. Ownership'
      BY <2>1, <2>2, <1>0 DEF Ownership
    <2> QED
      BY <2>1, <2>3 DEF MainInv
  <1>2. CASE acceptq # <<>> /\ Free # {}
    <2> DEFINE f == Min(Free)
    <2>1. f \in Fds /\ sock[f] = NULL
      BY <1>2, FreeMin
    <2>2. Head(acceptq) \in Conns /\ Head(acceptq) # NULL
      BY <1>2, HeadTail DEF TypeOK
    <2>3. /\ UNCHANGED <<pending, running, mpc, todo>> /\ mpc = "accept"
          /\ sock' = [sock EXCEPT ![f] = Head(acceptq)]
          /\ currentfds' = currentfds \cup {f}
          /\ maxfd' = IF f > maxfd THEN f ELSE maxfd
      BY <1>2 DEF Accept, pool
    <2> HIDE DEF f
    <2>4. Watched' = Watched \cup {f}
      BY <2>1, <2>3, FdFacts DEF Watched, Leaving
    <2>5. f \notin Watched /\ ~InPool(f)
      BY <2>1 DEF Ownership
    <2>6. \A g \in Fds : sock'[g] # NULL <=> (sock[g] # NULL \/ g = f)
      BY <2>1, <2>2, <2>3 DEF TypeOK
    <2>7. Ownership'
      BY <1>0, <2>3, <2>4, <2>5, <2>6 DEF Ownership
    <2>8. maxfd \in Nat /\ f \in Nat /\ \A g \in currentfds : g \in Nat
      BY <2>1, FdFacts DEF TypeOK
    <2>9. \A g \in currentfds' : g <= maxfd'
      BY <2>3, <2>8 DEF MainInv
    <2> QED
      BY <2>3, <2>7, <2>9 DEF MainInv
  <1> QED
    BY <1>1, <1>2

\* FD_CLR of the descriptor that the pool has by now, or has closed.
LEMMA ClearOwnership ==
    ASSUME TypeOK, Ownership, MainInv, Clear
    PROVE  Ownership' /\ MainInv'
  <1>1. /\ UNCHANGED <<sock, maxfd, pending, running>>
        /\ mpc = "clear" /\ mpc' = "scan"
        /\ currentfds' = currentfds \ {Min(todo)} /\ todo' = todo \ {Min(todo)}
    BY DEF Clear, pool
  <1>2. Watched' = Watched /\ \A g : InPool(g)' = InPool(g)
    BY <1>1 DEF Watched, Leaving, InPool
  <1>3. Ownership'
    BY <1>1, <1>2 DEF Ownership
  <1> QED
    BY <1>1, <1>3 DEF MainInv

\* dequeue_job: the descriptor goes from the queue to the worker.
LEMMA StartOwnership ==
    ASSUME TypeOK, Ownership, MainInv, NEW w \in Workers, StartJob(w)
    PROVE  Ownership' /\ MainInv'
  <1> DEFINE f == Head(pending)
  <1>1. /\ UNCHANGED <<sock, currentfds, todo, maxfd, mpc>>
        /\ pending # <<>> /\ running[w] = NULL
        /\ running' = [running EXCEPT ![w] = f] /\ pending' = Tail(pending)
    BY DEF StartJob, Pool!Start, main
  <1>2. /\ f \in Fds /\ f # NULL /\ f = pending[1] /\ Len(pending) \in Nat /\ Len(pending) > 0
        /\ Len(pending') = Len(pending) - 1
        /\ \A i \in 1 .. Len(pending') : pending'[i] = pending[i + 1] /\ i + 1 \in 1 .. Len(pending)
    BY <1>1, HeadTail DEF TypeOK
  <1> HIDE DEF f
  <1>3. /\ running'[w] = f /\ \A v \in Workers \ {w} : running'[v] = running[v]
    BY <1>1 DEF TypeOK
  <1>4. \A i \in 1 .. Len(pending') : pending'[i] # f
    BY <1>2 DEF Ownership
  <1>5. \A v \in Workers : running[v] # f
    BY <1>2 DEF Ownership
  <1>6. \A g \in Fds : InPool(g)' <=> InPool(g)
    <2> SUFFICES ASSUME NEW g \in Fds PROVE InPool(g)' <=> InPool(g)
      OBVIOUS
    <2>1. ASSUME InPool(g)' PROVE InPool(g)
      BY <2>1, <1>2, <1>3 DEF InPool
    <2>2. ASSUME InPool(g) PROVE InPool(g)'
      <3>1. CASE g = f
        BY <3>1, <1>3 DEF InPool
      <3>2. CASE g # f /\ \E k \in 1 .. Len(pending) : pending[k] = g
        <4>1. PICK k \in 1 .. Len(pending) : pending[k] = g
          BY <3>2
        <4>2. k # 1 /\ k - 1 \in 1 .. Len(pending') /\ pending'[k - 1] = pending[(k - 1) + 1]
          BY <3>2, <4>1, <1>2
        <4>3. pending'[k - 1] = g
          BY <4>1, <4>2
        <4> QED
          BY <4>2, <4>3 DEF InPool
      <3>3. CASE g # f /\ \E v \in Workers : running[v] = g
        <4>1. PICK v \in Workers : running[v] = g
          BY <3>3
        <4>2. v # w
          BY <4>1, <1>1
        <4> QED
          BY <4>1, <4>2, <1>3 DEF InPool
      <3> QED
        BY <2>2, <3>1, <3>2, <3>3 DEF InPool
    <2> QED
      BY <2>1, <2>2
  <1>7. Watched' = Watched /\ Watched \subseteq Fds
    BY <1>1 DEF Watched, Leaving, TypeOK
  <1>8. \A i, k \in 1 .. Len(pending') : pending'[i] = pending'[k] => i = k
    BY <1>2 DEF Ownership
  <1>9. \A u, v \in Workers : running'[u] = running'[v] /\ running'[u] # NULL => u = v
    BY <1>3, <1>5 DEF Ownership
  <1>10. \A v \in Workers, k \in 1 .. Len(pending') : running'[v] # pending'[k]
    BY <1>2, <1>3, <1>4 DEF Ownership
  <1>11. Ownership'
    BY <1>1, <1>6, <1>7, <1>8, <1>9, <1>10 DEF Ownership
  <1> QED
    BY <1>1, <1>11 DEF MainInv

\* close: the descriptor is free when its worker, the only owner, is done.
LEMMA CloseOwnership ==
    ASSUME TypeOK, Ownership, MainInv, NEW w \in Workers, CloseJob(w)
    PROVE  Ownership' /\ MainInv'
  <1> DEFINE f == running[w]
  <1>1. /\ UNCHANGED <<currentfds, todo, maxfd, mpc, pending>> /\ f # NULL
        /\ running' = [running EXCEPT ![w] = NULL] /\ sock' = [sock EXCEPT ![f] = NULL]
    BY DEF CloseJob, Pool!Finish, main
  <1>2. f \in Fds /\ \A v \in Workers \ {w} : running[v] # f
    BY <1>1 DEF TypeOK, Ownership
  <1>3. \A k \in 1 .. Len(pending) : pending[k] # f /\ pending[k] \in Fds
    BY ElementOfSeq DEF Ownership, TypeOK
  <1>4. running'[w] = NULL /\ \A v \in Workers \ {w} : running'[v] = running[v]
    BY <1>1 DEF TypeOK
  <1>5. \A g \in Fds : InPool(g)' <=> (InPool(g) /\ g # f)
    BY <1>1, <1>2, <1>3, <1>4 DEF InPool
  <1>6. Watched' = Watched /\ f \notin Watched /\ Watched \subseteq Fds
    <2>1. InPool(f)
      BY DEF InPool
    <2> QED
      BY <2>1, <1>1 DEF Watched, Leaving, Ownership, TypeOK
  <1> HIDE DEF f
  <1>7. \A g \in Fds : sock'[g] = IF g = f THEN NULL ELSE sock[g]
    BY <1>1, <1>2 DEF TypeOK
  <1>8. \A u, v \in Workers : running'[u] = running'[v] /\ running'[u] # NULL => u = v
    BY <1>4 DEF Ownership
  <1>9. \A v \in Workers, k \in 1 .. Len(pending') : running'[v] # pending'[k]
    BY <1>1, <1>3, <1>4 DEF Ownership
  <1>10. \A g \in Fds : sock'[g] # NULL <=> (g \in Watched' \/ InPool(g)')
    BY <1>5, <1>6, <1>7 DEF Ownership
  <1>11. Ownership'
    BY <1>1, <1>5, <1>6, <1>8, <1>9, <1>10 DEF Ownership
  <1> QED
    BY <1>1, <1>11 DEF MainInv

\* Every step keeps the ownership while the process lives.
LEMMA NextOwnership ==
    ASSUME TypeOK, Alive => Ownership /\ MainInv, Next, Alive'
    PROVE  Ownership' /\ MainInv'
  <1>0. Alive /\ Ownership /\ MainInv
    BY DEF Next, MainStep, Select, Scan, Accept, Clear, WorkerStep, StartJob, RecvHeader,
           RecvWord, SendHeader, SendPayload, CloseJob, Sigpipe, ClientStep, Connect,
           Send, SendPacket, Receive, Abort, Alive, main
  <1>1. CASE MainStep
    BY <1>0, <1>1, SelectOwnership, ScanOwnership, AcceptOwnership, ClearOwnership DEF MainStep
  <1>2. ASSUME NEW w \in Workers, WorkerStep(w) \/ Sigpipe(w)
        PROVE  Ownership' /\ MainInv'
    <2>1. CASE StartJob(w)
      BY <2>1, <1>0, StartOwnership
    <2>2. CASE CloseJob(w)
      BY <2>2, <1>0, CloseOwnership
    <2>3. CASE RecvHeader(w) \/ RecvWord(w) \/ SendHeader(w) \/ SendPayload(w)
      BY <2>3, <1>0, SameOwnership
         DEF RecvHeader, RecvWord, SendHeader, SendPayload, main, pool
    <2>4. ~Sigpipe(w)
      BY DEF Sigpipe, Alive
    <2> QED
      BY <1>2, <2>1, <2>2, <2>3, <2>4 DEF WorkerStep
  <1>3. ASSUME NEW c \in Clients, ClientStep(c) \/ Abort(c)
        PROVE  Ownership' /\ MainInv'
    BY <1>3, <1>0, SameOwnership
       DEF ClientStep, Connect, Send, SendPacket, Receive, Abort, main, pool
  <1> QED
    BY <1>1, <1>2, <1>3 DEF Next

-----------------------------------------------------------------------------
\* Workers and connections.

\* Steps that leave descriptors, jobs and the places of the workers alone.
LEMMA SameWorkers ==
    ASSUME WorkerInv, UNCHANGED <<sock, running, wpc>>
    PROVE  WorkerInv'
  BY DEF WorkerInv, Conn

\* A worker has a descriptor, and its connection, until it closes it.
LEMMA NextWorkers ==
    ASSUME TypeOK, Alive => Ownership, WorkerInv, Next
    PROVE  WorkerInv'
  <1>1. CASE MainStep
    <2>1. CASE Accept /\ acceptq # <<>> /\ Free # {}
      <3>1. Min(Free) \in Fds /\ Head(acceptq) # NULL
        BY <2>1, FreeMin, HeadTail DEF TypeOK
      <3>2. sock' = [sock EXCEPT ![Min(Free)] = Head(acceptq)] /\ UNCHANGED <<running, wpc>>
        BY <2>1 DEF Accept, pool, worker
      <3> QED
        BY <3>1, <3>2 DEF WorkerInv, Conn, TypeOK
    <2>2. CASE ~(Accept /\ acceptq # <<>> /\ Free # {})
      <3>1. UNCHANGED <<sock, running, wpc>>
        BY <1>1, <2>2 DEF MainStep, Select, Scan, Accept, Clear, Pool!Submit, pool, worker
      <3> QED
        BY <3>1, SameWorkers
    <2> QED
      BY <2>1, <2>2
  <1>2. ASSUME NEW w \in Workers, WorkerStep(w) \/ Sigpipe(w)
        PROVE  WorkerInv'
    <2>1. CASE StartJob(w)
      <3>1. Head(pending) \in Fds /\ Head(pending) = pending[1] /\ 1 \in 1 .. Len(pending)
        BY <2>1, HeadTail DEF StartJob, Pool!Start, TypeOK
      <3>2. sock[Head(pending)] # NULL
        BY <2>1, <3>1 DEF StartJob, Ownership, InPool
      <3>3. /\ UNCHANGED sock /\ running' = [running EXCEPT ![w] = Head(pending)]
            /\ wpc' = [wpc EXCEPT ![w] = "header"]
        BY <2>1 DEF StartJob, Pool!Start, WGoto
      <3> QED
        BY <3>1, <3>2, <3>3 DEF WorkerInv, Conn, TypeOK
    <2>2. CASE CloseJob(w)
      <3>1. running[w] \in Fds /\ \A v \in Workers \ {w} : running[v] # running[w]
        BY <2>2 DEF CloseJob, Pool!Finish, Ownership, TypeOK
      <3>2. /\ sock' = [sock EXCEPT ![running[w]] = NULL] /\ wpc' = [wpc EXCEPT ![w] = "idle"]
            /\ running' = [running EXCEPT ![w] = NULL]
        BY <2>2 DEF CloseJob, Pool!Finish, WGoto
      <3> QED
        BY <3>1, <3>2 DEF WorkerInv, Conn, TypeOK
    <2>3. CASE RecvHeader(w) \/ RecvWord(w) \/ SendHeader(w) \/ SendPayload(w)
      <3>1. /\ UNCHANGED <<sock, running>> /\ wpc[w] # "idle"
            /\ \E l \in {"word", "reply", "payload", "close"} : wpc' = [wpc EXCEPT ![w] = l]
        BY <2>3 DEF RecvHeader, RecvWord, SendHeader, SendPayload, WGoto, pool
      <3> QED
        BY <3>1 DEF WorkerInv, Conn, TypeOK
    <2>4. CASE Sigpipe(w)
      BY <2>4, SameWorkers DEF Sigpipe, pool, worker
    <2> QED
      BY <1>2, <2>1, <2>2, <2>3, <2>4 DEF WorkerStep
  <1>3. ASSUME NEW c \in Clients, ClientStep(c) \/ Abort(c)
        PROVE  WorkerInv'
    BY <1>3, SameWorkers DEF ClientStep, Connect, Send, SendPacket, Receive, Abort, pool, worker
  <1> QED
    BY <1>1, <1>2, <1>3 DEF Next

-----------------------------------------------------------------------------
\* Clients.

\* A connection is its client and the number of its request.
LEMMA ConnIs ==
    ASSUME TypeOK, NEW x \in Conns
    PROVE  /\ x[1] \in Clients /\ x[2] \in Nat /\ req[x[1]] \in Nat
           /\ \A c \in Clients : x = This(c) <=> (x[1] = c /\ x[2] = req[c])
  BY DEF TypeOK, Conns, This

\* What a step of client c changes, by kind of step.
LEMMA ClientEffect ==
    ASSUME TypeOK, NEW c \in Clients, ClientStep(c) \/ Abort(c)
    PROVE  /\ \A d \in Clients \ {c} : cpc'[d] = cpc[d] /\ req'[d] = req[d]
           /\ \A x \in Conns : x # This(c) =>
                 up'[x] = up[x] /\ eof'[x] = eof[x] /\ got'[x] = got[x]
           /\ UNCHANGED <<sock, running, wpc, query, down, shut, mpc, pending>>
  <1>1. /\ UNCHANGED <<sock, running, wpc, query, down, shut, mpc, pending>>
        /\ \E l : cpc' = [cpc EXCEPT ![c] = l]
        /\ UNCHANGED req \/ \E n : req' = [req EXCEPT ![c] = n]
        /\ UNCHANGED up \/ \E n : up' = [up EXCEPT ![This(c)] = n]
        /\ UNCHANGED eof \/ eof' = [eof EXCEPT ![This(c)] = TRUE]
        /\ UNCHANGED got \/ \E r : got' = [got EXCEPT ![This(c)] = r]
    <2>1. CASE Connect(c)
      BY <2>1 DEF Connect, CGoto, main, pool, worker, wire
    <2>2. CASE Send(c)
      BY <2>2 DEF Send, CGoto, main, pool, worker
    <2>3. CASE SendPacket(c)
      BY <2>3 DEF SendPacket, CGoto, main, pool, worker
    <2>4. CASE Receive(c)
      BY <2>4 DEF Receive, CGoto, main, pool, worker
    <2>5. CASE Abort(c)
      BY <2>5 DEF Abort, CGoto, main, pool, worker
    <2> QED
      BY <2>1, <2>2, <2>3, <2>4, <2>5 DEF ClientStep
  <1> HIDE DEF This
  <1> QED
    BY <1>1 DEF TypeOK

\* A client that has connected stays connected.
LEMMA BegunGrows ==
    ASSUME TypeOK, NEW c \in Clients, ClientStep(c) \/ Abort(c),
           NEW x \in Conns, Begun(x)
    PROVE  Begun(x)'
  <1>1. x[1] \in Clients /\ x[2] \in Nat /\ req[x[1]] \in Nat
    BY ConnIs
  <1>2. \/ UNCHANGED req /\ cpc'[c] # "connect"
        \/ req' = [req EXCEPT ![c] = @ + 1] /\ cpc[c] # "connect"
    BY DEF ClientStep, Connect, Send, SendPacket, Receive, Abort, CGoto, TypeOK
  <1>3. \A d \in Clients \ {c} : cpc'[d] = cpc[d] /\ req'[d] = req[d]
    BY ClientEffect
  <1>4. CASE x[1] # c
    BY <1>1, <1>3, <1>4 DEF Begun
  <1>5. CASE x[1] = c
    BY <1>1, <1>2, <1>5 DEF Begun, TypeOK
  <1> QED
    BY <1>4, <1>5

\* The client of the connection in hand is where the step leaves it.
LEMMA NextClient ==
    ASSUME TypeOK, ClientInv, NEW c \in Clients, ClientStep(c) \/ Abort(c)
    PROVE  ClientInv'
  <1> DEFINE y == This(c)
  <1> SUFFICES ASSUME NEW x \in Conns PROVE Progress(x)'
    BY DEF ClientInv
  <1>0. /\ x[1] \in Clients /\ x[2] \in Nat /\ req[x[1]] \in Nat /\ req[c] \in Nat
        /\ y \in Conns /\ y[1] = c /\ y[2] = req[c] /\ Progress(x) /\ Progress(y)
        /\ x = y <=> (x[1] = c /\ x[2] = req[c])
        /\ x = This(x[1]) <=> x[2] = req[x[1]]
        /\ x = This(x[1])' <=> x[2] = req'[x[1]]
    <2>1. y \in Conns /\ y[1] = c /\ y[2] = req[c] /\ req[c] \in Nat
      BY ThisConn DEF TypeOK
    <2>2. Progress(x) /\ Progress(y)
      BY <2>1 DEF ClientInv
    <2>3. x = This(x[1])' <=> x[2] = req'[x[1]]
      BY DEF This, Conns
    <2> QED
      BY <2>1, <2>2, <2>3, ConnIs
  <1>1. CASE x[1] # c
    <2>1. /\ cpc'[x[1]] = cpc[x[1]] /\ req'[x[1]] = req[x[1]]
          /\ up'[x] = up[x] /\ eof'[x] = eof[x] /\ got'[x] = got[x]
      BY <1>1, <1>0, ClientEffect
    <2> QED
      BY <1>0, <2>1 DEF Progress, Begun
  <1>2. CASE x[1] = c /\ x # y
    <2>1. up'[x] = up[x] /\ eof'[x] = eof[x] /\ got'[x] = got[x] /\ x[2] # req[c]
      BY <1>2, <1>0, ClientEffect
    <2>2. CASE UNCHANGED req
      BY <1>2, <1>0, <2>1, <2>2 DEF Progress, Begun
    <2>3. CASE req' = [req EXCEPT ![c] = @ + 1] /\ cpc'[c] = "connect"
      <3>1. req'[c] = req[c] + 1
        BY <2>3 DEF TypeOK
      <3> QED
        BY <1>2, <1>0, <2>1, <2>3, <3>1 DEF Progress, Begun
    <2> QED
      BY <2>2, <2>3 DEF ClientStep, Connect, Send, SendPacket, Receive, Abort, CGoto, TypeOK
  <1>3. CASE x = y
    <2> DEFINE here == x = This(x[1]) /\ x[2] = req[c] /\ x[1] = c
    <2>0. here
      BY <1>3, <1>0
    <2> HIDE DEF y
    <2>1. CASE Connect(c)
      <3>1. /\ UNCHANGED <<req, up, eof, got>> /\ cpc[c] = "connect" /\ cpc'[c] = "send"
        BY <2>1 DEF Connect, CGoto, wire, TypeOK
      <3> QED
        BY <1>0, <2>0, <3>1 DEF Progress, Begun
    <2>2. CASE Send(c)
      <3>1. /\ UNCHANGED <<req, eof, got>> /\ cpc[c] = "send" /\ up'[x] = up[x] + 1
            /\ cpc'[c] = IF up[x] = 1 THEN "recv" ELSE "send"
        BY <2>2, <1>3 DEF Send, CGoto, TypeOK, y
      <3>2. up[x] \in 0 .. 2
        BY DEF TypeOK
      <3> QED
        BY <1>0, <2>0, <3>1, <3>2 DEF Progress, Begun
    <2>3. CASE SendPacket(c)
      <3>1. /\ UNCHANGED <<req, eof, got>> /\ cpc[c] = "send" /\ up'[x] = 2
            /\ cpc'[c] = "recv"
        BY <2>3, <1>3 DEF SendPacket, CGoto, TypeOK, y
      <3> QED
        BY <1>0, <2>0, <3>1 DEF Progress, Begun
    <2>4. CASE Receive(c)
      <3>1. /\ UNCHANGED up /\ cpc[c] = "recv"
            /\ \/ cpc'[c] = "connect" /\ req'[c] = req[c] + 1
               \/ cpc'[c] = "done" /\ req'[c] = req[c]
        BY <2>4 DEF Receive, CGoto, TypeOK
      <3>2. up[x] = 2
        BY <1>0, <2>0, <3>1 DEF Progress
      <3> QED
        BY <1>0, <2>0, <3>1, <3>2 DEF Progress, Begun
    <2>5. CASE Abort(c)
      <3>1. /\ UNCHANGED <<up, req, got>> /\ cpc[c] # "connect" /\ cpc'[c] = "gone"
        BY <2>5 DEF Abort, CGoto, TypeOK
      <3> QED
        BY <1>0, <2>0, <3>1 DEF Progress, Begun
    <2> QED
      BY <2>1, <2>2, <2>3, <2>4, <2>5 DEF ClientStep
  <1> QED
    BY <1>1, <1>2, <1>3

-----------------------------------------------------------------------------
\* Connections.

\* Steps after which the same connections wait, are open and are shut.
LEMMA SameConns ==
    ASSUME TypeOK, ConnInv, UNCHANGED <<sock, acceptq, shut>>,
           \A x \in Conns : Begun(x) => Begun(x)'
    PROVE  ConnInv'
  <1>1. \A f \in Fds : sock[f] # NULL => sock[f] \in Conns
    BY DEF TypeOK
  <1>2. \A k \in 1 .. Len(acceptq) : acceptq[k] \in Conns
    BY ElementOfSeq DEF TypeOK
  <1> QED
    BY <1>1, <1>2 DEF ConnInv

\* accept: the first connection that waits gets a descriptor of its own.
LEMMA AcceptConns ==
    ASSUME TypeOK, ConnInv, Accept
    PROVE  ConnInv'
  <1>0. UNCHANGED <<shut, cpc, req>> /\ \A x : Begun(x)' = Begun(x)
    BY DEF Accept, wire, client, Begun
  <1>1. CASE acceptq = <<>> \/ Free = {}
    BY <1>0, <1>1, SameConns DEF Accept
  <1>2. CASE acceptq # <<>> /\ Free # {}
    <2> DEFINE f == Min(Free)
               y == Head(acceptq)
    <2>1. f \in Fds /\ sock[f] = NULL
      BY <1>2, FreeMin
    <2>2. /\ y = acceptq[1] /\ Len(acceptq) \in Nat /\ Len(acceptq) > 0
          /\ Len(Tail(acceptq)) = Len(acceptq) - 1
          /\ \A i \in 1 .. Len(Tail(acceptq)) :
                Tail(acceptq)[i] = acceptq[i + 1] /\ i + 1 \in 1 .. Len(acceptq)
      BY <1>2, HeadTail DEF TypeOK
    <2>3. sock' = [sock EXCEPT ![f] = y] /\ acceptq' = Tail(acceptq)
      BY <1>2 DEF Accept
    <2> HIDE DEF f, y
    <2>4. \A g \in Fds : sock'[g] = IF g = f THEN y ELSE sock[g]
      BY <2>1, <2>3 DEF TypeOK
    <2>5. \A g \in Fds : sock[g] # y
      BY <2>2 DEF ConnInv
    <2>6. Begun(y) /\ ~shut[y]
      BY <2>2 DEF ConnInv
    <2>7. \A g, h \in Fds : sock'[g] = sock'[h] /\ sock'[g] # NULL => g = h
      BY <2>4, <2>5 DEF ConnInv
    <2>8. \A i, k \in 1 .. Len(acceptq') : acceptq'[i] = acceptq'[k] => i = k
      BY <2>2, <2>3 DEF ConnInv
    <2>9. \A k \in 1 .. Len(acceptq') : acceptq'[k] # y
      BY <2>2, <2>3 DEF ConnInv
    <2>10. \A g \in Fds, k \in 1 .. Len(acceptq') : sock'[g] # acceptq'[k]
      BY <2>2, <2>3, <2>4, <2>9 DEF ConnInv
    <2>11. \A g \in Fds : sock'[g] # NULL => Begun(sock'[g]) /\ ~shut[sock'[g]]
      BY <2>4, <2>6 DEF ConnInv
    <2>12. \A k \in 1 .. Len(acceptq') : Begun(acceptq'[k]) /\ ~shut[acceptq'[k]]
      BY <2>2, <2>3 DEF ConnInv
    <2>13. (\A g \in Fds : sock[g] # NULL => Begun(sock[g]) /\ ~shut[sock[g]])'
      BY <1>0, <2>11
    <2>14. (\A k \in 1 .. Len(acceptq) : Begun(acceptq[k]) /\ ~shut[acceptq[k]])'
      BY <1>0, <2>12
    <2> QED
      BY <1>0, <2>7, <2>8, <2>10, <2>13, <2>14 DEF ConnInv
  <1> QED
    BY <1>1, <1>2

\* connect: a new connection waits.
LEMMA ConnectConns ==
    ASSUME TypeOK, ConnInv, NEW c \in Clients, Connect(c)
    PROVE  ConnInv'
  <1>0. PICK y \in Conns : y = This(c)
    BY ThisConn
  <1>1. y[1] = c /\ y[2] = req[c] /\ req[c] \in Nat
    BY <1>0, ThisConn DEF TypeOK
  <1>2. /\ UNCHANGED <<sock, shut, req>> /\ cpc[c] = "connect" /\ cpc'[c] = "send"
        /\ acceptq' = Append(acceptq, y)
    BY <1>0 DEF Connect, CGoto, wire, TypeOK
  <1>3. ~Begun(y) /\ Begun(y)'
    BY <1>1, <1>2 DEF Begun
  <1>4. \A x \in Conns : Begun(x) => Begun(x)'
    BY BegunGrows DEF ClientStep
  <1>5. /\ Len(acceptq) \in Nat /\ Len(acceptq') = Len(acceptq) + 1
        /\ \A k \in 1 .. Len(acceptq) : acceptq'[k] = acceptq[k] /\ acceptq[k] \in Conns
        /\ acceptq'[Len(acceptq) + 1] = y
    BY <1>1, <1>2, AppendProperties, LenProperties, ElementOfSeq DEF TypeOK
  <1>6. \A f \in Fds : sock[f] # NULL => sock[f] \in Conns
    BY DEF TypeOK
  <1>7. y # NULL /\ ~shut[y] /\ \A f \in Fds : sock[f] # y
    BY <1>1, <1>3 DEF ConnInv
  <1>8. \A k \in 1 .. Len(acceptq) : acceptq[k] # y
    BY <1>3 DEF ConnInv
  <1>9. \A i, k \in 1 .. Len(acceptq') : acceptq'[i] = acceptq'[k] => i = k
    BY <1>5, <1>8 DEF ConnInv
  <1>10. \A f \in Fds, k \in 1 .. Len(acceptq') : sock'[f] # acceptq'[k]
    BY <1>2, <1>5, <1>7 DEF ConnInv
  <1>11. (\A f \in Fds : sock[f] # NULL => Begun(sock[f]) /\ ~shut[sock[f]])'
    BY <1>2, <1>4, <1>6 DEF ConnInv
  <1>12. (\A k \in 1 .. Len(acceptq) : Begun(acceptq[k]) /\ ~shut[acceptq[k]])'
    <2> SUFFICES ASSUME NEW k \in 1 .. Len(acceptq')
                 PROVE  (Begun(acceptq[k]) /\ ~shut[acceptq[k]])'
      OBVIOUS
    <2>1. CASE k \in 1 .. Len(acceptq)
      <3>1. PICK x \in Conns : x = acceptq[k] /\ x = acceptq'[k]
        BY <2>1, <1>5
      <3>2. Begun(x)' /\ ~shut'[x]
        BY <2>1, <3>1, <1>2, <1>4 DEF ConnInv
      <3> QED
        BY <3>1, <3>2
    <2>2. CASE k = Len(acceptq) + 1
      <3>1. acceptq'[k] = y
        BY <2>2, <1>5
      <3> QED
        BY <3>1, <1>2, <1>3, <1>7
    <2> QED
      BY <2>1, <2>2, <1>5
  <1> QED
    BY <1>2, <1>4, <1>9, <1>10, <1>11, <1>12 DEF ConnInv

\* close: the connection is shut and on no descriptor any more.
LEMMA CloseConns ==
    ASSUME TypeOK, WorkerInv, ConnInv, NEW w \in Workers, CloseJob(w)
    PROVE  ConnInv'
  <1>0. PICK f \in Fds, y \in Conns : f = running[w] /\ y = Conn(w)
    BY DEF CloseJob, WorkerInv, Conn, TypeOK
  <1>1. y = sock[f]
    BY <1>0 DEF Conn
  <1>2. /\ UNCHANGED <<acceptq, cpc, req>> /\ sock' = [sock EXCEPT ![f] = NULL]
        /\ shut' = [x \in Conns |-> shut[x] \/ x = y]
    BY <1>0 DEF CloseJob, client
  <1>3. \A x : Begun(x)' = Begun(x)
    BY <1>2 DEF Begun
  <1>4. \A g \in Fds : sock'[g] = IF g = f THEN NULL ELSE sock[g]
    BY <1>1, <1>2 DEF TypeOK
  <1>5. /\ \A g \in Fds \ {f} : sock[g] # y
        /\ \A k \in 1 .. Len(acceptq) : acceptq[k] # y
        /\ Begun(y)
    BY <1>1 DEF ConnInv
  <1>6. /\ \A g \in Fds : sock[g] # NULL => sock[g] \in Conns
        /\ \A k \in 1 .. Len(acceptq) : acceptq[k] \in Conns
        /\ NULL \notin Conns
    BY ElementOfSeq DEF TypeOK
  <1>7. \A g, h \in Fds : sock'[g] = sock'[h] /\ sock'[g] # NULL => g = h
    BY <1>4 DEF ConnInv
  <1>8. \A g \in Fds, k \in 1 .. Len(acceptq') : sock'[g] # acceptq'[k]
    BY <1>2, <1>4, <1>6 DEF ConnInv
  <1>9. (\A g \in Fds : sock[g] # NULL => Begun(sock[g]) /\ ~shut[sock[g]])'
    <2> SUFFICES ASSUME NEW g \in Fds, sock'[g] # NULL
                 PROVE  (Begun(sock[g]) /\ ~shut[sock[g]])'
      OBVIOUS
    <2>1. PICK x \in Conns : x = sock[g] /\ x = sock'[g] /\ x # y
      BY <1>4, <1>5, <1>6
    <2>2. Begun(x) /\ ~shut[x]
      BY <2>1, <1>6 DEF ConnInv
    <2> QED
      BY <2>1, <2>2, <1>2, <1>3
  <1>10. (\A k \in 1 .. Len(acceptq) : Begun(acceptq[k]) /\ ~shut[acceptq[k]])'
    BY <1>2, <1>3, <1>5, <1>6 DEF ConnInv
  <1>11. (\A x \in Conns : shut[x] => Begun(x))'
    BY <1>2, <1>3, <1>5 DEF ConnInv
  <1> QED
    BY <1>2, <1>7, <1>8, <1>9, <1>10, <1>11 DEF ConnInv

\* No step puts a connection in two places.
LEMMA NextConns ==
    ASSUME TypeOK, WorkerInv, ConnInv, Next
    PROVE  ConnInv'
  <1>1. CASE Accept
    BY <1>1, AcceptConns
  <1>2. ASSUME NEW c \in Clients, ClientStep(c) \/ Abort(c) PROVE ConnInv'
    <2>1. CASE Connect(c)
      BY <2>1, ConnectConns
    <2>2. CASE ~Connect(c)
      <3>1. UNCHANGED <<sock, acceptq, shut>>
        BY <1>2, <2>2 DEF ClientStep, Send, SendPacket, Receive, Abort
      <3>2. \A x \in Conns : Begun(x) => Begun(x)'
        BY <1>2, BegunGrows
      <3> QED
        BY <3>1, <3>2, SameConns
    <2> QED
      BY <2>1, <2>2
  <1>3. ASSUME NEW w \in Workers, WorkerStep(w) \/ Sigpipe(w) PROVE ConnInv'
    <2>1. CASE CloseJob(w)
      BY <2>1, CloseConns
    <2>2. CASE ~CloseJob(w)
      <3>1. UNCHANGED <<sock, acceptq, shut, cpc, req>>
        BY <1>3, <2>2 DEF WorkerStep, StartJob, RecvHeader, RecvWord, SendHeader,
           SendPayload, Sigpipe, wire, client
      <3> QED
        BY <3>1, SameConns DEF Begun
    <2> QED
      BY <2>1, <2>2
  <1>4. CASE Select \/ Scan \/ Clear
    <2>1. UNCHANGED <<sock, acceptq, shut, cpc, req>>
      BY <1>4 DEF Select, Scan, Clear, wire, client
    <2> QED
      BY <2>1, SameConns DEF Begun
  <1> QED
    BY <1>1, <1>2, <1>3, <1>4 DEF Next, MainStep

-----------------------------------------------------------------------------
\* Replies.

\* No two workers have the same connection.
LEMMA ServedAlone ==
    ASSUME TypeOK, Ownership, WorkerInv, ConnInv, NEW v \in Workers, NEW w \in Workers,
           running[v] # NULL, running[w] # NULL, Conn(v) = Conn(w)
    PROVE  v = w
  <1>1. running[v] \in Fds /\ running[w] \in Fds /\ Conn(v) # NULL
    BY DEF TypeOK, WorkerInv
  <1>2. running[v] = running[w]
    BY <1>1 DEF ConnInv, Conn
  <1> QED
    BY <1>1, <1>2 DEF Ownership

\* The reply owed to a connection depends on its request alone.
LEMMA SameOwed ==
    ASSUME NEW x, up'[x] = up[x], eof[x] => eof'[x]
    PROVE  Owed(x)' = Owed(x) /\ Asked(x)' = Asked(x) /\ (Settled(x) => Settled(x)')
  BY DEF Owed, Asked, Settled

\* A worker that a step does not concern has written what it should have.
LEMMA SameWritten ==
    ASSUME NEW v \in Workers, Written(v), wpc'[v] = wpc[v], query'[v] = query[v], NEW x,
           wpc[v] # "idle" => /\ x = Conn(v) /\ x = Conn(v)' /\ up'[x] = up[x]
                              /\ eof[x] => eof'[x]
                              /\ down'[x] = down[x]
    PROVE  Written(v)'
  <1>1. CASE wpc[v] = "idle"
    BY <1>1 DEF Written
  <1>2. CASE wpc[v] # "idle"
    <2>1. Owed(x)' = Owed(x) /\ Asked(x)' = Asked(x) /\ (Settled(x) => Settled(x)')
      BY <1>2, SameOwed
    <2>2. /\ wpc'[v] \in {"header", "word", "reply"} => down'[x] = <<>>
          /\ wpc'[v] = "word" => up'[x] > 0
          /\ wpc'[v] \in {"reply", "payload"} =>
                up'[x] > 0 /\ Settled(x)' /\ query'[v] = Asked(x)'
          /\ wpc'[v] = "payload" => down'[x] = <<"RESPONSE">> /\ query'[v] \in Index
          /\ wpc'[v] = "close" => down'[x] = Owed(x)' /\ Settled(x)'
      BY <1>2, <2>1 DEF Written
    <2> QED
      BY <1>2, <2>2 DEF Written
  <1> QED
    BY <1>1, <1>2

\* Steps that write no part of a request or a reply.
LEMMA SameReplies ==
    ASSUME TypeOK, WorkerInv, ReplyInv, UNCHANGED <<running, wpc, query, up, down, shut>>,
           \A w \in Workers : running[w] # NULL => Conn(w)' = Conn(w),
           \A x \in Conns : eof[x] => eof'[x],
           \A x \in Conns : got'[x] # NULL /\ Alive' => got'[x] = Owed(x)
    PROVE  ReplyInv'
  <1>1. \A x \in Conns : Owed(x)' = Owed(x) /\ (Settled(x) => Settled(x)')
    BY SameOwed
  <1>2. ASSUME NEW w \in Workers PROVE Written(w)'
    <2>1. Written(w)
      BY DEF ReplyInv
    <2>2. wpc[w] # "idle" => running[w] # NULL /\ Conn(w) \in Conns
      BY DEF WorkerInv, TypeOK, Conn
    <2>3. PICK x : x = Conn(w)
      OBVIOUS
    <2> QED
      BY <2>1, <2>2, <2>3, SameWritten
  <1>3. (\A x \in Conns : shut[x] => down[x] = Owed(x) /\ Settled(x))'
    BY <1>1 DEF ReplyInv
  <1>4. (\A x \in Conns : down[x] # <<>> /\ ~shut[x] => Served(x))'
    BY DEF ReplyInv, Served
  <1>5. (\A x \in Conns : got[x] # NULL /\ Alive => got[x] = Owed(x))'
    BY <1>1
  <1> QED
    BY <1>2, <1>3, <1>4, <1>5 DEF ReplyInv

\* main writes nothing; accept gives a worker's descriptor to nobody.
LEMMA MainReplies ==
    ASSUME TypeOK, WorkerInv, ReplyInv, MainStep
    PROVE  ReplyInv'
  <1>1. /\ UNCHANGED <<running, wpc, query, up, eof, down, shut, got>>
        /\ Alive' => Alive
    BY DEF MainStep, Select, Scan, Accept, Clear, Pool!Submit, Alive, pool, worker, wire, client
  <1>2. ASSUME NEW w \in Workers, running[w] # NULL PROVE Conn(w)' = Conn(w)
    <2>1. running[w] \in Fds /\ sock[running[w]] # NULL
      BY <1>2 DEF TypeOK, WorkerInv, Conn
    <2>2. CASE Accept /\ acceptq # <<>> /\ Free # {}
      <3>1. Min(Free) \in Fds /\ sock[Min(Free)] = NULL
        BY <2>2, FreeMin
      <3>2. sock' = [sock EXCEPT ![Min(Free)] = Head(acceptq)]
        BY <2>2 DEF Accept
      <3> QED
        BY <1>1, <2>1, <3>1, <3>2 DEF Conn, TypeOK
    <2>3. CASE ~(Accept /\ acceptq # <<>> /\ Free # {})
      BY <2>3, <1>1 DEF MainStep, Select, Scan, Accept, Clear, Conn
    <2> QED
      BY <2>2, <2>3
  <1>3. \A x \in Conns : got'[x] # NULL /\ Alive' => got'[x] = Owed(x)
    BY <1>1 DEF ReplyInv
  <1> QED
    BY <1>1, <1>2, <1>3, SameReplies

\* A part of a request arrives: nobody has begun the reply.
LEMMA SendReplies ==
    ASSUME TypeOK, WorkerInv, ConnInv, ClientInv, ReplyInv,
           NEW c \in Clients, Send(c) \/ SendPacket(c)
    PROVE  ReplyInv'
  <1>1. PICK y \in Conns : y = This(c)
    BY ThisConn
  <1>2. /\ UNCHANGED <<sock, running, wpc, query, eof, down, shut, got, mpc>>
        /\ \A x \in Conns : x # y => up'[x] = up[x]
        /\ cpc[c] = "send"
    BY <1>1, ClientEffect DEF ClientStep, Send, SendPacket
  <1>3. up[y] < 2 /\ up'[y] > 0 /\ ~eof[y]
    <2>1. y[1] = c /\ y = This(y[1])
      BY <1>1, ThisConn
    <2>2. up[y] < 2 /\ ~eof[y]
      BY <1>2, <2>1 DEF ClientInv, Progress
    <2>3. up'[y] = up[y] + 1 \/ up'[y] = 2
      BY <1>1 DEF Send, SendPacket, TypeOK
    <2>4. up[y] \in 0 .. 2
      BY DEF TypeOK
    <2> QED
      BY <2>2, <2>3, <2>4
  <1>4. ~Settled(y) /\ ~shut[y] /\ got[y] = NULL
    <2>1. ~Settled(y)
      BY <1>3 DEF Settled
    <2>2. up[y] # 2
      BY <1>3
    <2> QED
      BY <2>1, <2>2 DEF ReplyInv, ClientInv, Progress
  <1>5. \A w \in Workers : Conn(w)' = Conn(w)
    BY <1>2 DEF Conn
  <1>6. \A x \in Conns : x # y => Owed(x)' = Owed(x) /\ (Settled(x) => Settled(x)')
    BY <1>2, SameOwed
  <1>7. ASSUME NEW w \in Workers PROVE Written(w)'
    <2>1. Written(w)
      BY DEF ReplyInv
    <2>2. wpc[w] # "idle" => running[w] # NULL /\ Conn(w) \in Conns
      BY DEF WorkerInv, TypeOK, Conn
    <2>3. PICK x : x = Conn(w)
      OBVIOUS
    <2>4. CASE wpc[w] = "idle" \/ x # y
      BY <1>2, <1>5, <2>1, <2>2, <2>3, <2>4, SameWritten
    <2>5. CASE x = y
      <3>1. wpc[w] \in {"idle", "header", "word"}
        BY <2>1, <2>3, <2>5, <1>4 DEF Written, TypeOK
      <3>2. wpc'[w] = "word" => up'[y] > 0
        BY <1>3
      <3>3. wpc'[w] \in {"header", "word"} => down'[y] = <<>>
        BY <1>2, <2>1, <2>3, <2>5 DEF Written
      <3>4. y = Conn(w)'
        BY <1>5, <2>3, <2>5
      <3>5. wpc'[w] \in {"idle", "header", "word"}
        BY <1>2, <3>1
      <3> QED
        BY <3>2, <3>3, <3>4, <3>5 DEF Written
    <2> QED
      BY <2>4, <2>5
  <1>8. (\A x \in Conns : shut[x] => down[x] = Owed(x) /\ Settled(x))'
    BY <1>2, <1>4, <1>6 DEF ReplyInv
  <1>9. (\A x \in Conns : down[x] # <<>> /\ ~shut[x] => Served(x))'
    BY <1>2, <1>5 DEF ReplyInv, Served
  <1>10. (\A x \in Conns : got[x] # NULL /\ Alive => got[x] = Owed(x))'
    BY <1>2, <1>4, <1>6 DEF ReplyInv, Alive
  <1> QED
    BY <1>7, <1>8, <1>9, <1>10 DEF ReplyInv

\* The client takes the reply of its worker once it is whole, and no other.
LEMMA ReceiveReplies ==
    ASSUME TypeOK, WorkerInv, ClientInv, ReplyInv, NEW c \in Clients, Receive(c)
    PROVE  ReplyInv'
  <1>1. PICK y \in Conns : y = This(c) /\ y[1] = c
    BY ThisConn
  <1> DEFINE whole == down[y] # <<>> /\ (down[y][1] = "RESPONSE" => Len(down[y]) = 2)
  <1>2. /\ UNCHANGED <<sock, running, wpc, query, up, down, shut, mpc>>
        /\ \A x \in Conns : eof[x] => eof'[x]
        /\ \A x \in Conns : x # y => got'[x] = got[x]
        /\ got'[y] = IF whole THEN down[y] ELSE <<>>
        /\ whole \/ shut[y] \/ ~Alive
        /\ cpc[c] = "recv"
    BY <1>1 DEF Receive, CGoto, TypeOK, main, pool, worker
  <1>3. up[y] = 2
    BY <1>1, <1>2 DEF ClientInv, Progress
  <1>4. shut[y] => whole /\ down[y] = Owed(y)
    <2> SUFFICES ASSUME shut[y] PROVE whole /\ down[y] = Owed(y)
      OBVIOUS
    <2>1. down[y] = Owed(y)
      BY DEF ReplyInv
    <2>2. down[y] = <<"RESPONSE", Query[y]>> \/ down[y] = <<"ERROR">>
      BY <1>3, <2>1 DEF Owed
    <2> QED
      BY <2>1, <2>2
  <1>5. whole => down[y] = Owed(y)
    <2> SUFFICES ASSUME whole, ~shut[y] PROVE down[y] = Owed(y)
      BY <1>4
    <2>1. PICK w \in Workers : running[w] # NULL /\ Conn(w) = y
      BY DEF ReplyInv, Served
    <2>2. wpc[w] \in {"header", "word", "reply", "payload", "close"} /\ Written(w)
      BY <2>1 DEF WorkerInv, TypeOK, ReplyInv
    <2>3. wpc[w] \notin {"header", "word", "reply"}
      BY <2>1, <2>2 DEF Written
    <2>4. wpc[w] # "payload"
      <3>1. ASSUME down[y] = <<"RESPONSE">> PROVE FALSE
        BY <3>1
      <3> QED
        BY <2>1, <2>2, <3>1 DEF Written
    <2> QED
      BY <2>1, <2>2, <2>3, <2>4 DEF Written
  <1>6. \A x \in Conns : got'[x] # NULL /\ Alive' => got'[x] = Owed(x)
    <2> HIDE DEF whole
    <2> QED
      BY <1>2, <1>4, <1>5 DEF ReplyInv, Alive
  <1>7. \A w \in Workers : Conn(w)' = Conn(w)
    BY <1>2 DEF Conn
  <1> QED
    BY <1>2, <1>6, <1>7, SameReplies

\* connect and the end of a client write nothing.
LEMMA QuietReplies ==
    ASSUME TypeOK, WorkerInv, ReplyInv, NEW c \in Clients, Connect(c) \/ Abort(c)
    PROVE  ReplyInv'
  <1>1. /\ UNCHANGED <<sock, running, wpc, query, up, down, shut, mpc, got>>
        /\ \A x \in Conns : eof[x] => eof'[x]
    BY DEF Connect, Abort, TypeOK, main, pool, worker, wire
  <1>2. \A w \in Workers : Conn(w)' = Conn(w)
    BY <1>1 DEF Conn
  <1>3. \A x \in Conns : got'[x] # NULL /\ Alive' => got'[x] = Owed(x)
    BY <1>1 DEF ReplyInv, Alive
  <1> QED
    BY <1>1, <1>2, <1>3, SameReplies

\* A step of one worker inside thread_job concerns its connection only.
LEMMA OneWriter ==
    ASSUME TypeOK, Ownership, WorkerInv, ConnInv, ReplyInv,
           NEW w \in Workers, NEW y \in Conns, y = Conn(w), wpc[w] # "idle",
           UNCHANGED <<sock, running, up, eof, shut, got, mpc>>,
           \A v \in Workers \ {w} : wpc'[v] = wpc[v] /\ query'[v] = query[v],
           \A x \in Conns : x # y => down'[x] = down[x],
           Written(w)'
    PROVE  ReplyInv'
  <1>1. running[w] # NULL /\ running[w] \in Fds /\ ~shut[y]
    BY DEF WorkerInv, TypeOK, ConnInv, Conn
  <1>2. \A v \in Workers : Conn(v)' = Conn(v)
    BY DEF Conn
  <1>3. \A x \in Conns : Owed(x)' = Owed(x) /\ (Settled(x) => Settled(x)')
    BY SameOwed
  <1>4. ASSUME NEW v \in Workers \ {w} PROVE Written(v)'
    <2>1. Written(v)
      BY DEF ReplyInv
    <2>2. PICK x : x = Conn(v)
      OBVIOUS
    <2>3. wpc[v] # "idle" => x \in Conns /\ x # y
      <3> SUFFICES ASSUME wpc[v] # "idle" PROVE x \in Conns /\ x # y
        OBVIOUS
      <3>1. running[v] # NULL /\ Conn(v) \in Conns
        BY DEF WorkerInv, TypeOK, Conn
      <3> QED
        BY <1>1, <2>2, <3>1, ServedAlone
    <2> QED
      BY <1>2, <2>1, <2>2, <2>3, SameWritten
  <1>5. (\A x \in Conns : shut[x] => down[x] = Owed(x) /\ Settled(x))'
    BY <1>1, <1>3 DEF ReplyInv
  <1>6. (\A x \in Conns : down[x] # <<>> /\ ~shut[x] => Served(x))'
    BY <1>1, <1>2 DEF ReplyInv, Served
  <1>7. (\A x \in Conns : got[x] # NULL /\ Alive => got[x] = Owed(x))'
    BY <1>3 DEF ReplyInv, Alive
  <1> QED
    BY <1>4, <1>5, <1>6, <1>7 DEF ReplyInv

\* thread_job from the header of the request to the last part of the reply.
LEMMA JobReplies ==
    ASSUME TypeOK, Ownership, WorkerInv, ConnInv, ReplyInv, NEW w \in Workers,
           RecvHeader(w) \/ RecvWord(w) \/ SendHeader(w) \/ SendPayload(w)
    PROVE  ReplyInv'
  <1>0. wpc[w] # "idle" /\ Written(w) /\ UNCHANGED <<sock, running, up, eof, shut, got, mpc>>
    BY DEF RecvHeader, RecvWord, SendHeader, SendPayload, ReplyInv, main, pool, wire, client
  <1>1. PICK y \in Conns : y = Conn(w)
    BY <1>0 DEF WorkerInv, TypeOK, Conn
  <1>2. y = Conn(w)'
    BY <1>0, <1>1 DEF Conn
  <1>3. Owed(y)' = Owed(y) /\ Asked(y)' = Asked(y) /\ Settled(y)' = Settled(y)
    BY <1>0 DEF Owed, Asked, Settled
  <1>4. up[y] \in 0 .. 2 /\ eof[y] \in BOOLEAN
    BY DEF TypeOK
  <1>5. CASE RecvHeader(w)
    <2>1. /\ UNCHANGED <<query, down>> /\ wpc[w] = "header" /\ (up[y] >= 1 \/ eof[y])
          /\ wpc' = [wpc EXCEPT ![w] = IF up[y] > 0 THEN "word" ELSE "close"]
      BY <1>1, <1>5 DEF RecvHeader, WGoto, recv_from_host, wire
    <2>2. down[y] = <<>>
      BY <1>0, <1>1, <2>1 DEF Written
    <2>3. up[y] = 0 => Owed(y) = <<>> /\ Settled(y)
      BY <1>4, <2>1 DEF Owed, Settled
    <2>4. Written(w)'
      BY <1>0, <1>2, <1>3, <1>4, <2>1, <2>2, <2>3 DEF Written, TypeOK
    <2>5. \A v \in Workers \ {w} : wpc'[v] = wpc[v] /\ query'[v] = query[v]
      BY <2>1 DEF TypeOK
    <2> QED
      BY <1>0, <1>1, <2>1, <2>4, <2>5, OneWriter
  <1>6. CASE RecvWord(w)
    <2>1. /\ UNCHANGED down /\ wpc[w] = "word" /\ (up[y] >= 2 \/ eof[y])
          /\ wpc' = [wpc EXCEPT ![w] = "reply"] /\ query' = [query EXCEPT ![w] = Asked(y)]
      BY <1>1, <1>6 DEF RecvWord, WGoto, recv_from_host, wire, Asked
    <2>2. down[y] = <<>> /\ up[y] > 0
      BY <1>0, <1>1, <2>1 DEF Written
    <2>3. Settled(y)
      BY <1>4, <2>1 DEF Settled
    <2>4. wpc'[w] = "reply" /\ query'[w] = Asked(y)
      BY <2>1 DEF TypeOK
    <2>5. Written(w)'
      BY <1>0, <1>2, <1>3, <2>1, <2>2, <2>3, <2>4 DEF Written
    <2>6. \A v \in Workers \ {w} : wpc'[v] = wpc[v] /\ query'[v] = query[v]
      BY <2>1 DEF TypeOK
    <2> QED
      BY <1>0, <1>1, <2>1, <2>5, <2>6, OneWriter
  <1>7. CASE SendHeader(w)
    <2>1. /\ UNCHANGED query /\ wpc[w] = "reply"
          /\ IF query[w] \in Index
             THEN /\ down' = [down EXCEPT ![y] = Append(@, "RESPONSE")]
                  /\ wpc' = [wpc EXCEPT ![w] = "payload"]
             ELSE /\ down' = [down EXCEPT ![y] = Append(@, "ERROR")]
                  /\ wpc' = [wpc EXCEPT ![w] = "close"]
      BY <1>1, <1>7 DEF SendHeader, WGoto, send_to_host
    <2>2. down[y] = <<>> /\ up[y] > 0 /\ Settled(y) /\ query[w] = Asked(y)
      BY <1>0, <1>1, <2>1 DEF Written
    <2>3. Append(<<>>, "RESPONSE") = <<"RESPONSE">> /\ Append(<<>>, "ERROR") = <<"ERROR">>
      OBVIOUS
    <2>4. IF query[w] \in Index THEN down'[y] = <<"RESPONSE">> /\ wpc'[w] = "payload"
          ELSE down'[y] = <<"ERROR">> /\ wpc'[w] = "close"
      BY <2>1, <2>2, <2>3 DEF TypeOK
    <2>5. query[w] \notin Index => Owed(y) = <<"ERROR">>
      BY <1>4, <2>2 DEF Owed, Asked
    <2>6. Written(w)'
      BY <1>0, <1>2, <1>3, <2>1, <2>2, <2>4, <2>5 DEF Written
    <2>7. \A v \in Workers \ {w} : wpc'[v] = wpc[v] /\ query'[v] = query[v]
      BY <2>1 DEF TypeOK
    <2>8. \A x \in Conns : x # y => down'[x] = down[x]
      BY <2>1 DEF TypeOK
    <2> QED
      BY <1>0, <1>1, <2>6, <2>7, <2>8, OneWriter
  <1>8. CASE SendPayload(w)
    <2>1. /\ UNCHANGED query /\ wpc[w] = "payload"
          /\ down' = [down EXCEPT ![y] = Append(@, query[w])]
          /\ wpc' = [wpc EXCEPT ![w] = "close"]
      BY <1>1, <1>8 DEF SendPayload, WGoto, send_to_host
    <2>2. /\ down[y] = <<"RESPONSE">> /\ up[y] > 0 /\ Settled(y)
          /\ query[w] = Asked(y) /\ query[w] \in Index
      BY <1>0, <1>1, <2>1 DEF Written
    <2>3. Append(<<"RESPONSE">>, query[w]) = <<"RESPONSE", query[w]>>
      BY AppendPair
    <2>4. down'[y] = <<"RESPONSE", query[w]>> /\ wpc'[w] = "close"
      BY <2>1, <2>2, <2>3 DEF TypeOK
    <2>5. Owed(y) = <<"RESPONSE", query[w]>>
      BY <1>4, <2>2 DEF Owed, Asked
    <2>6. Written(w)'
      BY <1>0, <1>2, <1>3, <2>2, <2>4, <2>5 DEF Written
    <2>7. \A v \in Workers \ {w} : wpc'[v] = wpc[v] /\ query'[v] = query[v]
      BY <2>1 DEF TypeOK
    <2>8. \A x \in Conns : x # y => down'[x] = down[x]
      BY <2>1 DEF TypeOK
    <2> QED
      BY <1>0, <1>1, <2>6, <2>7, <2>8, OneWriter
  <1> QED
    BY <1>5, <1>6, <1>7, <1>8

\* A worker starts on a connection to which nobody has written.
LEMMA StartReplies ==
    ASSUME TypeOK, Ownership, WorkerInv, ConnInv, ReplyInv, NEW w \in Workers, StartJob(w)
    PROVE  ReplyInv'
  <1>1. /\ UNCHANGED <<sock, query, up, eof, down, shut, got, mpc>>
        /\ pending # <<>> /\ running[w] = NULL
        /\ running' = [running EXCEPT ![w] = Head(pending)]
        /\ wpc' = [wpc EXCEPT ![w] = "header"]
    BY DEF StartJob, Pool!Start, WGoto, main, wire, client
  <1>2. PICK f \in Fds : f = Head(pending) /\ f = pending[1] /\ 1 \in 1 .. Len(pending)
    BY <1>1, HeadTail DEF TypeOK
  <1>3. PICK y \in Conns : y = sock[f] /\ ~shut[y]
    <2>1. sock[f] # NULL
      BY <1>2 DEF Ownership, InPool
    <2> QED
      BY <2>1 DEF ConnInv, TypeOK
  <1>4. running'[w] = f /\ \A v \in Workers \ {w} : running'[v] = running[v]
    BY <1>1, <1>2 DEF TypeOK
  <1>5. Conn(w)' = y /\ \A v \in Workers \ {w} : Conn(v)' = Conn(v)
    BY <1>1, <1>3, <1>4 DEF Conn
  <1>6. \A v \in Workers : running[v] # NULL => Conn(v) # y
    <2> SUFFICES ASSUME NEW v \in Workers, running[v] # NULL, Conn(v) = y PROVE FALSE
      OBVIOUS
    <2>1. running[v] \in Fds /\ sock[running[v]] = sock[f] /\ sock[f] # NULL
      BY <1>3 DEF TypeOK, Conn
    <2>2. running[v] = f
      BY <2>1 DEF ConnInv
    <2> QED
      BY <2>2, <1>2 DEF Ownership
  <1>7. down[y] = <<>>
    BY <1>3, <1>6 DEF ReplyInv, Served
  <1>8. wpc'[w] = "header" /\ \A v \in Workers \ {w} : wpc'[v] = wpc[v]
    BY <1>1 DEF TypeOK
  <1>9. \A x \in Conns : Owed(x)' = Owed(x) /\ (Settled(x) => Settled(x)')
    BY <1>1, SameOwed
  <1>10. ASSUME NEW v \in Workers PROVE Written(v)'
    <2>1. CASE v = w
      <3>1. down'[Conn(w)'] = <<>>
        BY <1>1, <1>5, <1>7
      <3> QED
        BY <2>1, <3>1, <1>8 DEF Written
    <2>2. CASE v # w
      <3>1. Written(v)
        BY DEF ReplyInv
      <3>2. PICK x : x = Conn(v) /\ x = Conn(v)'
        BY <2>2, <1>5
      <3> QED
        BY <2>2, <3>1, <3>2, <1>1, <1>8, SameWritten
    <2> QED
      BY <2>1, <2>2
  <1>11. (\A x \in Conns : shut[x] => down[x] = Owed(x) /\ Settled(x))'
    BY <1>1, <1>9 DEF ReplyInv
  <1>12. (\A x \in Conns : down[x] # <<>> /\ ~shut[x] => Served(x))'
    <2> SUFFICES ASSUME NEW x \in Conns, down[x] # <<>>, ~shut[x] PROVE Served(x)'
      BY <1>1
    <2>1. PICK v \in Workers : running[v] # NULL /\ Conn(v) = x
      BY DEF ReplyInv, Served
    <2>2. v # w
      BY <2>1, <1>1
    <2>3. running'[v] # NULL /\ Conn(v)' = x
      BY <2>1, <2>2, <1>4, <1>5
    <2> QED
      BY <2>3 DEF Served
  <1>13. (\A x \in Conns : got[x] # NULL /\ Alive => got[x] = Owed(x))'
    BY <1>1, <1>9 DEF ReplyInv, Alive
  <1> QED
    BY <1>10, <1>11, <1>12, <1>13 DEF ReplyInv

\* close comes after the whole reply.
LEMMA CloseReplies ==
    ASSUME TypeOK, Ownership, WorkerInv, ConnInv, ReplyInv, NEW w \in Workers, CloseJob(w)
    PROVE  ReplyInv'
  <1>1. PICK f \in Fds, y \in Conns : f = running[w] /\ y = Conn(w) /\ y = sock[f]
    BY DEF CloseJob, WorkerInv, Conn, TypeOK
  <1>2. /\ UNCHANGED <<up, eof, down, got, mpc>> /\ wpc[w] = "close"
        /\ running' = [running EXCEPT ![w] = NULL] /\ sock' = [sock EXCEPT ![f] = NULL]
        /\ shut' = [x \in Conns |-> shut[x] \/ x = y]
        /\ wpc' = [wpc EXCEPT ![w] = "idle"] /\ query' = [query EXCEPT ![w] = NULL]
    BY <1>1 DEF CloseJob, Pool!Finish, WGoto, main, client
  <1>3. /\ wpc'[w] = "idle"
        /\ \A v \in Workers \ {w} : /\ wpc'[v] = wpc[v] /\ query'[v] = query[v]
                                    /\ running'[v] = running[v]
    BY <1>2 DEF TypeOK
  <1>4. ASSUME NEW v \in Workers \ {w}, running[v] # NULL PROVE Conn(v)' = Conn(v)
    <2>1. running[v] \in Fds /\ running[v] # f
      BY <1>1, <1>4 DEF Ownership, TypeOK
    <2> QED
      BY <2>1, <1>2, <1>3 DEF Conn, TypeOK
  <1>5. \A x \in Conns : Owed(x)' = Owed(x) /\ Settled(x)' = Settled(x)
    BY <1>2 DEF Owed, Settled
  <1>6. down[y] = Owed(y) /\ Settled(y)
    BY <1>1, <1>2 DEF ReplyInv, Written
  <1>7. ASSUME NEW v \in Workers PROVE Written(v)'
    <2>1. CASE v = w
      BY <2>1, <1>3 DEF Written
    <2>2. CASE v # w
      <3>1. Written(v) /\ (wpc[v] # "idle" => running[v] # NULL)
        BY DEF ReplyInv, WorkerInv
      <3>2. PICK x : x = Conn(v)
        OBVIOUS
      <3> QED
        BY <2>2, <3>1, <3>2, <1>2, <1>3, <1>4, SameWritten
    <2> QED
      BY <2>1, <2>2
  <1>8. (\A x \in Conns : shut[x] => down[x] = Owed(x) /\ Settled(x))'
    BY <1>2, <1>5, <1>6 DEF ReplyInv
  <1>9. (\A x \in Conns : down[x] # <<>> /\ ~shut[x] => Served(x))'
    <2> SUFFICES ASSUME NEW x \in Conns, down[x] # <<>>, ~shut[x], x # y PROVE Served(x)'
      BY <1>2
    <2>1. PICK v \in Workers : running[v] # NULL /\ Conn(v) = x
      BY DEF ReplyInv, Served
    <2>2. v # w
      BY <2>1, <1>1
    <2>3. running'[v] # NULL /\ Conn(v)' = x
      BY <2>1, <2>2, <1>3, <1>4
    <2> QED
      BY <2>3 DEF Served
  <1>10. (\A x \in Conns : got[x] # NULL /\ Alive => got[x] = Owed(x))'
    BY <1>2, <1>5 DEF ReplyInv, Alive
  <1> QED
    BY <1>7, <1>8, <1>9, <1>10 DEF ReplyInv

\* Every step keeps replies with their requests.
LEMMA NextReplies ==
    ASSUME ServerInv, Next
    PROVE  ReplyInv'
  <1>0. TypeOK /\ (Alive => Ownership) /\ WorkerInv /\ ConnInv /\ ClientInv /\ ReplyInv
    BY DEF ServerInv
  <1>1. CASE MainStep
    BY <1>0, <1>1, MainReplies
  <1>2. ASSUME NEW w \in Workers, WorkerStep(w) \/ Sigpipe(w) PROVE ReplyInv'
    <2>1. Ownership
      BY <1>0, <1>2 DEF WorkerStep, StartJob, RecvHeader, RecvWord, SendHeader, SendPayload,
         CloseJob, Sigpipe
    <2>2. CASE Sigpipe(w)
      <3>1. /\ UNCHANGED <<sock, running, wpc, query, up, eof, down, shut>> /\ ~Alive'
        BY <2>2 DEF Sigpipe, Alive, pool, worker, wire
      <3>2. \A v \in Workers : Conn(v)' = Conn(v)
        BY <3>1 DEF Conn
      <3> QED
        BY <1>0, <3>1, <3>2, SameReplies
    <2>3. CASE StartJob(w)
      BY <1>0, <2>1, <2>3, StartReplies
    <2>4. CASE CloseJob(w)
      BY <1>0, <2>1, <2>4, CloseReplies
    <2> QED
      BY <1>0, <1>2, <2>1, <2>2, <2>3, <2>4, JobReplies DEF WorkerStep
  <1>3. ASSUME NEW c \in Clients, ClientStep(c) \/ Abort(c) PROVE ReplyInv'
    <2>1. CASE Send(c) \/ SendPacket(c)
      BY <1>0, <2>1, SendReplies
    <2>2. CASE Receive(c)
      BY <1>0, <2>2, ReceiveReplies
    <2>3. CASE Connect(c) \/ Abort(c)
      BY <1>0, <2>3, QuietReplies
    <2> QED
      BY <1>3, <2>1, <2>2, <2>3 DEF ClientStep
  <1> QED
    BY <1>1, <1>2, <1>3 DEF Next

-----------------------------------------------------------------------------
\* The invariant.

\* Initially nobody has connected, and nothing is open.
LEMMA InvInit == Init => ServerInv
  <1> SUFFICES ASSUME Init PROVE ServerInv
    OBVIOUS
  <1>1. TypeOK
    BY TypeInit
  <1>2. Ownership /\ MainInv
    <2>1. pending = <<>> /\ Len(pending) = 0 /\ \A w \in Workers : running[w] = NULL
      BY DEF Init, Pool!Init
    <2>2. Watched = {}
      BY DEF Init, Watched, Leaving
    <2>3. \A f \in Fds : ~InPool(f)
      BY <2>1 DEF InPool
    <2>4. Ownership
      BY <2>1, <2>2, <2>3 DEF Ownership, Init
    <2>5. MainInv
      BY FdFacts DEF MainInv, Init
    <2> QED
      BY <2>4, <2>5
  <1>3. WorkerInv
    BY DEF Init, Pool!Init, WorkerInv
  <1>4. \A x \in Conns : ~Begun(x)
    BY DEF Init, Begun, Conns
  <1>5. acceptq = <<>> /\ Len(acceptq) = 0
    BY DEF Init
  <1>6. ConnInv
    BY <1>4, <1>5 DEF Init, ConnInv
  <1>7. ClientInv
    <2> SUFFICES ASSUME NEW x \in Conns PROVE Progress(x)
      BY DEF ClientInv
    <2>1. x[1] \in Clients /\ x[2] \in 1 .. Requests
      BY DEF Conns
    <2> QED
      BY <2>1 DEF Init, Progress
  <1>8. ReplyInv
    <2>1. \A w \in Workers : Written(w)
      BY DEF Init, Written
    <2> QED
      BY <2>1 DEF Init, ReplyInv
  <1> QED
    BY <1>1, <1>2, <1>3, <1>6, <1>7, <1>8 DEF ServerInv

\* Every step of main, of a worker and of a client keeps the invariant.
LEMMA InvNext == ServerInv /\ [Next]_vars => ServerInv'
  <1> SUFFICES ASSUME ServerInv, [Next]_vars PROVE ServerInv'
    OBVIOUS
  <1>0. TypeOK /\ (Alive => Ownership /\ MainInv) /\ WorkerInv /\ ConnInv /\ ClientInv /\ ReplyInv
    BY DEF ServerInv
  <1>1. CASE Next
    <2>1. TypeOK'
      BY <1>0, <1>1, MainType, WorkerType, ClientType DEF Next
    <2>2. Alive' => Ownership' /\ MainInv'
      BY <1>0, <1>1, NextOwnership
    <2>3. WorkerInv' /\ ConnInv' /\ ReplyInv'
      BY <1>0, <1>1, NextWorkers, NextConns, NextReplies
    <2>4. ClientInv'
      <3>1. CASE MainStep \/ \E w \in Workers : WorkerStep(w) \/ Sigpipe(w)
        <4>1. UNCHANGED <<up, eof, cpc, req, got>>
          BY <3>1 DEF MainStep, Select, Scan, Accept, Clear, WorkerStep, StartJob, RecvHeader,
             RecvWord, SendHeader, SendPayload, CloseJob, Sigpipe, wire, client
        <4>2. \A x \in Conns : Progress(x)' = Progress(x)
          BY <4>1 DEF Progress, Begun, This
        <4> QED
          BY <1>0, <4>2 DEF ClientInv
      <3>2. CASE \E c \in Clients : ClientStep(c) \/ Abort(c)
        BY <1>0, <3>2, NextClient
      <3> QED
        BY <1>1, <3>1, <3>2 DEF Next
    <2> QED
      BY <2>1, <2>2, <2>3, <2>4 DEF ServerInv
  <1>2. CASE UNCHANGED vars
    <2>1. UNCHANGED <<sock, acceptq, currentfds, todo, maxfd, mpc, pending, running, wpc, query,
                      up, eof, down, shut, cpc, req, got, aborts>>
      BY <1>2 DEF vars, main, worker, pool, client, wire
    <2>2. TypeOK'
      BY <1>0, <2>1 DEF TypeOK
    <2>3. Alive' => Ownership' /\ MainInv'
      BY <1>0, <2>1, SameOwnership DEF Alive
    <2>4. WorkerInv'
      BY <1>0, <2>1, SameWorkers
    <2>5. ConnInv'
      BY <1>0, <2>1, SameConns DEF Begun
    <2>6. ClientInv'
      BY <1>0, <2>1 DEF ClientInv, Progress, Begun, This
    <2>7. ReplyInv'
      <3>1. \A w \in Workers : Conn(w)' = Conn(w)
        BY <2>1 DEF Conn
      <3>2. \A x \in Conns : got'[x] # NULL /\ Alive' => got'[x] = Owed(x)
        BY <1>0, <2>1 DEF ReplyInv, Alive
      <3> QED
        BY <1>0, <2>1, <3>1, <3>2, SameReplies
    <2> QED
      BY <2>2, <2>3, <2>4, <2>5, <2>6, <2>7 DEF ServerInv
  <1> QED
    BY <1>1, <1>2

\* The inductive invariant of the server and its clients holds always.
THEOREM ServerCorrect == Spec => []ServerInv
  BY InvInit, InvNext, PTL DEF Spec

\* Every variable of main, the workers, the connections and the clients keeps
\* its type.
THEOREM ServerTypes == Spec => []TypeOK
  <1>1. ServerInv => TypeOK
    BY DEF ServerInv
  <1> QED
    BY <1>1, ServerCorrect, PTL

\* main never calls select with a closed descriptor or with one above maxfd,
\* although workers close descriptors while main still has them in todo.
THEOREM SelectNeverFails == Spec => []SelectSetValid
  <1>1. ServerInv => SelectSetValid
    <2> SUFFICES ASSUME ServerInv, mpc = "select", NEW f \in currentfds
                 PROVE  ~Closed(f) /\ f <= maxfd
      BY DEF SelectSetValid
    <2>1. TypeOK /\ Ownership /\ MainInv
      BY DEF ServerInv, Alive
    <2>2. f <= maxfd
      BY <2>1 DEF MainInv
    <2>3. CASE f = listenfd
      BY <2>2, <2>3 DEF Closed
    <2>4. CASE f # listenfd
      <3>1. f \in Fds /\ f \in Watched
        BY <2>1, <2>4 DEF TypeOK, Watched, Leaving
      <3>2. sock[f] # NULL
        BY <2>1, <3>1 DEF Ownership
      <3> QED
        BY <2>2, <3>2 DEF Closed
    <2> QED
      BY <2>3, <2>4
  <1> QED
    BY <1>1, ServerCorrect, PTL

\* Every open connection has exactly one owner, main or one job of the pool,
\* and a descriptor that is not open has none, however accept, the workers
\* and FD_CLR interleave.
THEOREM OneOwnerAlways == Spec => []OneOwner
  <1>1. ServerInv => OneOwner
    <2> SUFFICES ASSUME ServerInv, Alive, NEW f \in Fds
                 PROVE  Cardinality(JobsFor(f)) + (IF f \in Watched THEN 1 ELSE 0)
                            = IF sock[f] = NULL THEN 0 ELSE 1
      BY DEF OneOwner
    <2>1. Ownership
      BY DEF ServerInv
    <2> DEFINE P == {k \in 1 .. Len(pending) : pending[k] = f}
               R == {w \in Workers : running[w] = f}
    <2>2. JobsFor(f) = {<<"pending", k>> : k \in P} \cup {<<"running", w>> : w \in R}
      BY DEF JobsFor
    <2>3. f # NULL
      OBVIOUS
    <2>4. CASE ~InPool(f)
      <3>1. P = {} /\ R = {}
        BY <2>4 DEF InPool
      <3>2. JobsFor(f) = {}
        BY <2>2, <3>1
      <3>3. Cardinality(JobsFor(f)) = 0
        BY <3>2, FS_EmptySet
      <3>4. sock[f] # NULL <=> f \in Watched
        BY <2>1, <2>4 DEF Ownership
      <3> QED
        BY <3>3, <3>4
    <2>5. CASE InPool(f)
      <3>1. \E j : JobsFor(f) = {j}
        <4>1. CASE \E k \in 1 .. Len(pending) : pending[k] = f
          <5>1. PICK k \in 1 .. Len(pending) : pending[k] = f
            BY <4>1
          <5>2. P = {k} /\ R = {}
            BY <2>1, <5>1 DEF Ownership
          <5>3. JobsFor(f) = {<<"pending", k>>}
            BY <2>2, <5>2
          <5> QED
            BY <5>3
        <4>2. CASE \E w \in Workers : running[w] = f
          <5>1. PICK w \in Workers : running[w] = f
            BY <4>2
          <5>2. R = {w} /\ P = {}
            BY <2>1, <2>3, <5>1 DEF Ownership
          <5>3. JobsFor(f) = {<<"running", w>>}
            BY <2>2, <5>2
          <5> QED
            BY <5>3
        <4> QED
          BY <2>5, <4>1, <4>2 DEF InPool
      <3>2. Cardinality(JobsFor(f)) = 1
        BY <3>1, FS_Singleton
      <3>3. f \notin Watched /\ sock[f] # NULL
        BY <2>1, <2>5 DEF Ownership
      <3> QED
        BY <3>2, <3>3
    <2> QED
      BY <2>4, <2>5
  <1> QED
    BY <1>1, ServerCorrect, PTL

\* What the server writes to a connection is the beginning of the reply to the
\* word that connection asked for, and what a client takes is all of it.
THEOREM OwnReplyAlways == Spec => []OwnReply
  <1>1. ServerInv => OwnReply
    <2> SUFFICES ASSUME ServerInv, NEW x \in Conns
                 PROVE  /\ down[x] # <<>> =>
                              \E k \in 1 .. Len(Owed(x)) : down[x] = SubSeq(Owed(x), 1, k)
                        /\ got[x] # NULL /\ Alive => got[x] = Owed(x)
      BY DEF OwnReply
    <2>0. TypeOK /\ WorkerInv /\ ReplyInv
      BY DEF ServerInv
    <2>1. got[x] # NULL /\ Alive => got[x] = Owed(x)
      BY <2>0, Zenon DEF ReplyInv
    <2>2. ASSUME down[x] # <<>>, down[x] = Owed(x)
          PROVE  \E k \in 1 .. Len(Owed(x)) : down[x] = SubSeq(Owed(x), 1, k)
      <3>1. down[x] \in Seq({"RESPONSE", "ERROR"} \cup Words)
        BY <2>0 DEF TypeOK
      <3>2. Len(down[x]) \in 1 .. Len(down[x])
        BY <2>2, <3>1, LenProperties, EmptySeq
      <3>3. SubSeq(down[x], 1, Len(down[x])) = down[x]
        BY <3>1
      <3> QED
        BY <2>2, <3>2, <3>3
    <2>3. ASSUME down[x] # <<>>, down[x] # Owed(x)
          PROVE  \E k \in 1 .. Len(Owed(x)) : down[x] = SubSeq(Owed(x), 1, k)
      <3>1. PICK w \in Workers : running[w] # NULL /\ Conn(w) = x
        BY <2>0, <2>3 DEF ReplyInv, Served
      <3>2. wpc[w] \in {"header", "word", "reply", "payload", "close"} /\ Written(w)
        BY <2>0, <3>1 DEF WorkerInv, TypeOK, ReplyInv
      <3>3. wpc[w] = "payload"
        BY <2>3, <3>1, <3>2 DEF Written
      <3>4. /\ down[x] = <<"RESPONSE">> /\ up[x] > 0 /\ query[w] = Asked(x)
            /\ query[w] \in Index
        BY <3>1, <3>2, <3>3 DEF Written
      <3>5. up[x] \in 0 .. 2
        BY <2>0 DEF TypeOK
      <3>6. Owed(x) = <<"RESPONSE", query[w]>>
        BY <3>4, <3>5 DEF Owed, Asked
      <3>7. SubSeq(<<"RESPONSE", query[w]>>, 1, 1) = <<"RESPONSE">>
        BY FirstOfPair
      <3> QED
        BY <3>4, <3>6, <3>7
    <2> QED
      BY <2>1, <2>2, <2>3
  <1> QED
    BY <1>1, ServerCorrect, PTL
=============================================================================
