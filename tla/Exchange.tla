----------------------------- MODULE Exchange -----------------------------
(***************************************************************************)
(* One client thread (request_server of client1.c or client2.c) and the    *)
(* worker that runs thread_job for each of its connections, byte by byte:  *)
(* read and write move any number of bytes, socket buffers are finite, the *)
(* header is converted between the byte orders of the two hosts, the reply *)
(* is built in the packet and received into a buffer that keeps what the   *)
(* request before left there.  Server is the model of many connections.    *)
(*                                                                         *)
(* A byte is a number below BASE and a uint32_t is FIELD bytes.  The       *)
(* message types fit into the lowest byte, as in the program, where ERROR  *)
(* is also the code of a space and the other two are control characters.   *)
(* Text has neither these nor a NUL.  The server runs on a little-endian   *)
(* host, the client on any.                                                *)
(***************************************************************************)
EXTENDS Naturals, SequencesExt

CONSTANTS BASE, FIELD,                 \* byte values; bytes of a uint32_t
          DYN_SIZE, BUFSIZE, MAX_SIZE, \* sizes of packet, of the client's buf, of a word
          Words,                       \* the words a user may ask for
          Found,                       \* the words in the index
          Lines,                       \* Lines[w]: the lines sprintf writes for w
          SockBuf,                     \* bytes a socket buffer holds
          Requests                     \* bound: requests of the client

HDR_LEN == 2 * FIELD
REQUEST == 1
RESPONSE == 2
ERROR == 3

\* The text of the response for w.
Text(w) == FlattenSeq(Lines[w])

ASSUME ExchangeAssumption ==
    /\ BASE \in Nat /\ BASE > ERROR /\ FIELD \in Nat /\ FIELD > 1
    /\ SockBuf \in Nat \ {0} /\ Requests \in Nat
    /\ MAX_SIZE <= DYN_SIZE /\ DYN_SIZE = BUFSIZE
    /\ Found \subseteq Words /\ \A w \in Words : w # <<>>
    /\ \A w \in Words : \A k \in 1 .. Len(w) : w[k] \in ERROR .. BASE - 1
    \* "%s: line #%zu\n" is longer than a header.
    /\ \A w \in Found : Len(Text(w)) >= HDR_LEN
    /\ \A w \in Found : \A k \in 1 .. Len(Text(w)) : Text(w)[k] \in ERROR .. BASE - 1

VARIABLES
    kind, little,     \* the client program, and whether its host is little-endian
    cpc,              \* where the client is
    word,             \* the string it asks for
    buf,              \* its buffer; buf[k + 1] is the byte at k
    cout,             \* the buffers it has still to write, one per send_to_host
    cgot, cleft,      \* bytes recv_from_host has stored, and has still to read
    got,              \* what it made of each reply
    spc,              \* where the worker is
    packet,           \* the bytes read into packet
    sleft,            \* bytes it has still to read
    query,            \* the string it looked up
    sout,             \* the buffers it has still to write
    up, down,         \* bytes in the two directions of the connection
    cend, send,       \* whether client and server have their end open
    reset,            \* the connection was reset
    faults            \* how many faults there were

client == <<kind, little, cpc, word, buf, cout, cgot, cleft, got>>
server == <<spc, packet, sleft, query, sout>>
wire == <<up, down, cend, send, reset, faults>>
vars == <<client, server, wire>>

-----------------------------------------------------------------------------
\* Integers in memory.

Modulus == BASE ^ FIELD

\* The bytes of v, most significant first.
BigEndian(v) == [k \in 1 .. FIELD |-> (v \div BASE ^ (FIELD - k)) % BASE]

\* The bytes of v in the memory of a host, and the value of bytes found there.
Stored(le, v) == IF le THEN Reverse(BigEndian(v)) ELSE BigEndian(v)
Loaded(le, bytes) == CHOOSE v \in 0 .. Modulus - 1 : Stored(le, v) = bytes

\* Mutant of htonl: the conversion is left out.
HtonlForgotten(le, v) == v

htonl(le, v) == Loaded(le, BigEndian(v))

ntohl(le, v) == CHOOSE x \in 0 .. Modulus - 1 : htonl(le, x) = v

\* create_pckt: the header for a message of len bytes.
create_pckt(le, len, type) ==
    Stored(le, htonl(le, (len + HDR_LEN) % Modulus)) \o Stored(le, htonl(le, type))

\* The two fields of the header at the start of some bytes, as the receiver
\* reads them.
TypeIs(le, bytes, type) == Loaded(le, SubSeq(bytes, FIELD + 1, HDR_LEN)) = htonl(le, type)
BodyLen(le, bytes) ==
    (ntohl(le, Loaded(le, SubSeq(bytes, 1, FIELD))) + Modulus - HDR_LEN) % Modulus

\* The string at the start of some bytes: up to the first NUL.
CString(bytes) ==
    LET ends == {k \in 1 .. Len(bytes) : bytes[k] = 0}
    IN  IF ends = {} THEN bytes
        ELSE SubSeq(bytes, 1, (CHOOSE k \in ends : \A j \in ends : k <= j) - 1)

\* StrGetLength of w with the bound MAX_SIZE.
StrGetLength(w) == IF Len(w) >= MAX_SIZE THEN 0 ELSE Len(w)
AsSent(w) == SubSeq(w, 1, StrGetLength(w))

\* The memory mem after bytes were stored from offset at on.
Put(mem, at, bytes) ==
    [k \in 1 .. Len(mem) |-> IF k \in at + 1 .. at + Len(bytes) THEN bytes[k - at] ELSE mem[k]]

\* Mutant of BufLen: client1 has the buffer of client2.
BufLenSame(k) == BUFSIZE

\* buf is one byte larger in client1.
BufLen(k) == IF k = "client1" THEN BUFSIZE + 1 ELSE BUFSIZE

NonEmpty(buffers) == SelectSeq(buffers, LAMBDA b : b # <<>>)

\* write took the first n bytes of the first buffer.
Rest(buffers, n) ==
    NonEmpty([buffers EXCEPT ![1] = SubSeq(@, n + 1, Len(@))])

Least(S) == CHOOSE n \in S : \A m \in S : n <= m

-----------------------------------------------------------------------------
Init ==
    /\ kind \in {"client1", "client2"} /\ little \in BOOLEAN
    /\ cpc = "idle" /\ word \in Words /\ buf = [k \in 1 .. BufLen(kind) |-> 0]
    /\ cout = <<>> /\ cgot = 0 /\ cleft = 0 /\ got = <<>>
    /\ spc = "idle" /\ packet = <<>> /\ sleft = 0 /\ query = <<>> /\ sout = <<>>
    /\ up = <<>> /\ down = <<>> /\ cend = "open" /\ send = "open"
    /\ reset = FALSE /\ faults = 0

-----------------------------------------------------------------------------
\* request_server.

\* A new connection, accepted and handed to a worker, and what the client is
\* going to send on it.
Connect(w, buffers) ==
    /\ word' = w /\ cout' = NonEmpty(buffers) /\ cpc' = "send"
    /\ spc' = "header" /\ packet' = <<>> /\ sleft' = HDR_LEN
    /\ up' = <<>> /\ down' = <<>> /\ cend' = "open" /\ send' = "open"
    /\ reset' = FALSE
    /\ UNCHANGED <<kind, little, cgot, cleft, got, query, sout, faults>>

\* Mutant of Idle: i <= req_per_thread.
IdleOneMore == cpc = "idle" /\ Len(got) <= Requests

Idle == cpc = "idle" /\ Len(got) < Requests

\* client1 asks for the same word each time, header and word in two sends.
Ask1 ==
    /\ Idle /\ kind = "client1" /\ spc = "idle"
    /\ Connect(word, <<create_pckt(little, StrGetLength(word), REQUEST), AsSent(word)>>)
    /\ UNCHANGED buf

\* client2 reads a command and a word into buf, and sends header and word at once.
\* At the end of its input scanf leaves both alone, and what is in buf is sent.
\* Any other command than search goes back to scanf, having changed buf only.
Ask2 ==
    /\ Idle /\ kind = "client2" /\ spc = "idle"
    /\ \/ \E w \in Words :
            /\ Connect(w, <<create_pckt(little, StrGetLength(w), REQUEST) \o AsSent(w)>>)
            /\ buf' = Put(buf, 0, w \o <<0>>)
       \/ /\ LET w == CString(buf)
             IN  Connect(w, <<create_pckt(little, StrGetLength(w), REQUEST) \o AsSent(w)>>)
          /\ UNCHANGED buf

\* connect fails once the server is gone, and request_server returns.
Refused ==
    /\ Idle /\ spc = "gone"
    /\ cpc' = "gone"
    /\ UNCHANGED <<kind, little, word, buf, cout, cgot, cleft, got, server, wire>>

\* write in send_to_host: as much as the socket takes.  Bytes for an end that is
\* closed are lost.
ClientWrite ==
    /\ cpc = "send" /\ cout # <<>> /\ ~reset
    /\ \E n \in 1 .. Least({Len(cout[1]), SockBuf - Len(up)}) :
         /\ up' = IF send = "open" THEN up \o SubSeq(cout[1], 1, n) ELSE up
         /\ cout' = Rest(cout, n)
    /\ UNCHANGED <<kind, little, cpc, word, buf, cgot, cleft, got, server,
                   down, cend, send, reset, faults>>

\* The first write after a reset, which a peer that closes with bytes unread causes
\* too, returns -1 and send_to_host with it.  Nobody looks at that: after the last
\* send the client goes on to recv_from_host.  cout keeps what was not sent.
ClientWriteFails ==
    /\ cpc = "send" /\ (reset \/ send = "closed") /\ Len(cout) = 1
    /\ cpc' = "header" /\ cgot' = 0 /\ cleft' = HDR_LEN
    /\ UNCHANGED <<kind, little, word, buf, cout, got, server, wire>>

\* SIGPIPE ends the client: at a write to an end that is closed, or, where a
\* send_to_host follows the one that failed, at the write after the failed one.
ClientSigpipe ==
    /\ cpc = "send" /\ cout # <<>>
    /\ IF reset THEN Len(cout) > 1 ELSE send = "closed"
    /\ cpc' = "gone" /\ cend' = "closed"
    /\ UNCHANGED <<kind, little, word, buf, cout, cgot, cleft, got, server,
                   up, down, send, reset, faults>>

\* recv_from_host(clientfd, buf, HDR_LEN) is called.
AwaitHeader ==
    /\ cpc = "send" /\ cout = <<>>
    /\ cpc' = "header" /\ cgot' = 0 /\ cleft' = HDR_LEN
    /\ UNCHANGED <<kind, little, word, buf, cout, got, server, wire>>

\* read in recv_from_host: some of the bytes that are there.
ClientRead ==
    /\ cpc \in {"header", "body"} /\ cleft > 0 /\ ~reset
    /\ \E n \in 1 .. Least({cleft, Len(down)}) :
         /\ down' = SubSeq(down, n + 1, Len(down))
         /\ IF cgot + n > Len(buf)
            THEN cpc' = "corrupt" /\ UNCHANGED <<buf, cgot, cleft>>
            ELSE /\ buf' = Put(buf, cgot, SubSeq(down, 1, n))
                 /\ cgot' = cgot + n /\ cleft' = cleft - n /\ UNCHANGED cpc
    /\ UNCHANGED <<kind, little, word, cout, got, server, up, cend, send, reset, faults>>

\* Mutant of ClientReceived: the test of tmp == 0 is left out.
ClientReceivedNoEof == cleft = 0 \/ reset

\* recv_from_host returns: all is read, or there will be no more.
ClientReceived == cleft = 0 \/ reset \/ (down = <<>> /\ send = "closed")

\* The client closes, having made of the reply what is said.  The bytes that
\* recv_from_host had stored are recorded for the properties.
Conclude(what, text) ==
    /\ got' = Append(got, [word |-> word, what |-> what, text |-> text, stored |-> cgot])
    /\ cpc' = "idle" /\ cend' = "closed"

\* Mutant of CheckHeader: what is no RESPONSE is taken for an ERROR.
CheckHeaderTwoWay ==
    /\ cpc = "header" /\ ClientReceived
    /\ IF TypeIs(little, buf, RESPONSE)
       THEN /\ cpc' = "body" /\ cgot' = 0 /\ cleft' = BodyLen(little, buf)
            /\ UNCHANGED <<got, cend>>
       ELSE /\ Conclude("not found", <<>>)
            /\ UNCHANGED <<cgot, cleft>>
    /\ UNCHANGED <<kind, little, word, buf, cout, server, up, down, send, reset, faults>>

\* The test of msg_type, on whatever bytes are in buf.
CheckHeader ==
    /\ cpc = "header" /\ ClientReceived
    /\ IF TypeIs(little, buf, RESPONSE)
       THEN /\ cpc' = "body" /\ cgot' = 0 /\ cleft' = BodyLen(little, buf)
            /\ UNCHANGED <<got, cend>>
       ELSE /\ Conclude(IF kind = "client2" \/ TypeIs(little, buf, ERROR)
                        THEN "not found" ELSE "wrong", <<>>)
            /\ UNCHANGED <<cgot, cleft>>
    /\ UNCHANGED <<kind, little, word, buf, cout, server, up, down, send, reset, faults>>

\* buf[tmp] = '\0', which is outside of buf when read failed or buf is full.
TakeBody ==
    /\ cpc = "body" /\ ClientReceived
    /\ IF (reset /\ cleft > 0) \/ cgot >= Len(buf)
       THEN cpc' = "corrupt" /\ UNCHANGED <<buf, got, cend>>
       ELSE /\ buf' = Put(buf, cgot, <<0>>)
            /\ Conclude("lines", CString(buf'))
    /\ UNCHANGED <<kind, little, word, cout, cgot, cleft, server, up, down, send, reset, faults>>

ClientStep ==
    \/ Ask1 \/ Ask2 \/ Refused \/ ClientWrite \/ ClientWriteFails
    \/ ClientSigpipe \/ AwaitHeader \/ ClientRead \/ CheckHeader \/ TakeBody

-----------------------------------------------------------------------------
\* thread_job.

\* read in recv_from_host.
ServerRead ==
    /\ spc \in {"header", "word"} /\ sleft > 0 /\ ~reset
    /\ \E n \in 1 .. Least({sleft, Len(up)}) :
         /\ up' = SubSeq(up, n + 1, Len(up))
         /\ packet' = packet \o SubSeq(up, 1, n)
         /\ sleft' = sleft - n
    /\ UNCHANGED <<client, spc, query, sout, down, cend, send, reset, faults>>

ServerReceived == sleft = 0 \/ reset \/ (up = <<>> /\ cend = "closed")

\* Mutant of Residue: the bytes are what the packet of the request before left there.
ResidueOfRequest == {create_pckt(TRUE, 1, REQUEST)}

\* What a new packet begins with: the link of the free list, an address whose
\* highest byte is 0.
Residue == {b \in [1 .. HDR_LEN -> {0, 1}] : b[HDR_LEN] = 0}

\* The test of msg_type, on what was read and, behind it, what was there.
CheckRequest ==
    /\ spc = "header" /\ ServerReceived
    /\ \E b \in Residue :
         LET bytes == packet \o SubSeq(b, Len(packet) + 1, HDR_LEN)
         IN  IF TypeIs(TRUE, bytes, REQUEST)
             THEN spc' = "word" /\ sleft' = BodyLen(TRUE, bytes) /\ packet' = <<>>
             ELSE spc' = "close" /\ UNCHANGED <<sleft, packet>>
    /\ UNCHANGED <<client, query, sout, wire>>

\* The lines sprintf appends, with the NUL behind the last, fit into packet.
FitsPacket(w) == Len(Text(w)) <= DYN_SIZE

\* packet[tmp] = '\0', lookup, and the reply.  A read that failed, and lines that
\* do not fit, write outside of packet.
Reply ==
    LET w == CString(packet)
    IN  /\ spc = "word" /\ ServerReceived
        /\ query' = w
        /\ IF (reset /\ sleft > 0) \/ (w \in Found /\ ~FitsPacket(w))
           THEN spc' = "corrupt" /\ UNCHANGED sout
           ELSE /\ spc' = "send"
                /\ sout' = IF w \in Found
                           THEN <<create_pckt(TRUE, Len(Text(w)), RESPONSE), Text(w)>>
                           ELSE <<create_pckt(TRUE, 0, ERROR)>>
        /\ UNCHANGED <<client, packet, sleft, wire>>

\* write in send_to_host.
ServerWrite ==
    /\ spc = "send" /\ sout # <<>> /\ ~reset
    /\ \E n \in 1 .. Least({Len(sout[1]), SockBuf - Len(down)}) :
         /\ down' = IF cend = "open" THEN down \o SubSeq(sout[1], 1, n) ELSE down
         /\ sout' = Rest(sout, n)
    /\ UNCHANGED <<client, spc, packet, sleft, query, up, cend, send, reset, faults>>

\* As in the client: the write of the last buffer fails without a signal.
ServerWriteFails ==
    /\ spc = "send" /\ (reset \/ cend = "closed") /\ Len(sout) = 1
    /\ spc' = "close"
    /\ UNCHANGED <<client, packet, sleft, query, sout, wire>>

\* SIGPIPE ends the server.
ServerSigpipe ==
    /\ spc = "send" /\ sout # <<>>
    /\ IF reset THEN Len(sout) > 1 ELSE cend = "closed"
    /\ spc' = "gone" /\ send' = "closed"
    /\ UNCHANGED <<client, packet, sleft, query, sout, up, down, cend, reset, faults>>

\* close(fd).
CloseJob ==
    /\ spc = "close" \/ (spc = "send" /\ sout = <<>>)
    /\ spc' = "idle" /\ send' = "closed"
    /\ UNCHANGED <<client, packet, sleft, query, sout, up, down, cend, reset, faults>>

ServerStep ==
    \/ ServerRead \/ CheckRequest \/ Reply
    \/ ServerWrite \/ ServerWriteFails \/ ServerSigpipe \/ CloseJob

-----------------------------------------------------------------------------
\* Faults, one in a behaviour: a process is killed, or the connection reset.
CanFail == faults = 0 /\ cpc \in {"send", "header", "body"} /\ faults' = 1

ClientKilled ==
    /\ CanFail
    /\ cpc' = "gone" /\ cend' = "closed"
    /\ UNCHANGED <<kind, little, word, buf, cout, cgot, cleft, got, server,
                   up, down, send, reset>>

ServerKilled ==
    /\ CanFail /\ spc # "corrupt"
    /\ spc' = "gone" /\ send' = "closed"
    /\ UNCHANGED <<client, packet, sleft, query, sout, up, down, cend, reset>>

ConnectionReset ==
    /\ CanFail
    /\ reset' = TRUE
    /\ UNCHANGED <<client, server, up, down, cend, send>>

Next == ClientStep \/ ServerStep \/ ClientKilled \/ ServerKilled \/ ConnectionReset

Spec == Init /\ [][Next]_vars

\* Both processes keep running; nothing makes a fault happen.
FairSpec == Spec /\ WF_vars(ClientStep) /\ WF_vars(ServerStep)

-----------------------------------------------------------------------------
Bytes == 0 .. BASE - 1
Ended == {"idle", "gone", "corrupt"}

TypeOK ==
    /\ cpc \in {"idle", "send", "header", "body", "gone", "corrupt"}
    /\ word \in Seq(Bytes) /\ buf \in [1 .. BufLen(kind) -> Bytes]
    /\ cgot \in 0 .. BUFSIZE + 1 /\ cleft \in 0 .. Modulus - 1
    /\ spc \in {"idle", "header", "word", "send", "close", "gone", "corrupt"}
    /\ packet \in Seq(Bytes) /\ sleft \in 0 .. Modulus - 1
    /\ up \in Seq(Bytes) /\ Len(up) <= SockBuf /\ down \in Seq(Bytes) /\ Len(down) <= SockBuf
    /\ Len(got) <= Requests /\ faults \in {0, 1}

(***************************************************************************)
(* However the bytes are cut by read and write, whatever the byte order of *)
(* the client's host and whatever its buffer held before, a request is     *)
(* answered exactly: the text of the word that was sent, or "not found" if *)
(* there is none.  When a process dies or the connection is reset on the   *)
(* way the text may be cut off, but is never another one.                  *)
(***************************************************************************)
ReplyExact ==
    \A k \in 1 .. Len(got) :
        LET g == got[k]
            w == AsSent(g.word)
        IN  /\ g.what = "lines" => w \in Found /\ IsPrefix(g.text, Text(w))
            /\ faults = 0 => g.what = IF w \in Found THEN "lines" ELSE "not found"
            /\ faults = 0 /\ w \in Found => g.text = Text(w)

(***************************************************************************)
(* client1 says "no such word in the server" of absent words only, also    *)
(* when the reply does not come and the test of msg_type sees bytes of the *)
(* reply before (client1.c:105-117), but in one case: the reply breaks off *)
(* before the last byte of its header, and in the place of that byte the   *)
(* text before had a space, which a file name of six characters puts there *)
(* (server.c:273).                                                         *)
(***************************************************************************)
NotFoundIsAbsent ==
    kind = "client1" =>
        \A k \in 1 .. Len(got) :
            got[k].what = "not found" =>
                \/ AsSent(got[k].word) \notin Found
                \/ /\ got[k].stored = HDR_LEN - 1
                   /\ k > 1 /\ got[k - 1].text[HDR_LEN] = ERROR

(***************************************************************************)
(* thread_job answers a request only if its header arrived complete: when  *)
(* the peer closes early, the bytes the allocator left in packet do not    *)
(* pass for the rest of a REQUEST (server.c:251-256).                      *)
(***************************************************************************)
NoPhantomRequest ==
    spc \in {"word", "send"} =>
        LET unsent == FlattenSeq(cout)
        IN  Len(unsent) <= Len(AsSent(word))

(***************************************************************************)
(* Nothing is written outside of a buffer but in three cases: a read that  *)
(* fails after the header (its -1 becomes an index), a response of more    *)
(* than DYN_SIZE characters in the server, and one of exactly BUFSIZE      *)
(* characters in client2.  client1 can hold whatever the server can send.  *)
(***************************************************************************)
BuffersHold ==
    /\ spc = "corrupt" /\ ~reset => query \in Found /\ Len(Text(query)) > DYN_SIZE
    /\ cpc = "corrupt" /\ ~reset => kind = "client2" /\ Len(Text(query)) = BUFSIZE

(***************************************************************************)
(* An exchange ends for both sides, however small the socket buffers: the  *)
(* two never wait for each other, and a side whose peer is gone notices.   *)
(* What a side does after it wrote outside of a buffer is not known.       *)
(***************************************************************************)
ExchangeEnds ==
    /\ cpc \notin Ended ~> (cpc \in Ended \/ spc = "corrupt")
    /\ spc \notin Ended ~> (spc \in Ended \/ cpc = "corrupt")

(***************************************************************************)
(* client2 says "no such word in the server" of absent words only.         *)
(* Violated when the reply does not come (client2.c:129-133).              *)
(***************************************************************************)
NotFoundIsAbsentInClient2 ==
    \A k \in 1 .. Len(got) : got[k].what = "not found" => AsSent(got[k].word) \notin Found
=============================================================================
