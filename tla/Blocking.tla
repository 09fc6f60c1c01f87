------------------------------ MODULE Blocking ------------------------------
(***************************************************************************)
(* The synchronous context of src/src/valkey.c on a connection of module    *)
(* Connection: commands appended to the output buffer, valkeyGetReply with  *)
(* its write and read loops, push messages, timeouts, errors that stick to  *)
(* the context and valkeyReconnect, which starts over with empty buffers.   *)
(*                                                                         *)
(* Commands and replies travel in two parts each, so that a write or a read *)
(* can end in the middle of one; a push message has one part.  A command is *)
(* a number that is never used twice, which makes a late or a misplaced     *)
(* reply visible.  Allocation failures are left to Reader and Connection.   *)
(***************************************************************************)
EXTENDS Connection

CONSTANTS MaxCmds, MaxPushes

\* The parts of replies, push messages and malformed answers.
Parts == {"reply", "push", "bad"} \X Nat \X {1, 2}

\* A reply is not NULL.
ASSUME BlockingAssumption ==
    MaxCmds \in Nat /\ MaxPushes \in Nat /\ NULL \notin Parts

VARIABLES
    obuf,       \* c->obuf: the parts of commands not yet written
    reader,     \* c->reader: [buf, err]
    inbox,      \* what the server has received on this connection
    wire,       \* what it sent and the client has not read
    srv,        \* the server's end: "up", "closed"
    asked,      \* commands appended on this connection, in order
    got,        \* replies returned by valkeyGetReply on this connection
    issued,     \* commands appended so far, the last one's number
    pushes      \* push messages sent and handled

ioVars == <<obuf, reader, inbox, wire, srv, asked, got, issued, pushes>>
vars == <<connVars, ioVars>>

Command(id) == <<<<"cmd", id, 1>>, <<"cmd", id, 2>>>>
Reply(id)   == <<<<"reply", id, 1>>, <<"reply", id, 2>>>>
Push        == <<<<"push", 0, 2>>>>
Garbage     == <<<<"bad", 0, 2>>>>

Take(s, n) == SubSeq(s, 1, n)
Drop(s, n) == SubSeq(s, n + 1, Len(s))
-----------------------------------------------------------------------------
(* The reader, as module Reader describes it: complete items in order. *)

\* valkeyReaderGetReply: the next reply, NULL while it is incomplete; the
\* reader keeps a protocol error for good and drops its buffer.
valkeyReaderGetReply(rd) ==
    LET last == {i \in DOMAIN rd.buf : rd.buf[i][3] = 2}
        n    == CHOOSE i \in last : \A j \in last : i <= j
    IN  IF rd.err \/ last = {} THEN [rd |-> rd, reply |-> NULL]
        ELSE IF rd.buf[n][1] = "bad" THEN [rd |-> [buf |-> <<>>, err |-> TRUE], reply |-> NULL]
        ELSE [rd |-> [rd EXCEPT !.buf = Drop(@, n)], reply |-> rd.buf[n]]

\* valkeyNextInBandReplyFromReader with valkeyHandledPushReply: push messages
\* go to the push callback if there is one.  pushed counts them.
NextInBandReply(rd) ==
    LET items(n) == {i \in 1..n : rd.buf[i][3] = 2}
        lead == {n \in 0..Len(rd.buf) : opts.push /\ \A i \in 1..n : rd.buf[i][1] = "push"}
        n    == IF lead = {} THEN 0 ELSE CHOOSE k \in lead : \A j \in lead : j <= k
        x    == valkeyReaderGetReply([rd EXCEPT !.buf = Drop(@, n)])
    IN  [rd |-> x.rd, reply |-> x.reply, pushed |-> Cardinality(items(n))]

-----------------------------------------------------------------------------
(* The program's calls. *)

\* valkeyAppendCommand and its variants: c->err is not looked at.
valkeyAppendCommand ==
    /\ pc = "idle" /\ c.funcs
    /\ issued < MaxCmds
    /\ issued' = issued + 1
    /\ asked' = Append(asked, issued + 1)
    /\ obuf' = obuf \o Command(issued + 1)
    /\ UNCHANGED <<connVars, reader, inbox, wire, srv, got, pushes>>

\* A reply is handed over, or the call fails.
Deliver(x) ==
    /\ got' = Append(got, x.reply)
    /\ pc' = "idle"

\* valkeyGetReply looks into the reader first, whatever state c is in.  Without
\* a reply there a non-blocking context returns, a blocking one goes on.
\* valkeyCommand is an append followed by this.
valkeyGetReply ==
    LET x == NextInBandReply(reader)
    IN  /\ pc = "idle" /\ conn.op # "none"
        /\ reader' = x.rd
        /\ pushes' = [pushes EXCEPT !.handled = @ + x.pushed]
        /\ UNCHANGED <<opts, conn, sockets, obuf, inbox, wire, srv, asked, issued>>
        /\ IF x.rd.err THEN c' = SetError(c, "protocol") /\ UNCHANGED <<pc, got>>
           ELSE IF x.reply # NULL THEN Deliver(x) /\ UNCHANGED c
           ELSE /\ pc' = IF opts.block /\ c.err = "none" THEN "writing" ELSE "idle"
                /\ UNCHANGED <<c, got>>

\* valkeyBufferWrite, by the loop of valkeyGetReply or by the program itself:
\* send(2) takes some of the bytes, none of them (EINTR) or fails.
valkeyBufferWrite ==
    /\ pc = "writing" \/ (pc = "idle" /\ ~ opts.block /\ conn.op # "none")
    /\ c.err = "none"
    /\ UNCHANGED <<opts, conn, sockets, reader, wire, srv, asked, got, issued, pushes>>
    /\ \/ /\ obuf # <<>> /\ conn.ret = "OK"
          /\ \E n \in 1..Len(obuf) :
                /\ obuf' = Drop(obuf, n)
                /\ inbox' = IF srv = "up" THEN inbox \o Take(obuf, n) ELSE inbox
                /\ pc' = IF pc = "writing" /\ n = Len(obuf) THEN "reading" ELSE pc
          /\ UNCHANGED c
       \/ /\ obuf = <<>> /\ pc = "writing"
          /\ pc' = "reading"
          /\ UNCHANGED <<c, obuf, inbox>>
       \/ /\ obuf # <<>> /\ (srv = "closed" \/ conn.ret # "OK" \/ sockets[c.fd].timeout)
          /\ c' = SetError(c, "io")
          /\ pc' = "idle"
          /\ UNCHANGED <<obuf, inbox>>

\* Faulty variant: the timeout of a blocking read means try again.
ReadFails_Retries ==
    /\ srv = "closed" \/ conn.ret # "OK"
    /\ c' = SetError(c, IF srv = "closed" THEN "eof" ELSE "io")
    /\ pc' = "idle"
    /\ UNCHANGED <<reader, wire, got, pushes>>

\* recv(2) fails: end of file, the command timeout, or a connect that failed.
ReadFails ==
    /\ srv = "closed" \/ conn.ret # "OK" \/ sockets[c.fd].timeout
    /\ c' = SetError(c, IF srv = "closed" THEN "eof" ELSE "io")
    /\ pc' = "idle"
    /\ UNCHANGED <<reader, wire, got, pushes>>

\* valkeyBufferRead and the parsing after it: the read loop of valkeyGetReply
\* goes on until there is a reply.  A non-blocking program only buffers.
valkeyBufferRead ==
    /\ pc = "reading" \/ (pc = "idle" /\ ~ opts.block /\ conn.op # "none")
    /\ c.err = "none" /\ ~ reader.err
    /\ UNCHANGED <<opts, conn, sockets, obuf, inbox, srv, asked, issued>>
    /\ \/ /\ wire # <<>>
          /\ \E n \in 1..Len(wire) :
                LET fed == [reader EXCEPT !.buf = @ \o Take(wire, n)]
                    x   == NextInBandReply(fed)
                IN  /\ wire' = Drop(wire, n)
                    /\ IF pc = "idle"
                       THEN reader' = fed /\ UNCHANGED <<c, pc, got, pushes>>
                       ELSE /\ reader' = x.rd
                            /\ pushes' = [pushes EXCEPT !.handled = @ + x.pushed]
                            /\ IF x.rd.err
                               THEN c' = SetError(c, "protocol") /\ pc' = "idle" /\ UNCHANGED got
                               ELSE IF x.reply # NULL THEN Deliver(x) /\ UNCHANGED c
                               ELSE UNCHANGED <<c, pc, got>>
       \/ wire = <<>> /\ ReadFails

\* Faulty variant: replies already read are kept for the new connection.
Reconnect_KeepsReader ==
    /\ valkeyReconnect
    /\ obuf' = <<>>
    /\ inbox' = <<>> /\ wire' = <<>> /\ srv' = "up"
    /\ asked' = <<>> /\ got' = <<>>
    /\ UNCHANGED <<issued, pushes, reader>>

\* valkeyReconnect drops both buffers; the server sees a new connection.
Reconnect ==
    /\ valkeyReconnect
    /\ obuf' = <<>>
    /\ reader' = [buf |-> <<>>, err |-> FALSE]
    /\ inbox' = <<>> /\ wire' = <<>> /\ srv' = "up"
    /\ asked' = <<>> /\ got' = <<>>
    /\ UNCHANGED <<issued, pushes>>

\* valkeySetTimeout: refused by a non-blocking context.
valkeySetTimeout ==
    /\ pc = "idle" /\ opts.block /\ c.funcs /\ c.fd # NULL
    /\ ~ opts.timed
    /\ opts' = [opts EXCEPT !.timed = TRUE]
    /\ \/ sockets' = [sockets EXCEPT ![c.fd].timeout = TRUE] /\ UNCHANGED c
       \/ c' = SetError(c, "io") /\ UNCHANGED sockets
    /\ UNCHANGED <<pc, conn, ioVars>>

\* valkeyEnableKeepAlive keeps the socket when it fails,
\* valkeySetTcpUserTimeout closes it.
SocketOptionFails ==
    /\ pc = "idle" /\ conn.ret = "OK" /\ c.fd # NULL /\ c.err = "none"
    /\ \/ opts.type # "unix" /\ c' = SetError(c, "other") /\ UNCHANGED sockets
       \/ Hangup("io")
    /\ UNCHANGED <<opts, pc, conn, ioVars>>

\* valkeyFree, or valkeyFreeKeepFd, which gives the socket to the program.
valkeyFree ==
    /\ pc = "idle" /\ conn.op # "none"
    /\ pc' = "freed"
    /\ obuf' = <<>> /\ reader' = [buf |-> <<>>, err |-> FALSE]
    /\ \/ sockets' = Closed(sockets, c.fd) /\ c' = NetClose(c)
       \/ UNCHANGED <<sockets, c>>
    /\ UNCHANGED <<opts, conn, inbox, wire, srv, asked, got, issued, pushes>>
-----------------------------------------------------------------------------
(* The server. *)

Received == {i \in DOMAIN inbox : inbox[i][3] = 2}

ServerExecutes ==
    /\ srv = "up" /\ Received # {}
    /\ LET n == CHOOSE i \in Received : \A j \in Received : i <= j
       IN  inbox' = Drop(inbox, n) /\ wire' = wire \o Reply(inbox[n][2])
    /\ UNCHANGED <<connVars, obuf, reader, srv, asked, got, issued, pushes>>

ServerPushes ==
    /\ srv = "up" /\ conn.ret = "OK"
    /\ pushes.sent < MaxPushes
    /\ pushes' = [pushes EXCEPT !.sent = @ + 1]
    /\ wire' = wire \o Push
    /\ UNCHANGED <<connVars, obuf, reader, inbox, srv, asked, got, issued>>

\* It closes the connection, with or without nonsense in front of it.
ServerCloses ==
    /\ srv = "up" /\ conn.ret = "OK"
    /\ srv' = "closed"
    /\ wire' \in {wire, wire \o Garbage}
    /\ UNCHANGED <<connVars, obuf, reader, inbox, asked, got, issued, pushes>>

Init ==
    /\ ConnInit
    /\ obuf = <<>>
    /\ reader = [buf |-> <<>>, err |-> FALSE]
    /\ inbox = <<>> /\ wire = <<>> /\ srv = "up"
    /\ asked = <<>> /\ got = <<>> /\ issued = 0
    /\ pushes = [sent |-> 0, handled |-> 0]

Program ==
    \/ valkeyAppendCommand \/ valkeyGetReply \/ Reconnect
    \/ valkeySetTimeout \/ SocketOptionFails \/ valkeyFree

Next ==
    \/ ConnectStep /\ UNCHANGED ioVars
    \/ Program \/ valkeyBufferWrite \/ valkeyBufferRead
    \/ ServerExecutes \/ ServerPushes \/ ServerCloses

Spec == Init /\ [][Next]_vars

\* The thread inside of valkeyGetReply keeps running and the server answers.
LiveSpec ==
    /\ Spec
    /\ WF_vars(pc = "writing" /\ valkeyBufferWrite)
    /\ WF_vars(pc = "reading" /\ valkeyBufferRead)
    /\ WF_vars(ServerExecutes)
-----------------------------------------------------------------------------
(* Properties *)

\* Types: at most one call is under way, c exists from the first call on.
TypeOK ==
    /\ pc \in {"start", "idle", "connected", "tcp", "unix", "userfd", "bind", "call",
               "wait", "finish", "writing", "reading", "freed"}
    /\ pc # "start" => c.err \in {"none", "io", "eof", "oom", "other", "protocol"}
    /\ pc # "start" => c.fd \in DOMAIN sockets \cup {NULL}
    /\ pushes.handled <= pushes.sent /\ pushes.sent <= MaxPushes
    /\ issued \in 0..MaxCmds

\* Which of the returned replies are no push messages, and how many up to i.
Answers == {i \in DOMAIN got : got[i][1] # "push"}
AnswersUpTo(i) == Cardinality({j \in Answers : j <= i})

\* The n-th reply of a connection answers the n-th command appended to it,
\* across partial writes and reads, errors, timeouts, push messages and
\* reconnects: a late reply never answers another command (valkeyGetReply).
OwnReply ==
    \A i \in Answers : AnswersUpTo(i) <= Len(asked) /\ got[i][2] = asked[AnswersUpTo(i)]

\* Push messages never take the place of a reply while there is a push
\* callback (valkeyHandledPushReply).
PushesAside == opts.push => Answers = DOMAIN got

\* A call that blocks holds no error, has an open socket in blocking mode, and
\* has sent everything before it waits for an answer (valkeyGetReply).
BlocksOnLiveSocket ==
    /\ pc \in {"writing", "reading"} => c.err = "none" /\ c.fd \in OpenSockets
    /\ pc = "reading" => obuf = <<>>

\* valkeyGetReply returns when an answer is owed to the program, when the
\* server has gone or when a command timeout was set, which the code leaves to
\* SO_RCVTIMEO.
Owed == Cardinality(Answers) < Len(asked) \/ srv = "closed" \/ opts.timed
GetReplyReturns == (pc \in {"writing", "reading"} /\ Owed) ~> pc \notin {"writing", "reading"}

\* The replies of a connection are in step with its commands, push messages
\* aside (valkeyGetReply, valkeyReconnect).
RepliesInStep == TypeOK /\ OwnReply /\ PushesAside

\* The context always holds the one open socket, in the mode and with the
\* timeout its calls rely on, and only blocks where an answer can come
\* (valkeyContextConnectTcp, valkeyReconnect, valkeyGetReply).
SocketSound ==
    NoSocketLeak /\ SocketModeMatches /\ TimeoutSurvivesReconnect /\ BlocksOnLiveSocket

\* A connect ends in bounded time and says how it went (valkeyContextConnectTcp);
\* the time spent in plain getaddrinfo, which nothing bounds, counts as none
\* (src/src/dns.c:345).
ConnectReports == ConnectTimeBounded /\ OutcomeReported
=============================================================================
