----------------------------- MODULE Connection -----------------------------
(***************************************************************************)
(* Connection establishment: valkeyConnectWithOptions and valkeyReconnect   *)
(* (src/src/valkey.c), the connect functions of TCP, unix domain and        *)
(* user-supplied sockets (src/src/net.c, src/src/conn.c) and name           *)
(* resolution (src/src/dns.c).                                             *)
(*                                                                         *)
(* Sockets have identities, so that one that is neither closed nor held by  *)
(* the context shows.  Every system call may fail, and poll(2) may be       *)
(* interrupted at any time.  Time advances in ticks while the code waits;   *)
(* elapsed adds up the waiting of one call and is capped at MaxElapsed.     *)
(***************************************************************************)
EXTENDS Integers, Sequences, FiniteSets

CONSTANTS
    NULL,
    OptionSets,         \* valkeyOptions that a program may connect with
    Addresses,          \* how many addresses a name resolves to
    ConnectTimeout,     \* connect_timeout in ticks
    ConnectRetries,     \* VALKEY_CONNECT_RETRIES
    MaxSockets,         \* bound: sockets created in a behaviour
    MaxElapsed          \* bound: where the count of waiting saturates

\* Descriptors are numbers, and NULL stands for none.
ASSUME ConnectionAssumption ==
    /\ Addresses \in Nat \ {0} /\ ConnectTimeout \in Nat \ {0}
    /\ ConnectRetries \in Nat \ {0} /\ MaxSockets \in Nat /\ MaxElapsed \in Nat
    /\ OptionSets \subseteq [type : {"tcp", "unix", "userfd"}, block : BOOLEAN,
                             source : BOOLEAN, reuse : BOOLEAN, timed : BOOLEAN,
                             mptcp : BOOLEAN, push : BOOLEAN, cares : BOOLEAN]
    /\ NULL \notin Nat

VARIABLES
    opts,       \* the options of this context
    c,          \* struct valkeyContext without its buffers, NULL before and after
    pc,         \* what the program's thread is doing inside of the library
    conn,       \* the connect call under way
    sockets     \* the open sockets: [id -> flags]

connVars == <<opts, c, pc, conn, sockets>>

NoConn == [op |-> "none", family |-> 0, addr |-> 0, reuses |-> 0,
           waited |-> 0, elapsed |-> 0, ret |-> "none", silent |-> FALSE]

valkeyContextInit ==
    [err |-> "none", fd |-> NULL, connected |-> FALSE, funcs |-> FALSE]

SetError(x, type) == [x EXCEPT !.err = type]
valkeyClearError(x) == [x EXCEPT !.err = "none"]

Waited(n, d) == IF n + d > MaxElapsed THEN MaxElapsed ELSE n + d

FreshSocket == Cardinality(DOMAIN sockets) + 1
OpenSockets == {s \in DOMAIN sockets : sockets[s].open}

\* sockets after close(fd) and after socket(2) returned a new one.
Closed(ss, fd) ==
    IF fd = NULL THEN ss
    ELSE [ss EXCEPT ![fd] = [open |-> FALSE, nonblock |-> FALSE, timeout |-> FALSE]]
Created == [s \in DOMAIN sockets \cup {FreshSocket} |->
               IF s \in DOMAIN sockets THEN sockets[s]
               ELSE [open |-> TRUE, nonblock |-> FALSE, timeout |-> FALSE]]

\* valkeyNetClose: c->fd becomes invalid as its socket is closed.
NetClose(x) == [x EXCEPT !.fd = NULL]

\* Faulty variant: the context forgets the socket without closing it.
Hangup_Forgets(err) ==
    /\ c' = SetError(NetClose(c), err)
    /\ UNCHANGED sockets

\* The error paths that close the socket: valkeySetError then valkeyNetClose.
Hangup(err) ==
    /\ c' = SetError(NetClose(c), err)
    /\ sockets' = Closed(sockets, c.fd)

\* The connect function returns.
Return(ret) == [NoConn EXCEPT !.op = conn.op, !.ret = ret]
-----------------------------------------------------------------------------
(* The callers. *)

\* valkeyConnectWithOptions up to the connect function, which runs unless MPTCP
\* is missing or a timeout cannot be stored.
valkeyConnectWithOptions ==
    /\ pc = "start"
    /\ UNCHANGED <<opts, sockets>>
    /\ \/ /\ opts.mptcp
          /\ c' = SetError(valkeyContextInit, "protocol")
          /\ pc' = "idle"
          /\ conn' = [NoConn EXCEPT !.op = "connect", !.ret = "ERR"]
       \/ /\ ~ opts.mptcp
          /\ c' = [valkeyContextInit EXCEPT !.err = "oom", !.funcs = TRUE]
          /\ pc' = "idle"
          /\ conn' = [NoConn EXCEPT !.op = "connect", !.ret = "ERR"]
       \/ /\ ~ opts.mptcp
          /\ c' = [valkeyContextInit EXCEPT !.funcs = TRUE]
          /\ pc' = opts.type
          /\ conn' = [NoConn EXCEPT !.op = "connect"]

\* valkeyReconnect: the old socket is closed, a new one is made the same way.
\* A context around a socket of the user cannot be connected again, and one
\* without funcs fails the assert.  The buffers are replaced in Blocking.
valkeyReconnect ==
    /\ pc = "idle" /\ c.funcs
    /\ Cardinality(DOMAIN sockets) < MaxSockets
    /\ sockets' = Closed(sockets, c.fd)
    /\ UNCHANGED opts
    /\ \/ /\ opts.type = "userfd"
          /\ c' = SetError(NetClose(c), "other")
          /\ conn' = [NoConn EXCEPT !.op = "reconnect", !.ret = "ERR"]
          /\ pc' = "idle"
       \/ /\ opts.type # "userfd"
          /\ c' = valkeyClearError(NetClose(c))
          /\ conn' = [NoConn EXCEPT !.op = "reconnect"]
          /\ pc' = opts.type

\* After the connect function: SO_RCVTIMEO and SO_SNDTIMEO of the new socket.
\* valkeyConnectWithOptions looks at c->err, valkeyReconnect at the return
\* value; where setsockopt fails c->err is set and the socket stays open.
ApplyTimeout ==
    /\ pc = "connected"
    /\ pc' = "idle"
    /\ UNCHANGED <<opts, conn>>
    /\ \/ /\ ~ (opts.timed /\ opts.block /\ c.fd # NULL /\ c.err = "none")
          /\ UNCHANGED <<c, sockets>>
       \/ /\ opts.timed /\ opts.block /\ c.fd # NULL /\ c.err = "none"
          /\ \/ c' = c /\ sockets' = [sockets EXCEPT ![c.fd].timeout = TRUE]
             \/ c' = SetError(c, "io") /\ UNCHANGED sockets

\* Where valkeyReconnect returns before set_timeout when connecting failed.
Leave(ret) ==
    /\ conn' = Return(ret)
    /\ pc' = IF ret = "OK" \/ conn.op = "connect" THEN "connected" ELSE "idle"
-----------------------------------------------------------------------------
(* Name resolution. *)

\* One query: getaddrinfo, or ares_getaddrinfo with its poll loop, which gives
\* up when the deadline has passed.  What is not found is asked for once more
\* in the other address family.  The failures in front of it (the host name
\* cannot be copied, the timeout is invalid) end the same way.
valkeyResolveSync ==
    /\ pc = "tcp" /\ conn.addr = 0
    /\ UNCHANGED <<opts, sockets>>
    /\ \E d \in IF opts.cares THEN 0..ConnectTimeout ELSE {0} :
         LET waited == [conn EXCEPT !.elapsed = Waited(@, d)]
         IN  \/ /\ conn' = [waited EXCEPT !.addr = 1]
                /\ UNCHANGED <<c, pc>>
             \/ /\ conn.family = 0
                /\ conn' = [waited EXCEPT !.family = 1]
                /\ UNCHANGED <<c, pc>>
             \/ /\ \E err \in {"other", "oom", "io"} : c' = SetError(c, err)
                /\ Leave("ERR")
-----------------------------------------------------------------------------
(* valkeyContextConnectTcp: the loop over the addresses. *)

\* socket(2) fails: the next address is tried, c->err is left as it is.
NoSocket ==
    /\ pc = "tcp" /\ conn.addr \in 1..Addresses
    /\ conn' = [conn EXCEPT !.addr = @ + 1]
    /\ UNCHANGED <<opts, c, pc, sockets>>

\* A new socket, set non-blocking; fcntl may fail.
NewSocket ==
    /\ pc = "tcp" /\ conn.addr \in 1..Addresses
    /\ Cardinality(DOMAIN sockets) < MaxSockets
    /\ UNCHANGED opts
    /\ \/ /\ c' = [c EXCEPT !.fd = FreshSocket]
          /\ sockets' = [Created EXCEPT ![FreshSocket].nonblock = TRUE]
          /\ pc' = IF opts.source THEN "bind" ELSE "call"
          /\ UNCHANGED conn
       \/ /\ c' = SetError(c, "io")
          /\ sockets' = Closed(Created, FreshSocket)
          /\ Leave("ERR")

\* The source address: every failure leaves the socket in the context.  When
\* SO_REUSEADDR cannot be set the function fails without an error in c->err.
BindSource ==
    /\ pc = "bind"
    /\ UNCHANGED <<opts, sockets>>
    /\ \/ pc' = "call" /\ UNCHANGED <<c, conn>>
       \/ c' = SetError(c, "other") /\ Leave("ERR")
       \/ /\ opts.reuse
          /\ conn' = [Return("ERR") EXCEPT !.silent = TRUE]
          /\ pc' = IF conn.op = "connect" THEN "connected" ELSE "idle"
          /\ UNCHANGED c

\* c->saddr cannot be allocated.
AddressOOM ==
    /\ pc = "call"
    /\ c' = SetError(c, "oom")
    /\ Leave("ERR")
    /\ UNCHANGED <<opts, sockets>>

\* connect(2) on the socket of the current address.
ConnectCall ==
    /\ pc = "call"
    /\ UNCHANGED opts
    /\ \/ /\ pc' = "finish"                              \* connected at once
          /\ UNCHANGED <<c, conn, sockets>>
       \/ /\ pc' = IF opts.block THEN "wait" ELSE "finish"      \* EINPROGRESS
          /\ conn' = [conn EXCEPT !.waited = 0]
          /\ UNCHANGED <<c, sockets>>
       \/ /\ opts.reuse                                  \* EADDRNOTAVAIL
          /\ c' = NetClose(c) /\ sockets' = Closed(sockets, c.fd)
          /\ conn' = [conn EXCEPT !.reuses = @ + 1,
                                  !.addr = IF conn.reuses + 1 >= ConnectRetries
                                           THEN @ + 1 ELSE @]
          /\ pc' = "tcp"
       \/ /\ c' = NetClose(c) /\ sockets' = Closed(sockets, c.fd)   \* other
          /\ conn' = [conn EXCEPT !.addr = @ + 1]
          /\ pc' = "tcp"

\* Every address failed.
NoAddressLeft ==
    /\ pc = "tcp" /\ conn.addr = Addresses + 1
    /\ c' = SetError(c, "io")
    /\ Leave("ERR")
    /\ UNCHANGED <<opts, sockets>>

\* What follows a failed wait: the next address, or the end for a unix socket.
AfterFailedWait ==
    IF opts.type = "tcp"
    THEN pc' = "tcp" /\ conn' = [conn EXCEPT !.addr = @ + 1]
    ELSE Leave("ERR")

\* Faulty variant: an interrupted wait never looks at the deadline.
PollInterrupted_NoDeadline ==
    /\ pc = "wait"
    /\ \E d \in 0..(ConnectTimeout - 1) :
         conn' = [conn EXCEPT !.elapsed = Waited(@, d), !.waited = Waited(@, d)]
    /\ UNCHANGED <<opts, c, sockets, pc>>

\* valkeyContextWaitReady: poll is interrupted after d ticks.  It is called
\* again with the whole timeout unless the deadline has passed.
PollInterrupted ==
    /\ pc = "wait"
    /\ UNCHANGED opts
    /\ \E d \in 0..(ConnectTimeout - 1) :
         IF conn.waited + d >= ConnectTimeout
         THEN /\ Hangup("io")
              /\ IF opts.type = "tcp"
                 THEN /\ pc' = "tcp"
                      /\ conn' = [conn EXCEPT !.elapsed = Waited(@, d), !.addr = @ + 1]
                 ELSE Leave("ERR")
         ELSE /\ conn' = [conn EXCEPT !.elapsed = Waited(@, d), !.waited = Waited(@, d)]
              /\ UNCHANGED <<c, sockets, pc>>

\* poll times out or fails.
PollFailed ==
    /\ pc = "wait"
    /\ UNCHANGED opts
    /\ Hangup("io")
    /\ \E d \in {0, ConnectTimeout} :
         IF opts.type = "tcp"
         THEN /\ pc' = "tcp"
              /\ conn' = [conn EXCEPT !.elapsed = Waited(@, d), !.addr = @ + 1]
         ELSE Leave("ERR")

\* The socket is writable: valkeyCheckConnectDone tells whether it connected.
\* For TCP the caller closes a socket that did not, for unix sockets nobody does.
PollReady ==
    /\ pc = "wait"
    /\ UNCHANGED opts
    /\ \/ /\ pc' = "finish"
          /\ \E d \in 0..ConnectTimeout : conn' = [conn EXCEPT !.elapsed = Waited(@, d)]
          /\ UNCHANGED <<c, sockets>>
       \/ /\ IF opts.type = "tcp" THEN Hangup("io")
             ELSE c' = SetError(c, "io") /\ UNCHANGED sockets
          /\ AfterFailedWait

\* TCP_NODELAY and blocking mode, each of which may fail; then the errors of
\* addresses tried before are cleared.
FinishConnect ==
    /\ pc = "finish"
    /\ UNCHANGED opts
    /\ \/ /\ c' = [valkeyClearError(c) EXCEPT !.connected = TRUE]
          /\ sockets' = IF opts.block THEN [sockets EXCEPT ![c.fd].nonblock = FALSE]
                        ELSE sockets
          /\ Leave("OK")
       \/ /\ opts.block
          /\ Hangup("io")
          /\ Leave("ERR")
-----------------------------------------------------------------------------
(* valkeyContextConnectUnix and valkeyContextConnectUserfd. *)

ConnectUnix ==
    /\ pc = "unix"
    /\ Cardinality(DOMAIN sockets) < MaxSockets
    /\ UNCHANGED opts
    /\ \/ /\ \E err \in {"other", "io"} : c' = SetError(c, err)  \* path, socket(2)
          /\ Leave("ERR") /\ UNCHANGED sockets
       \/ /\ c' = SetError(c, "io")                              \* fcntl(2)
          /\ sockets' = Closed(Created, FreshSocket)
          /\ Leave("ERR")
       \/ /\ sockets' = [Created EXCEPT ![FreshSocket].nonblock = TRUE]
          /\ \/ /\ \E err \in {"oom", "io"} :                    \* saddr, timeout
                      c' = SetError([c EXCEPT !.fd = FreshSocket], err)
                /\ Leave("ERR")
             \/ /\ c' = [c EXCEPT !.fd = FreshSocket]
                /\ \/ pc' = "finish" /\ UNCHANGED conn           \* connected
                   \/ /\ pc' = IF opts.block THEN "wait" ELSE "finish"
                      /\ conn' = [conn EXCEPT !.waited = 0]
       \/ /\ sockets' = Closed(Created, FreshSocket)             \* refused
          /\ c' = SetError(c, "io")
          /\ Leave("ERR")

ConnectUserfd ==
    /\ pc = "userfd"
    /\ c' = [c EXCEPT !.fd = FreshSocket, !.connected = TRUE]
    /\ sockets' = Created
    /\ Leave("OK")
    /\ UNCHANGED opts

ConnectStep ==
    \/ valkeyConnectWithOptions \/ ApplyTimeout \/ valkeyResolveSync
    \/ NoSocket \/ NewSocket \/ BindSource \/ AddressOOM \/ ConnectCall
    \/ NoAddressLeft \/ PollInterrupted \/ PollFailed \/ PollReady
    \/ FinishConnect \/ ConnectUnix \/ ConnectUserfd

ConnInit ==
    /\ opts \in OptionSets
    /\ c = NULL
    /\ pc = "start"
    /\ conn = NoConn
    /\ sockets = <<>>
-----------------------------------------------------------------------------
(* Properties *)

\* No descriptor leaks: whatever fails while connecting or reconnecting, the
\* only socket left open is the one in c->fd, and c->fd is never a closed one;
\* valkeyFree closes it unless valkeyFreeKeepFd was asked for it (the
\* valkeyNetClose calls of net.c, the close of valkeyReconnect).
NoSocketLeak ==
    pc # "start" =>
        OpenSockets = IF c.fd = NULL THEN {} ELSE {c.fd}

\* A connected context that reports no error has a socket in the mode its reads
\* and writes expect: EWOULDBLOCK is an error to a blocking context and a wait
\* for ever in one without O_NONBLOCK (valkeySetBlocking).
SocketModeMatches ==
    pc = "idle" /\ conn.ret = "OK" /\ c.err = "none" /\ opts.type # "userfd" =>
        c.fd # NULL /\ sockets[c.fd].nonblock = ~ opts.block

\* The command timeout of the options holds on the socket in use, after a
\* reconnect as well (set_timeout in valkeyConnectWithOptions, valkeyReconnect).
TimeoutSurvivesReconnect ==
    pc = "idle" /\ conn.ret = "OK" /\ c.err = "none" /\ opts.timed /\ opts.block =>
        sockets[c.fd].timeout

\* Connecting ends: each address costs at most the timeout and one more poll
\* that an interrupt started just before the deadline, name resolution one
\* timeout per address family (valkeyContextWaitReady, caresPollLoop).
ConnectTimeBounded ==
    conn.elapsed <= Addresses * (2 * ConnectTimeout - 1) + 2 * ConnectTimeout

\* A failed connect is visible in c->err and a successful one is not, whichever
\* address failed before; the only exception is SO_REUSEADDR (conn.silent).
OutcomeReported ==
    pc \in {"idle", "connected"} /\ conn.op # "none" =>
        /\ conn.ret = "ERR" => c.err # "none" \/ conn.silent
        /\ pc = "connected" /\ conn.ret = "OK" => c.err = "none" /\ c.fd # NULL
=============================================================================
