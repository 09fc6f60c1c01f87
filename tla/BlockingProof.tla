---------------------------- MODULE BlockingProof ----------------------------
(***************************************************************************)
(* Proofs about the synchronous context (Blocking on Connection), for every *)
(* set of options, number of addresses, timeout, and number of commands.    *)
(***************************************************************************)
EXTENDS Blocking, FiniteSetTheorems, FunctionTheorems, WellFoundedInduction, TLAPS

-----------------------------------------------------------------------------
(* The inductive invariant of the connection. *)

Errors == {"none", "io", "eof", "oom", "other", "protocol"}
Flags == [open : BOOLEAN, nonblock : BOOLEAN, timeout : BOOLEAN]
OptionType ==
    [type : {"tcp", "unix", "userfd"}, block : BOOLEAN, source : BOOLEAN, reuse : BOOLEAN,
     timed : BOOLEAN, mptcp : BOOLEAN, push : BOOLEAN, cares : BOOLEAN]
ConnType ==
    [op : {"none", "connect", "reconnect"}, family : 0..1, addr : 0..Addresses + 1,
     reuses : Nat, waited : Nat, elapsed : Nat, ret : {"none", "OK", "ERR"},
     silent : BOOLEAN]
PCs == {"start", "idle", "connected", "tcp", "unix", "userfd", "bind", "call",
        "wait", "finish", "writing", "reading", "freed"}
ContextTypeOf(ss) ==
    [err : Errors, fd : DOMAIN ss \cup {NULL}, connected : BOOLEAN, funcs : BOOLEAN]

\* Where the library has no socket yet, where it is connecting one, and where
\* the program has the context.
Fresh == {"tcp", "unix", "userfd"}
Connecting == {"bind", "call", "wait", "finish"}
Usable == {"idle", "writing", "reading"}

ConnTyped ==
    /\ opts \in OptionType
    /\ pc \in PCs
    /\ conn \in ConnType
    /\ sockets \in Seq(Flags)
    /\ pc # "start" => c \in ContextTypeOf(sockets)

\* Where the connect call is.
CallPlaced ==
    /\ pc = "start" => sockets = <<>>
    /\ pc \in Fresh => c.fd = NULL /\ pc = opts.type
    /\ pc = "userfd" => c.err = "none"
    /\ pc \in Connecting => c.fd # NULL /\ opts.type # "userfd" /\ sockets[c.fd].nonblock
    /\ pc \in {"bind", "call"} => opts.type = "tcp"
    /\ pc \in Connecting /\ opts.type = "tcp" => conn.addr \in 1..Addresses
    /\ pc \notin {"tcp"} \cup Connecting => conn.elapsed = 0

\* What a connect call leaves behind.
CallReported ==
    /\ pc \in Usable \cup {"connected"} =>
         /\ conn.ret = "OK" \/ (conn.ret = "ERR" /\ (c.err # "none" \/ conn.silent))
         /\ conn.silent => conn.ret = "ERR"
    /\ pc \in Usable /\ c.err = "none" => c.fd # NULL
    /\ pc = "connected" =>
         /\ conn.silent => c.fd # NULL
         /\ conn.ret = "OK" => c.err = "none" /\ c.fd # NULL
    /\ pc \in Usable \cup {"connected"} /\ conn.ret = "OK" /\ c.err = "none"
         /\ opts.type # "userfd" => sockets[c.fd].nonblock = ~ opts.block
    /\ pc \in Usable /\ conn.ret = "OK" /\ c.err = "none" /\ opts.timed /\ opts.block =>
         sockets[c.fd].timeout

\* What the connect call may have waited for before address a: the two queries
\* and every address tried, each at most PerAddress.
PerAddress == 2 * ConnectTimeout - 1
Before(a) == 2 * ConnectTimeout + (a - 1) * PerAddress

TimeKept ==
    /\ pc = "tcp" /\ conn.addr = 0 => conn.elapsed <= conn.family * ConnectTimeout
    /\ pc \in {"tcp", "bind", "call"} /\ conn.addr > 0 => conn.elapsed <= Before(conn.addr)
    /\ pc = "wait" => conn.waited < ConnectTimeout
    /\ pc = "wait" /\ opts.type = "tcp" => conn.elapsed <= Before(conn.addr) + conn.waited
    /\ pc = "wait" /\ opts.type # "tcp" => conn.elapsed <= conn.waited
    /\ pc = "finish" => conn.elapsed <= Before(Addresses + 1)

ConnInv == ConnTyped /\ CallPlaced /\ CallReported /\ TimeKept /\ NoSocketLeak
           /\ BlocksOnLiveSocket

-----------------------------------------------------------------------------
(* The inductive invariant of the stream. *)

CommandParts == {"cmd"} \X Nat \X {1, 2}

IoTyped ==
    /\ obuf \in Seq(CommandParts)
    /\ reader \in [buf : Seq(Parts), err : BOOLEAN]
    /\ inbox \in Seq(CommandParts)
    /\ wire \in Seq(Parts)
    /\ srv \in {"up", "closed"}
    /\ asked \in Seq(Nat)
    /\ got \in Seq(Parts)
    /\ issued \in 0..MaxCmds
    /\ pushes \in [sent : Nat, handled : Nat]
    /\ reader.err => reader.buf = <<>>

\* The commands before this connection, and up to the last that was answered.
First == issued - Len(asked)
Answered == First + Cardinality(Answers)

\* What the client has not taken yet holds the replies to lo + 1 .. hi, in order.
IsReply(x) == x[1] = "reply"
Replies(s, lo, hi) ==
    /\ \A i \in DOMAIN s : IsReply(s[i]) => s[i][2] \in lo + 1 .. hi
    /\ \A i \in DOMAIN s : ~ IsReply(s[i]) => s[i][3] = 2
    /\ \A i \in DOMAIN s : IsReply(s[i]) /\ s[i][3] = 1 =>
          i + 1 \in DOMAIN s /\ s[i + 1] = <<"reply", s[i][2], 2>>
    /\ \A i \in DOMAIN s : IsReply(s[i]) /\ s[i][3] = 2 =>
          i - 1 \in DOMAIN s /\ s[i - 1] = <<"reply", s[i][2], 1>>
    /\ \A i, j \in DOMAIN s :
          IsReply(s[i]) /\ IsReply(s[j]) /\ s[i][3] = 2 /\ s[j][3] = 2 /\ i < j =>
             s[i][2] < s[j][2]
    /\ \A id \in lo + 1 .. hi : \E i \in DOMAIN s : s[i] = <<"reply", id, 2>>

\* What the server has not executed yet are the commands lo + 1 .. hi, in order.
Commands(s, lo, hi) ==
    /\ Len(s) = 2 * (hi - lo)
    /\ \A k \in 1 .. (hi - lo) :
          s[2 * k - 1] = <<"cmd", lo + k, 1>> /\ s[2 * k] = <<"cmd", lo + k, 2>>

\* The commands of this connection are numbered in a row.
AskedInRow == \A i \in DOMAIN asked : asked[i] = First + i

\* Every command is answered, on its way back or on its way to the server.
Streams ==
    pc # "freed" /\ ~ reader.err =>
        \E served \in Answered .. issued :
            /\ Replies(reader.buf \o wire, Answered, served)
            /\ srv = "up" => Commands(inbox \o obuf, served, issued)

PushPlaces(s) == {i \in DOMAIN s : s[i][1] = "push"}
PushesCounted ==
    /\ pushes.handled + Cardinality(PushPlaces(reader.buf \o wire)) <= pushes.sent
    /\ pushes.sent <= MaxPushes

\* The answers so far are those of the first commands of this connection.
AnsweredInRow ==
    /\ Len(asked) <= issued
    /\ AskedInRow /\ OwnReply /\ PushesAside
    /\ Cardinality(Answers) <= Len(asked)

StreamInv == IoTyped /\ AnsweredInRow /\ Streams /\ PushesCounted

IInv == ConnInv /\ StreamInv

-----------------------------------------------------------------------------
(* What the operators of the connection do. *)

\* The context holds the socket that is open, if one is.
Held(x, ss) == \A s \in DOMAIN ss : ss[s].open <=> s = x.fd

\* c->fd alone is open.
LEMMA LeakMeans ==
    ASSUME NEW ss \in Seq(Flags), NEW x \in ContextTypeOf(ss)
    PROVE  ({s \in DOMAIN ss : ss[s].open} = IF x.fd = NULL THEN {} ELSE {x.fd})
              <=> Held(x, ss)
<1>1. DOMAIN ss \subseteq Nat
  OBVIOUS
<1>2. x.fd \in DOMAIN ss \cup {NULL} /\ NULL \notin DOMAIN ss
  BY <1>1, ConnectionAssumption DEF ContextTypeOf
<1> QED
  BY <1>2 DEF Held

\* A new socket gets the next number and is open and blocking.
LEMMA CreatedFacts ==
    ASSUME sockets \in Seq(Flags)
    PROVE  /\ FreshSocket \in Nat /\ FreshSocket \notin DOMAIN sockets
           /\ Created \in Seq(Flags)
           /\ DOMAIN Created = DOMAIN sockets \cup {FreshSocket}
           /\ \A s \in DOMAIN sockets : Created[s] = sockets[s]
           /\ Created[FreshSocket] = [open |-> TRUE, nonblock |-> FALSE, timeout |-> FALSE]
<1>1. PICK n \in Nat : DOMAIN sockets = 1..n /\ n = Len(sockets)
  OBVIOUS
<1>2. Cardinality(DOMAIN sockets) = n
  <2>1. Cardinality(1..n) = IF 1 > n THEN 0 ELSE n - 1 + 1
    BY FS_Interval
  <2> QED
    BY <1>1, <2>1
<1>3. FreshSocket = n + 1
  BY <1>2 DEF FreshSocket
<1>4. DOMAIN sockets \cup {FreshSocket} = 1..(n + 1)
  BY <1>1, <1>3
<1>5. \A s \in DOMAIN sockets : sockets[s] \in Flags
  OBVIOUS
<1>6. [open |-> TRUE, nonblock |-> FALSE, timeout |-> FALSE] \in Flags
  BY DEF Flags
<1>7. Created \in [1..(n + 1) -> Flags]
  BY <1>4, <1>5, <1>6 DEF Created
<1>8. Created \in Seq(Flags)
  BY <1>7
<1>9. FreshSocket \in Nat /\ FreshSocket \notin DOMAIN sockets
  BY <1>1, <1>3
<1>10. DOMAIN Created = DOMAIN sockets \cup {FreshSocket}
  BY DEF Created
<1>11. \A s \in DOMAIN sockets : Created[s] = sockets[s]
  BY DEF Created
<1>12. Created[FreshSocket] = [open |-> TRUE, nonblock |-> FALSE, timeout |-> FALSE]
  BY <1>9 DEF Created
<1> QED
  BY <1>8, <1>9, <1>10, <1>11, <1>12

\* close(2).
LEMMA ClosedFacts ==
    ASSUME NEW ss \in Seq(Flags), NEW fd \in DOMAIN ss \cup {NULL}
    PROVE  /\ Closed(ss, fd) \in Seq(Flags)
           /\ DOMAIN Closed(ss, fd) = DOMAIN ss
           /\ \A s \in DOMAIN ss : s # fd => Closed(ss, fd)[s] = ss[s]
           /\ fd # NULL => ~ Closed(ss, fd)[fd].open
<1>1. [open |-> FALSE, nonblock |-> FALSE, timeout |-> FALSE] \in Flags
  BY DEF Flags
<1>2. NULL \notin DOMAIN ss
  BY ConnectionAssumption
<1> QED
  BY <1>1, <1>2 DEF Closed

\* Setting a flag of a socket.
LEMMA FlagSet ==
    ASSUME NEW ss \in Seq(Flags), NEW s \in DOMAIN ss, NEW f \in Flags, f.open = ss[s].open,
           NEW tt, tt = [ss EXCEPT ![s] = f]
    PROVE  /\ tt \in Seq(Flags)
           /\ DOMAIN tt = DOMAIN ss
           /\ \A i \in DOMAIN ss : tt[i].open = ss[i].open
           /\ tt[s] = f
OBVIOUS

\* Changing its mode or its timeout leaves a socket open.
LEMMA FlagValues ==
    ASSUME NEW f \in Flags, NEW b \in BOOLEAN
    PROVE  /\ [f EXCEPT !.nonblock = b] \in Flags
           /\ [f EXCEPT !.timeout = b] \in Flags
           /\ [f EXCEPT !.nonblock = b].open = f.open
           /\ [f EXCEPT !.nonblock = b].nonblock = b
           /\ [f EXCEPT !.timeout = b].open = f.open
           /\ [f EXCEPT !.timeout = b].nonblock = f.nonblock
           /\ [f EXCEPT !.timeout = b].timeout = b
BY DEF Flags

\* The time before an address grows by PerAddress from one to the next.
LEMMA BeforeFacts ==
    /\ PerAddress \in Nat
    /\ \A a \in 0..(Addresses + 1) : Before(a) \in Int
    /\ \A a \in 0..Addresses : Before(a + 1) = Before(a) + PerAddress
    /\ \A a \in 1..(Addresses + 1) : Before(a) >= 2 * ConnectTimeout
    /\ \A a \in 0..(Addresses + 1) : Before(a) <= Before(Addresses + 1)
    /\ Before(1) = 2 * ConnectTimeout
    /\ Before(Addresses + 1) = Addresses * PerAddress + 2 * ConnectTimeout
<1>1. PerAddress \in Nat /\ Addresses \in Nat /\ ConnectTimeout \in Nat
  BY ConnectionAssumption DEF PerAddress
<1>2. \A x, y \in Int : x <= y => x * PerAddress <= y * PerAddress
  <2> SUFFICES ASSUME NEW x \in Int, NEW y \in Int, x <= y
               PROVE  x * PerAddress <= y * PerAddress
    OBVIOUS
  <2>1. PICK d \in Nat : y = x + d
    <3>1. y - x \in Nat /\ y = x + (y - x)
      OBVIOUS
    <3> QED
      BY <3>1
  <2>2. d * PerAddress >= 0
    BY <1>1
  <2>3. y * PerAddress = x * PerAddress + d * PerAddress
    BY <1>1, <2>1
  <2> QED
    BY <1>1, <2>2, <2>3
<1>3. \A x \in Int : x * PerAddress \in Int
  BY <1>1
<1>4. \A x \in Int : (x + 1) * PerAddress = x * PerAddress + PerAddress
  BY <1>1
<1>5. 0 * PerAddress = 0
  BY <1>1
<1> HIDE DEF PerAddress
<1>6. \A a \in 0..Addresses : Before(a + 1) = Before(a) + PerAddress
  <2> TAKE a \in 0..Addresses
  <2>1. (a + 1) - 1 = (a - 1) + 1
    BY <1>1
  <2> QED
    BY <1>1, <1>3, <1>4, <2>1 DEF Before
<1>7. \A a \in 1..(Addresses + 1) : Before(a) >= 2 * ConnectTimeout
  BY <1>1, <1>2, <1>3, <1>5 DEF Before
<1>8. \A a \in 0..(Addresses + 1) : Before(a) <= Before(Addresses + 1)
  BY <1>1, <1>2, <1>3 DEF Before
<1>9. Before(1) = 2 * ConnectTimeout
  BY <1>1, <1>5 DEF Before
<1>10. Before(Addresses + 1) = Addresses * PerAddress + 2 * ConnectTimeout
  BY <1>1, <1>3 DEF Before
<1> QED
  BY <1>1, <1>3, <1>6, <1>7, <1>8, <1>9, <1>10 DEF Before

\* Waiting adds up, to MaxElapsed at most.
LEMMA WaitedFacts ==
    ASSUME NEW n \in Nat, NEW d \in Nat
    PROVE  Waited(n, d) \in Nat /\ Waited(n, d) <= n + d
BY ConnectionAssumption DEF Waited

\* Two counts that wait together keep their distance.
LEMMA WaitedTogether ==
    ASSUME NEW n \in Nat, NEW w \in Nat, NEW d \in Nat, NEW b \in Nat, n <= b + w
    PROVE  Waited(n, d) <= b + Waited(w, d)
BY ConnectionAssumption DEF Waited

\* The context after its error was set.
LEMMA ErrorSet ==
    ASSUME NEW ss, NEW x \in ContextTypeOf(ss), NEW e \in Errors
    PROVE  /\ SetError(x, e) \in ContextTypeOf(ss)
           /\ SetError(x, e).err = e
           /\ SetError(x, e).fd = x.fd
BY DEF ContextTypeOf, SetError

\* The context after its descriptor was forgotten or set.
LEMMA FdSet ==
    ASSUME NEW ss, NEW x \in ContextTypeOf(ss), NEW fd \in DOMAIN ss \cup {NULL}
    PROVE  /\ [x EXCEPT !.fd = fd] \in ContextTypeOf(ss)
           /\ [x EXCEPT !.fd = fd].fd = fd
           /\ [x EXCEPT !.fd = fd].err = x.err
BY DEF ContextTypeOf

\* valkeyNetClose.
LEMMA NetCloseSet ==
    ASSUME NEW ss, NEW x \in ContextTypeOf(ss)
    PROVE  NetClose(x) \in ContextTypeOf(ss) /\ NetClose(x).fd = NULL
           /\ NetClose(x).err = x.err
BY DEF ContextTypeOf, NetClose

\* The context after it was marked as connected.
LEMMA ConnectedSet ==
    ASSUME NEW ss, NEW x \in ContextTypeOf(ss)
    PROVE  /\ [x EXCEPT !.connected = TRUE] \in ContextTypeOf(ss)
           /\ [x EXCEPT !.connected = TRUE].fd = x.fd
           /\ [x EXCEPT !.connected = TRUE].err = x.err
BY DEF ContextTypeOf

\* The context type depends on which sockets there are, not on their flags.
LEMMA ContextSame ==
    ASSUME NEW ss, NEW tt, DOMAIN ss \subseteq DOMAIN tt, NEW x \in ContextTypeOf(ss)
    PROVE  x \in ContextTypeOf(tt)
BY DEF ContextTypeOf

\* A result that SO_REUSEADDR is to blame for.
LEMMA SilentSet ==
    ASSUME NEW k \in ConnType
    PROVE  /\ [k EXCEPT !.silent = TRUE] \in ConnType
           /\ [k EXCEPT !.silent = TRUE].silent
           /\ [k EXCEPT !.silent = TRUE].ret = k.ret
           /\ [k EXCEPT !.silent = TRUE].elapsed = k.elapsed
BY DEF ConnType

\* Before the first call.
LEMMA NoConnFacts ==
    /\ NoConn \in ConnType
    /\ ~ NoConn.silent /\ NoConn.elapsed = 0 /\ NoConn.addr = 0 /\ NoConn.family = 0
    /\ NoConn.ret = "none"
<1>1. 0 \in 0..1 /\ 0 \in 0..(Addresses + 1)
  BY ConnectionAssumption
<1> QED
  BY <1>1 DEF ConnType, NoConn

\* What a connect function that returns says.
LEMMA ReturnFacts ==
    ASSUME conn \in ConnType, NEW r \in {"none", "OK", "ERR"}
    PROVE  /\ Return(r) \in ConnType
           /\ Return(r).ret = r /\ ~ Return(r).silent /\ Return(r).elapsed = 0
           /\ Return(r).op = conn.op
           /\ [Return(r) EXCEPT !.silent = TRUE] \in ConnType
           /\ [Return(r) EXCEPT !.silent = TRUE].silent
           /\ [Return(r) EXCEPT !.silent = TRUE].ret = r
           /\ [Return(r) EXCEPT !.silent = TRUE].elapsed = 0
<1>1. conn.op \in {"none", "connect", "reconnect"}
  BY DEF ConnType
<1>2. /\ Return(r) \in ConnType
      /\ Return(r).ret = r /\ ~ Return(r).silent /\ Return(r).elapsed = 0
      /\ Return(r).op = conn.op
  <2>1. PICK n \in ConnType, o \in {"none", "connect", "reconnect"} : n = NoConn /\ o = conn.op
    BY <1>1, NoConnFacts
  <2>2. Return(r) = [n EXCEPT !.op = o, !.ret = r]
    BY <2>1 DEF Return
  <2>3. /\ [n EXCEPT !.op = o, !.ret = r] \in ConnType
        /\ [n EXCEPT !.op = o, !.ret = r].op = o
        /\ [n EXCEPT !.op = o, !.ret = r].ret = r
        /\ [n EXCEPT !.op = o, !.ret = r].silent = n.silent
        /\ [n EXCEPT !.op = o, !.ret = r].elapsed = n.elapsed
    BY DEF ConnType
  <2> QED
    BY <2>1, <2>2, <2>3, NoConnFacts
<1>3. PICK k \in ConnType : k = Return(r)
  BY <1>2
<1>4. /\ [k EXCEPT !.silent = TRUE] \in ConnType
      /\ [k EXCEPT !.silent = TRUE].silent
      /\ [k EXCEPT !.silent = TRUE].ret = k.ret
      /\ [k EXCEPT !.silent = TRUE].elapsed = k.elapsed
  BY SilentSet
<1> QED
  BY <1>2, <1>3, <1>4

\* The facts of ConnInv that every step starts from.
LEMMA ConnFacts ==
    ASSUME ConnInv
    PROVE  /\ opts \in OptionType /\ pc \in PCs /\ conn \in ConnType
           /\ sockets \in Seq(Flags)
           /\ pc # "start" => /\ c \in ContextTypeOf(sockets)
                              /\ Held(c, sockets)
                              /\ c.fd \in DOMAIN sockets \cup {NULL}
                              /\ c.err \in Errors
<1>1. ConnTyped /\ NoSocketLeak
  BY DEF ConnInv
<1>2. pc # "start" => Held(c, sockets)
  BY <1>1, LeakMeans DEF ConnTyped, NoSocketLeak, OpenSockets
<1> QED
  BY <1>1, <1>2 DEF ConnTyped, ContextTypeOf

\* A step leads back to ConnInv when its socket is held.
LEMMA ConnAgain ==
    ASSUME ConnTyped', (pc # "start")', Held(c', sockets'), CallPlaced', CallReported',
           TimeKept', BlocksOnLiveSocket'
    PROVE  ConnInv'
<1>1. sockets' \in Seq(Flags) /\ c' \in ContextTypeOf(sockets')
  BY DEF ConnTyped
<1>2. NoSocketLeak'
  BY <1>1, LeakMeans DEF NoSocketLeak, OpenSockets
<1> QED
  BY <1>2 DEF ConnInv

\* A step of connecting that returns to the program, or fails to connect.
LEMMA LeaveKeeps ==
    ASSUME ConnInv, NEW r \in {"OK", "ERR"}, Leave(r), UNCHANGED opts,
           sockets' \in Seq(Flags), c' \in ContextTypeOf(sockets'), Held(c', sockets'),
           r = "ERR" => c'.err # "none",
           r = "OK" => /\ c'.err = "none" /\ c'.fd # NULL
                       /\ opts.type # "userfd" => sockets'[c'.fd].nonblock = ~ opts.block
    PROVE  ConnInv'
<1>1. conn' \in ConnType /\ conn'.ret = r /\ ~ conn'.silent /\ conn'.elapsed = 0
  BY ConnFacts, ReturnFacts DEF Leave
<1>2. pc' \in {"connected", "idle"} /\ (r = "OK" => pc' = "connected")
  BY DEF Leave
<1>3. ConnTyped'
  BY <1>1, <1>2, ConnFacts DEF ConnTyped, PCs
<1>4. CallPlaced'
  BY <1>1, <1>2 DEF CallPlaced, Fresh, Connecting
<1>5. CallReported'
  BY <1>1, <1>2 DEF CallReported, Usable
<1>6. TimeKept' /\ BlocksOnLiveSocket'
  BY <1>2 DEF TimeKept, BlocksOnLiveSocket
<1> QED
  BY <1>2, <1>3, <1>4, <1>5, <1>6, ConnAgain

\* A step that stays inside of the connect function.
LEMMA ConnectingKeeps ==
    ASSUME ConnInv, UNCHANGED opts, pc' \in {"tcp"} \cup Connecting, conn' \in ConnType,
           sockets' \in Seq(Flags), c' \in ContextTypeOf(sockets'), Held(c', sockets'),
           CallPlaced', TimeKept'
    PROVE  ConnInv'
<1>1. ConnTyped'
  BY ConnFacts DEF ConnTyped, PCs, Connecting
<1>2. CallReported' /\ BlocksOnLiveSocket' /\ (pc # "start")'
  BY DEF CallReported, BlocksOnLiveSocket, Usable, Connecting
<1> QED
  BY <1>1, <1>2, ConnAgain

\* The next address is tried.
LEMMA NextAddressKeeps ==
    ASSUME ConnInv, UNCHANGED opts, opts.type = "tcp", pc' = "tcp",
           conn' \in ConnType, conn'.addr > 0, conn'.elapsed <= Before(conn'.addr),
           sockets' \in Seq(Flags), c' \in ContextTypeOf(sockets'), Held(c', sockets'),
           c'.fd = NULL
    PROVE  ConnInv'
<1>1. CallPlaced'
  BY DEF CallPlaced, Fresh, Connecting
<1>2. TimeKept'
  BY DEF TimeKept
<1> QED
  BY <1>1, <1>2, ConnectingKeeps

\* The socket is closed and the error recorded.
LEMMA HangupFacts ==
    ASSUME ConnInv, pc # "start", NEW e \in Errors, Hangup(e)
    PROVE  /\ sockets' \in Seq(Flags) /\ c' \in ContextTypeOf(sockets')
           /\ Held(c', sockets') /\ c'.fd = NULL /\ c'.err = e
<1>1. /\ sockets \in Seq(Flags) /\ c \in ContextTypeOf(sockets) /\ Held(c, sockets)
      /\ c.fd \in DOMAIN sockets \cup {NULL}
  BY ConnFacts
<1>2. PICK x \in ContextTypeOf(sockets) : x = NetClose(c) /\ x.fd = NULL
  BY <1>1, NetCloseSet
<1>3. c' = SetError(x, e) /\ sockets' = Closed(sockets, c.fd)
  BY <1>2 DEF Hangup
<1>4. c' \in ContextTypeOf(sockets) /\ c'.fd = NULL /\ c'.err = e
  BY <1>2, <1>3, ErrorSet
<1>5. /\ sockets' \in Seq(Flags) /\ DOMAIN sockets' = DOMAIN sockets
      /\ \A s \in DOMAIN sockets : s # c.fd => sockets'[s] = sockets[s]
      /\ (c.fd # NULL => ~ sockets'[c.fd].open)
  BY <1>1, <1>3, ClosedFacts
<1>6. NULL \notin DOMAIN sockets
  BY <1>1, ConnectionAssumption
<1>7. \A s \in DOMAIN sockets : ~ sockets'[s].open
  <2> TAKE s \in DOMAIN sockets
  <2>1. CASE s # c.fd
    <3>1. ~ sockets[s].open
      BY <1>1, <2>1 DEF Held
    <3>2. sockets'[s] = sockets[s]
      BY <1>5, <2>1
    <3> QED
      BY <3>1, <3>2
  <2>2. CASE s = c.fd
    <3>1. c.fd # NULL
      BY <1>6, <2>2
    <3> QED
      BY <1>5, <2>2, <3>1
  <2> QED
    BY <2>1, <2>2
<1>8. Held(c', sockets')
  BY <1>4, <1>5, <1>6, <1>7 DEF Held
<1> QED
  BY <1>4, <1>5, <1>8, ContextSame

\* The socket is closed and the error left as it is.
LEMMA CloseFacts ==
    ASSUME ConnInv, pc # "start", c' = NetClose(c), sockets' = Closed(sockets, c.fd)
    PROVE  /\ sockets' \in Seq(Flags) /\ c' \in ContextTypeOf(sockets')
           /\ Held(c', sockets') /\ c'.fd = NULL /\ c'.err = c.err
<1>1. /\ sockets \in Seq(Flags) /\ c \in ContextTypeOf(sockets) /\ Held(c, sockets)
      /\ c.fd \in DOMAIN sockets \cup {NULL}
  BY ConnFacts
<1>2. c' \in ContextTypeOf(sockets) /\ c'.fd = NULL /\ c'.err = c.err
  BY <1>1, NetCloseSet
<1>3. /\ sockets' \in Seq(Flags) /\ DOMAIN sockets' = DOMAIN sockets
      /\ \A s \in DOMAIN sockets : s # c.fd => sockets'[s] = sockets[s]
      /\ (c.fd # NULL => ~ sockets'[c.fd].open)
  BY <1>1, ClosedFacts
<1>4. NULL \notin DOMAIN sockets
  BY <1>1, ConnectionAssumption
<1>5. \A s \in DOMAIN sockets : ~ sockets'[s].open
  <2> TAKE s \in DOMAIN sockets
  <2>1. CASE s # c.fd
    <3>1. ~ sockets[s].open
      BY <1>1, <2>1 DEF Held
    <3>2. sockets'[s] = sockets[s]
      BY <1>3, <2>1
    <3> QED
      BY <3>1, <3>2
  <2>2. CASE s = c.fd
    <3>1. c.fd # NULL
      BY <1>4, <2>2
    <3> QED
      BY <1>3, <2>2, <3>1
  <2> QED
    BY <2>1, <2>2
<1>6. Held(c', sockets')
  BY <1>2, <1>3, <1>4, <1>5 DEF Held
<1> QED
  BY <1>2, <1>3, <1>6, ContextSame

\* An error that leaves the socket alone.
LEMMA ErrorFacts ==
    ASSUME ConnInv, pc # "start", NEW e \in Errors, c' = SetError(c, e), UNCHANGED sockets
    PROVE  /\ sockets' \in Seq(Flags) /\ c' \in ContextTypeOf(sockets')
           /\ Held(c', sockets') /\ c'.fd = c.fd /\ c'.err = e
<1>1. /\ sockets \in Seq(Flags) /\ c \in ContextTypeOf(sockets) /\ Held(c, sockets)
  BY ConnFacts
<1>2. c' \in ContextTypeOf(sockets) /\ c'.fd = c.fd /\ c'.err = e
  BY <1>1, ErrorSet
<1> QED
  BY <1>1, <1>2 DEF Held

\* A socket that is made and given up at once.
LEMMA CreateClosedFacts ==
    ASSUME ConnInv, pc \in Fresh, NEW e \in Errors, c' = SetError(c, e),
           sockets' = Closed(Created, FreshSocket)
    PROVE  /\ sockets' \in Seq(Flags) /\ c' \in ContextTypeOf(sockets')
           /\ Held(c', sockets') /\ c'.fd = NULL /\ c'.err = e
<1>1. /\ sockets \in Seq(Flags) /\ c \in ContextTypeOf(sockets) /\ Held(c, sockets)
      /\ c.fd = NULL
  BY ConnFacts DEF ConnInv, CallPlaced, Fresh
<1>2. c' \in ContextTypeOf(sockets) /\ c'.fd = NULL /\ c'.err = e
  BY <1>1, ErrorSet
<1>3. /\ FreshSocket \in Nat /\ FreshSocket \notin DOMAIN sockets
      /\ Created \in Seq(Flags)
      /\ DOMAIN Created = DOMAIN sockets \cup {FreshSocket}
      /\ \A s \in DOMAIN sockets : Created[s] = sockets[s]
  BY <1>1, CreatedFacts
<1>4. /\ sockets' \in Seq(Flags) /\ DOMAIN sockets' = DOMAIN Created
      /\ \A s \in DOMAIN Created : s # FreshSocket => sockets'[s] = Created[s]
      /\ FreshSocket # NULL => ~ sockets'[FreshSocket].open
  BY <1>3, ClosedFacts
<1>5. FreshSocket # NULL /\ NULL \notin DOMAIN Created
  BY <1>3, ConnectionAssumption
<1>6. \A s \in DOMAIN Created : ~ sockets'[s].open
  BY <1>1, <1>3, <1>4, <1>5 DEF Held
<1>7. Held(c', sockets')
  BY <1>2, <1>4, <1>5, <1>6 DEF Held
<1>8. c' \in ContextTypeOf(sockets')
  BY <1>2, <1>3, <1>4, ContextSame
<1> QED
  BY <1>2, <1>4, <1>7, <1>8

\* A socket that is made and kept, with new flags that leave it open.
LEMMA CreateFacts ==
    ASSUME ConnInv, pc \in Fresh, NEW b \in BOOLEAN,
           c' \in ContextTypeOf(Created), c'.fd = FreshSocket,
           sockets' = [Created EXCEPT ![FreshSocket].nonblock = b]
    PROVE  /\ sockets' \in Seq(Flags) /\ c' \in ContextTypeOf(sockets')
           /\ Held(c', sockets') /\ c'.fd # NULL /\ sockets'[c'.fd].nonblock = b
<1>1. /\ sockets \in Seq(Flags) /\ c \in ContextTypeOf(sockets) /\ Held(c, sockets)
      /\ c.fd = NULL
  BY ConnFacts DEF ConnInv, CallPlaced, Fresh
<1>3. /\ FreshSocket \in Nat /\ FreshSocket \notin DOMAIN sockets
      /\ Created \in Seq(Flags)
      /\ DOMAIN Created = DOMAIN sockets \cup {FreshSocket}
      /\ \A s \in DOMAIN sockets : Created[s] = sockets[s]
      /\ Created[FreshSocket] = [open |-> TRUE, nonblock |-> FALSE, timeout |-> FALSE]
  BY <1>1, CreatedFacts
<1>4. PICK f \in Flags : f = [Created[FreshSocket] EXCEPT !.nonblock = b]
                         /\ f.open /\ f.nonblock = b
  <2>1. PICK g \in Flags : g = Created[FreshSocket] /\ g.open = TRUE
    <3>1. [open |-> TRUE, nonblock |-> FALSE, timeout |-> FALSE] \in Flags
      BY DEF Flags
    <3>2. [open |-> TRUE, nonblock |-> FALSE, timeout |-> FALSE].open = TRUE
      OBVIOUS
    <3> QED
      BY <1>3, <3>1, <3>2
  <2>2. /\ [g EXCEPT !.nonblock = b] \in Flags /\ [g EXCEPT !.nonblock = b].open = TRUE
        /\ [g EXCEPT !.nonblock = b].nonblock = b
    BY <2>1 DEF Flags
  <2> QED
    BY <2>1, <2>2
<1>5. sockets' = [Created EXCEPT ![FreshSocket] = f]
  BY <1>3, <1>4
<1>6. /\ sockets' \in Seq(Flags) /\ DOMAIN sockets' = DOMAIN Created
      /\ \A s \in DOMAIN Created : s # FreshSocket => sockets'[s] = Created[s]
      /\ sockets'[FreshSocket] = f
  <2>1. FreshSocket \in DOMAIN Created
    BY <1>3
  <2>2. PICK cc \in Seq(Flags) : cc = Created
    BY <1>3
  <2>3. PICK k \in DOMAIN cc : k = FreshSocket
    BY <2>1, <2>2
  <2>4. sockets' = [cc EXCEPT ![k] = f]
    BY <1>5, <2>2, <2>3
  <2>5. [cc EXCEPT ![k] = f] \in Seq(Flags)
    OBVIOUS
  <2>6. DOMAIN sockets' = DOMAIN cc /\ sockets'[k] = f
        /\ \A s \in DOMAIN cc : s # k => sockets'[s] = cc[s]
    BY <2>4
  <2> QED
    BY <2>2, <2>3, <2>4, <2>5, <2>6
<1>7. FreshSocket # NULL /\ NULL \notin DOMAIN sockets
  BY <1>1, <1>3, ConnectionAssumption
<1>8. Held(c', sockets')
  <2> SUFFICES ASSUME NEW s \in DOMAIN sockets' PROVE sockets'[s].open <=> s = c'.fd
    BY DEF Held
  <2>1. CASE s = FreshSocket
    BY <1>4, <1>6, <2>1
  <2>2. CASE s # FreshSocket
    <3>1. s \in DOMAIN sockets /\ sockets'[s] = sockets[s]
      BY <1>3, <1>6, <2>2
    <3>2. ~ sockets[s].open
      BY <1>1, <1>7, <3>1 DEF Held
    <3> QED
      BY <2>2, <3>1, <3>2
  <2> QED
    BY <2>1, <2>2
<1>9. c' \in ContextTypeOf(sockets')
  <2>1. DOMAIN Created \subseteq DOMAIN sockets'
    BY <1>6
  <2> QED
    BY <2>1 DEF ContextTypeOf
<1> QED
  BY <1>4, <1>6, <1>7, <1>8, <1>9

-----------------------------------------------------------------------------
(* One lemma per step of connecting. *)

\* valkeyConnectWithOptions starts with a context that has no socket.
LEMMA StartKeeps ==
    ASSUME ConnInv, valkeyConnectWithOptions
    PROVE  ConnInv'
<1>1. pc = "start" /\ sockets' = <<>> /\ opts' = opts
  BY DEF valkeyConnectWithOptions, ConnInv, CallPlaced
<1>2. sockets' \in Seq(Flags) /\ opts' \in OptionType
  BY <1>1, ConnFacts
<1>3. /\ c' \in ContextTypeOf(sockets') /\ c'.fd = NULL
      /\ pc' = "idle" => c'.err # "none"
      /\ pc' = "userfd" => c'.err = "none"
  <2> DEFINE y == valkeyContextInit
  <2>0. y \in ContextTypeOf(sockets') /\ y.fd = NULL /\ y.err = "none"
    BY DEF valkeyContextInit, ContextTypeOf, Errors
  <2>1. PICK x \in ContextTypeOf(sockets') :
           x = valkeyContextInit /\ x.fd = NULL /\ x.err = "none"
    BY <2>0
  <2>2. /\ [x EXCEPT !.err = "protocol"] \in ContextTypeOf(sockets')
        /\ [x EXCEPT !.err = "protocol"].fd = x.fd
        /\ [x EXCEPT !.err = "protocol"].err = "protocol"
    BY DEF ContextTypeOf, Errors
  <2>3. /\ [x EXCEPT !.err = "oom", !.funcs = TRUE] \in ContextTypeOf(sockets')
        /\ [x EXCEPT !.err = "oom", !.funcs = TRUE].fd = x.fd
        /\ [x EXCEPT !.err = "oom", !.funcs = TRUE].err = "oom"
    BY DEF ContextTypeOf, Errors
  <2>4. /\ [x EXCEPT !.funcs = TRUE] \in ContextTypeOf(sockets')
        /\ [x EXCEPT !.funcs = TRUE].fd = x.fd
        /\ [x EXCEPT !.funcs = TRUE].err = x.err
    BY DEF ContextTypeOf, Errors
  <2>5. opts.type # "idle"
    BY ConnFacts DEF OptionType
  <2>6. \/ c' = [x EXCEPT !.err = "protocol"] /\ pc' = "idle"
        \/ c' = [x EXCEPT !.err = "oom", !.funcs = TRUE] /\ pc' = "idle"
        \/ c' = [x EXCEPT !.funcs = TRUE] /\ pc' = opts.type
    BY <2>1 DEF valkeyConnectWithOptions, SetError
  <2> QED
    BY <2>1, <2>2, <2>3, <2>4, <2>5, <2>6
<1>4. /\ conn' \in ConnType /\ conn'.elapsed = 0 /\ conn'.addr = 0 /\ ~ conn'.silent
      /\ pc' = "idle" => conn'.ret = "ERR"
  <2>1. PICK n \in ConnType : n = NoConn
    BY NoConnFacts
  <2>2. /\ [n EXCEPT !.op = "connect", !.ret = "ERR"] \in ConnType
        /\ [n EXCEPT !.op = "connect", !.ret = "ERR"].elapsed = n.elapsed
        /\ [n EXCEPT !.op = "connect", !.ret = "ERR"].addr = n.addr
        /\ [n EXCEPT !.op = "connect", !.ret = "ERR"].silent = n.silent
        /\ [n EXCEPT !.op = "connect", !.ret = "ERR"].ret = "ERR"
        /\ [n EXCEPT !.op = "connect"] \in ConnType
        /\ [n EXCEPT !.op = "connect"].elapsed = n.elapsed
        /\ [n EXCEPT !.op = "connect"].addr = n.addr
        /\ [n EXCEPT !.op = "connect"].silent = n.silent
    BY DEF ConnType
  <2>3. \/ conn' = [n EXCEPT !.op = "connect", !.ret = "ERR"]
        \/ conn' = [n EXCEPT !.op = "connect"] /\ pc' = opts.type
    BY <2>1 DEF valkeyConnectWithOptions
  <2>4. opts.type # "idle"
    BY ConnFacts DEF OptionType
  <2> QED
    BY <2>1, <2>2, <2>3, <2>4, NoConnFacts
<1>5. pc' \in Fresh \cup {"idle"} /\ (pc' # "idle" => pc' = opts.type)
  BY ConnFacts DEF valkeyConnectWithOptions, Fresh, OptionType
<1>6. ConnTyped'
  BY <1>2, <1>3, <1>4, <1>5 DEF ConnTyped, PCs, Fresh
<1>7. CallPlaced'
  BY <1>1, <1>3, <1>4, <1>5 DEF CallPlaced, Fresh, Connecting
<1>8. CallReported' /\ BlocksOnLiveSocket'
  BY <1>3, <1>4, <1>5 DEF CallReported, BlocksOnLiveSocket, Fresh, Usable
<1>9. TimeKept'
  <2>1. conn'.family \in 0..1 /\ ConnectTimeout \in Nat
    BY <1>4, ConnectionAssumption DEF ConnType
  <2>2. conn'.family * ConnectTimeout >= 0
    BY <2>1
  <2> QED
    BY <1>4, <1>5, <2>2 DEF TimeKept, Fresh
<1>10. Held(c', sockets')
  BY <1>1 DEF Held
<1> QED
  BY <1>5, <1>6, <1>7, <1>8, <1>9, <1>10, ConnAgain DEF Fresh

\* The timeout is set on the socket, or the context gets an error.
LEMMA ApplyTimeoutKeeps ==
    ASSUME ConnInv, ApplyTimeout
    PROVE  ConnInv'
<1>1. pc = "connected" /\ pc' = "idle" /\ opts' = opts /\ conn' = conn
  BY DEF ApplyTimeout
<1>2. /\ sockets \in Seq(Flags) /\ c \in ContextTypeOf(sockets) /\ Held(c, sockets)
      /\ c.fd \in DOMAIN sockets \cup {NULL} /\ opts \in OptionType /\ conn \in ConnType
  BY <1>1, ConnFacts
<1>3. /\ conn.ret = "OK" \/ (conn.ret = "ERR" /\ (c.err # "none" \/ conn.silent))
      /\ conn.silent => c.fd # NULL /\ conn.ret = "ERR"
      /\ conn.ret = "OK" => c.err = "none" /\ c.fd # NULL
      /\ conn.ret = "OK" /\ opts.type # "userfd" => sockets[c.fd].nonblock = ~ opts.block
      /\ conn.elapsed = 0
  BY <1>1 DEF ConnInv, CallReported, CallPlaced, Connecting
<1>4. CallPlaced' /\ TimeKept' /\ BlocksOnLiveSocket'
  BY <1>1, <1>3 DEF CallPlaced, TimeKept, BlocksOnLiveSocket, Fresh, Connecting
<1>5. CASE /\ ~ (opts.timed /\ opts.block /\ c.fd # NULL /\ c.err = "none")
           /\ c' = c /\ sockets' = sockets
  <2>1. ConnTyped'
    BY <1>1, <1>2, <1>5 DEF ConnTyped, PCs
  <2>2. CallReported'
    BY <1>1, <1>3, <1>5 DEF CallReported, Usable
  <2> QED
    BY <1>1, <1>2, <1>4, <1>5, <2>1, <2>2, ConnAgain
<1>6. CASE /\ opts.timed /\ opts.block /\ c.fd # NULL /\ c.err = "none"
           /\ c' = c /\ sockets' = [sockets EXCEPT ![c.fd].timeout = TRUE]
  <2>1. PICK s \in DOMAIN sockets : s = c.fd
    BY <1>2, <1>6
  <2>2. PICK f \in Flags : /\ f = [sockets[s] EXCEPT !.timeout = TRUE]
                           /\ f.open = sockets[s].open
                           /\ f.nonblock = sockets[s].nonblock /\ f.timeout = TRUE
    <3>1. PICK g \in Flags : g = sockets[s]
      BY <1>2
    <3>2. /\ [g EXCEPT !.timeout = TRUE] \in Flags
          /\ [g EXCEPT !.timeout = TRUE].open = g.open
          /\ [g EXCEPT !.timeout = TRUE].nonblock = g.nonblock
          /\ [g EXCEPT !.timeout = TRUE].timeout = TRUE
      BY DEF Flags
    <3> QED
      BY <3>1, <3>2
  <2>3. sockets' = [sockets EXCEPT ![s] = f]
    BY <1>6, <2>1, <2>2
  <2>4. /\ sockets' \in Seq(Flags) /\ DOMAIN sockets' = DOMAIN sockets
        /\ \A i \in DOMAIN sockets : sockets'[i].open = sockets[i].open
        /\ sockets'[s] = f
    BY <1>2, <2>2, <2>3, FlagSet
  <2>5. Held(c', sockets')
    BY <1>2, <1>6, <2>4 DEF Held
  <2>6. ConnTyped'
    BY <1>1, <1>2, <1>6, <2>4 DEF ConnTyped, PCs, ContextTypeOf
  <2>7. CallReported'
    BY <1>1, <1>3, <1>6, <2>1, <2>2, <2>4 DEF CallReported, Usable
  <2> QED
    BY <1>1, <1>4, <2>5, <2>6, <2>7, ConnAgain
<1>7. CASE c' = SetError(c, "io") /\ sockets' = sockets
  <2>1. /\ sockets' \in Seq(Flags) /\ c' \in ContextTypeOf(sockets')
        /\ Held(c', sockets') /\ c'.err = "io"
    BY <1>1, <1>7, ErrorFacts DEF Errors
  <2>2. ConnTyped'
    BY <1>1, <1>2, <2>1 DEF ConnTyped, PCs
  <2>3. CallReported'
    BY <1>1, <1>3, <2>1 DEF CallReported, Usable
  <2> QED
    BY <1>1, <1>4, <2>1, <2>2, <2>3, ConnAgain
<1> QED
  BY <1>5, <1>6, <1>7 DEF ApplyTimeout

\* Name resolution.
LEMMA ResolveKeeps ==
    ASSUME ConnInv, valkeyResolveSync
    PROVE  ConnInv'
<1>1. pc = "tcp" /\ conn.addr = 0 /\ opts' = opts /\ sockets' = sockets
  BY DEF valkeyResolveSync
<1>2. /\ sockets \in Seq(Flags) /\ c \in ContextTypeOf(sockets) /\ Held(c, sockets)
      /\ conn \in ConnType /\ ConnectTimeout \in Nat
  BY <1>1, ConnFacts, ConnectionAssumption
<1>3. c.fd = NULL /\ opts.type = "tcp" /\ conn.elapsed <= conn.family * ConnectTimeout
  BY <1>1 DEF ConnInv, CallPlaced, TimeKept, Fresh
<1>4. PICK d \in 0..ConnectTimeout :
        LET waited == [conn EXCEPT !.elapsed = Waited(@, d)]
        IN  \/ /\ conn' = [waited EXCEPT !.addr = 1]
               /\ UNCHANGED <<c, pc>>
            \/ /\ conn.family = 0
               /\ conn' = [waited EXCEPT !.family = 1]
               /\ UNCHANGED <<c, pc>>
            \/ /\ \E err \in {"other", "oom", "io"} : c' = SetError(c, err)
               /\ Leave("ERR")
  <2>1. 0 \in 0..ConnectTimeout
    BY <1>2
  <2> QED
    BY <2>1 DEF valkeyResolveSync
<1>5. PICK e \in Nat : e = Waited(conn.elapsed, d) /\ e <= conn.elapsed + d
  <2>1. conn.elapsed \in Nat /\ d \in Nat
    BY <1>2 DEF ConnType
  <2> QED
    BY <2>1, WaitedFacts
<1>6. CASE conn' = [[conn EXCEPT !.elapsed = e] EXCEPT !.addr = 1] /\ UNCHANGED <<c, pc>>
  <2>1. conn' \in ConnType /\ conn'.addr = 1 /\ conn'.elapsed = e
    <3>1. PICK k \in ConnType : k = [conn EXCEPT !.elapsed = e] /\ k.elapsed = e
      <4>1. [conn EXCEPT !.elapsed = e] \in ConnType
        BY <1>2 DEF ConnType
      <4> QED
        BY <1>2, <4>1 DEF ConnType
    <3>2. 1 \in 0..(Addresses + 1)
      BY ConnectionAssumption
    <3>3. conn' = [k EXCEPT !.addr = 1]
      BY <1>6, <3>1
    <3>4. /\ [k EXCEPT !.addr = 1] \in ConnType /\ [k EXCEPT !.addr = 1].addr = 1
          /\ [k EXCEPT !.addr = 1].elapsed = k.elapsed
      BY <3>2 DEF ConnType
    <3> QED
      BY <3>1, <3>3, <3>4
  <2>2. e <= Before(1)
    <3>1. conn.family \in {0, 1} /\ conn.elapsed \in Nat
      BY <1>2 DEF ConnType
    <3>2. conn.family * ConnectTimeout <= ConnectTimeout
      BY <1>2, <3>1
    <3> QED
      BY <1>2, <1>3, <1>5, <3>1, <3>2, BeforeFacts
  <2> QED
    BY <1>1, <1>2, <1>3, <1>6, <2>1, <2>2, NextAddressKeeps
<1>7. CASE /\ conn.family = 0 /\ conn' = [[conn EXCEPT !.elapsed = e] EXCEPT !.family = 1]
           /\ UNCHANGED <<c, pc>>
  <2>1. conn' \in ConnType /\ conn'.addr = 0 /\ conn'.elapsed = e /\ conn'.family = 1
    <3>1. PICK k \in ConnType : k = [conn EXCEPT !.elapsed = e] /\ k.elapsed = e /\ k.addr = 0
      <4>1. [conn EXCEPT !.elapsed = e] \in ConnType
        BY <1>2 DEF ConnType
      <4> QED
        BY <1>1, <1>2, <4>1 DEF ConnType
    <3>2. conn' = [k EXCEPT !.family = 1]
      BY <1>7, <3>1
    <3>3. /\ [k EXCEPT !.family = 1] \in ConnType /\ [k EXCEPT !.family = 1].addr = k.addr
          /\ [k EXCEPT !.family = 1].elapsed = k.elapsed /\ [k EXCEPT !.family = 1].family = 1
      BY DEF ConnType
    <3> QED
      BY <3>1, <3>2, <3>3
  <2>2. e <= 1 * ConnectTimeout
    <3>1. conn.elapsed \in Nat /\ conn.family * ConnectTimeout = 0
      BY <1>2, <1>7 DEF ConnType
    <3> QED
      BY <1>2, <1>3, <1>5, <3>1
  <2>3. CallPlaced'
    BY <1>1, <1>3, <1>7 DEF CallPlaced, Fresh, Connecting
  <2>4. TimeKept'
    BY <1>1, <1>7, <2>1, <2>2 DEF TimeKept
  <2> QED
    BY <1>1, <1>2, <1>7, <2>1, <2>3, <2>4, ConnectingKeeps
<1>8. CASE \E err \in {"other", "oom", "io"} : c' = SetError(c, err) /\ Leave("ERR")
  BY <1>1, <1>8, ErrorFacts, LeaveKeeps DEF Errors
<1> QED
  BY <1>4, <1>5, <1>6, <1>7, <1>8

\* The loop over the addresses goes on or ends without a socket.
LEMMA NoSocketKeeps ==
    ASSUME ConnInv, NoSocket \/ NoAddressLeft
    PROVE  ConnInv'
<1>1. pc = "tcp" /\ opts' = opts /\ sockets' = sockets /\ conn.addr > 0
  BY ConnectionAssumption DEF NoSocket, NoAddressLeft
<1>2. /\ sockets \in Seq(Flags) /\ c \in ContextTypeOf(sockets) /\ Held(c, sockets)
      /\ conn \in ConnType
  BY <1>1, ConnFacts
<1>3. c.fd = NULL /\ opts.type = "tcp" /\ conn.elapsed <= Before(conn.addr)
  BY <1>1 DEF ConnInv, CallPlaced, TimeKept, Fresh
<1>4. CASE NoSocket
  <2>1. /\ conn' \in ConnType /\ conn'.addr = conn.addr + 1 /\ conn'.elapsed = conn.elapsed
        /\ conn.addr \in 0..Addresses
    <3>1. PICK k \in 0..(Addresses + 1) : k = conn.addr + 1 /\ conn.addr \in 0..Addresses
      BY <1>4, ConnectionAssumption DEF NoSocket
    <3>2. conn' = [conn EXCEPT !.addr = k]
      BY <1>4, <3>1 DEF NoSocket
    <3>3. conn' \in ConnType /\ conn'.addr = k /\ conn'.elapsed = conn.elapsed
      BY <1>2, <3>2 DEF ConnType
    <3> QED
      BY <3>1, <3>3
  <2>2. conn'.elapsed <= Before(conn.addr + 1)
    <3>1. Before(conn.addr + 1) = Before(conn.addr) + PerAddress /\ PerAddress \in Nat
          /\ Before(conn.addr) \in Int
      BY <2>1, BeforeFacts, ConnectionAssumption
    <3>2. conn.elapsed \in Nat
      BY <1>2 DEF ConnType
    <3> QED
      BY <1>3, <2>1, <3>1, <3>2
  <2> QED
    BY <1>1, <1>2, <1>3, <1>4, <2>1, <2>2, NextAddressKeeps DEF NoSocket
<1>5. CASE NoAddressLeft
  BY <1>1, <1>5, ErrorFacts, LeaveKeeps DEF NoAddressLeft, Errors
<1> QED
  BY <1>4, <1>5

\* The context takes the new socket.
LEMMA TakesSocket ==
    ASSUME ConnInv, pc \in Fresh,
           c' = [c EXCEPT !.fd = FreshSocket] \/
              \E e \in Errors : c' = SetError([c EXCEPT !.fd = FreshSocket], e),
           sockets' = [Created EXCEPT ![FreshSocket].nonblock = TRUE]
    PROVE  /\ sockets' \in Seq(Flags) /\ c' \in ContextTypeOf(sockets')
           /\ Held(c', sockets') /\ c'.fd # NULL /\ sockets'[c'.fd].nonblock
<1>1. sockets \in Seq(Flags) /\ c \in ContextTypeOf(sockets)
  BY ConnFacts DEF Fresh
<1>2. FreshSocket \in DOMAIN Created /\ DOMAIN sockets \subseteq DOMAIN Created
  BY <1>1, CreatedFacts
<1>3. c \in ContextTypeOf(Created)
  BY <1>1, <1>2, ContextSame
<1>4. PICK x \in ContextTypeOf(Created) : x = [c EXCEPT !.fd = FreshSocket]
                                          /\ x.fd = FreshSocket
  <2>1. [c EXCEPT !.fd = FreshSocket] \in ContextTypeOf(Created)
        /\ [c EXCEPT !.fd = FreshSocket].fd = FreshSocket
    BY <1>2, <1>3 DEF ContextTypeOf
  <2> QED
    BY <2>1
<1>5. c' \in ContextTypeOf(Created) /\ c'.fd = FreshSocket
  <2>1. CASE c' = x
    BY <1>4, <2>1
  <2>2. CASE \E e \in Errors : c' = SetError(x, e)
    <3>1. PICK e \in Errors : c' = SetError(x, e)
      BY <2>2
    <3>2. SetError(x, e) \in ContextTypeOf(Created) /\ SetError(x, e).fd = x.fd
      BY ErrorSet
    <3> QED
      BY <1>4, <3>1, <3>2
  <2> QED
    BY <1>4, <2>1, <2>2
<1> QED
  BY <1>5, CreateFacts

\* socket(2).
LEMMA NewSocketKeeps ==
    ASSUME ConnInv, NewSocket
    PROVE  ConnInv'
<1>1. pc = "tcp" /\ opts' = opts /\ conn.addr \in 1..Addresses /\ pc \in Fresh
  BY DEF NewSocket, Fresh
<1>2. conn \in ConnType /\ opts \in OptionType
  BY ConnFacts
<1>3. opts.type = "tcp" /\ conn.elapsed <= Before(conn.addr)
  BY <1>1, ConnectionAssumption DEF ConnInv, CallPlaced, TimeKept, Fresh
<1>4. CASE /\ c' = [c EXCEPT !.fd = FreshSocket]
           /\ sockets' = [Created EXCEPT ![FreshSocket].nonblock = TRUE]
           /\ pc' = (IF opts.source THEN "bind" ELSE "call")
           /\ UNCHANGED conn
  <2>1. /\ sockets' \in Seq(Flags) /\ c' \in ContextTypeOf(sockets')
        /\ Held(c', sockets') /\ c'.fd # NULL /\ sockets'[c'.fd].nonblock
    BY <1>1, <1>4, TakesSocket
  <2>2. pc' \in {"bind", "call"}
    BY <1>4
  <2>3. CallPlaced'
    BY <1>1, <1>3, <1>4, <2>1, <2>2 DEF CallPlaced, Fresh, Connecting
  <2>4. TimeKept'
    BY <1>3, <1>4, <2>2 DEF TimeKept
  <2> QED
    BY <1>1, <1>2, <1>4, <2>1, <2>2, <2>3, <2>4, ConnectingKeeps DEF Connecting
<1>5. CASE c' = SetError(c, "io") /\ sockets' = Closed(Created, FreshSocket) /\ Leave("ERR")
  BY <1>1, <1>5, CreateClosedFacts, LeaveKeeps DEF Errors
<1> QED
  BY <1>4, <1>5 DEF NewSocket

\* The source address, and the address that is kept for a reconnect.
LEMMA BindKeeps ==
    ASSUME ConnInv, BindSource \/ AddressOOM
    PROVE  ConnInv'
<1>1. pc \in {"bind", "call"} /\ opts' = opts /\ sockets' = sockets
  BY DEF BindSource, AddressOOM
<1>2. /\ conn \in ConnType /\ opts \in OptionType /\ sockets \in Seq(Flags)
      /\ c \in ContextTypeOf(sockets) /\ Held(c, sockets)
  BY <1>1, ConnFacts
<1>3. /\ opts.type = "tcp" /\ conn.addr \in 1..Addresses /\ conn.elapsed <= Before(conn.addr)
      /\ c.fd # NULL /\ sockets[c.fd].nonblock
  BY <1>1, ConnectionAssumption DEF ConnInv, CallPlaced, TimeKept, Connecting
<1>4. CASE pc' = "call" /\ UNCHANGED <<c, conn>>
  <2>1. CallPlaced'
    BY <1>1, <1>3, <1>4 DEF CallPlaced, Fresh, Connecting
  <2>2. TimeKept'
    BY <1>3, <1>4 DEF TimeKept
  <2> QED
    BY <1>1, <1>2, <1>4, <2>1, <2>2, ConnectingKeeps DEF Connecting
<1>5. CASE \E e \in {"other", "oom"} : c' = SetError(c, e) /\ Leave("ERR")
  BY <1>1, <1>5, ErrorFacts, LeaveKeeps DEF Errors
<1>6. CASE /\ conn' = [Return("ERR") EXCEPT !.silent = TRUE]
           /\ pc' = (IF conn.op = "connect" THEN "connected" ELSE "idle")
           /\ UNCHANGED c
  <2>1. conn' \in ConnType /\ conn'.silent /\ conn'.ret = "ERR" /\ conn'.elapsed = 0
    BY <1>2, <1>6, ReturnFacts
  <2>2. pc' \in {"connected", "idle"}
    BY <1>6
  <2>3. ConnTyped'
    BY <1>1, <1>2, <1>6, <2>1, <2>2 DEF ConnTyped, PCs
  <2>4. CallPlaced' /\ TimeKept' /\ BlocksOnLiveSocket'
    BY <2>1, <2>2 DEF CallPlaced, TimeKept, BlocksOnLiveSocket, Fresh, Connecting
  <2>5. CallReported'
    BY <1>3, <1>6, <2>1, <2>2 DEF CallReported, Usable
  <2> QED
    BY <1>1, <1>2, <1>6, <2>2, <2>3, <2>4, <2>5, ConnAgain
<1> QED
  BY <1>4, <1>5, <1>6 DEF BindSource, AddressOOM

\* connect(2).
LEMMA ConnectCallKeeps ==
    ASSUME ConnInv, ConnectCall
    PROVE  ConnInv'
<1>1. pc = "call" /\ opts' = opts
  BY DEF ConnectCall
<1>2. /\ conn \in ConnType /\ opts \in OptionType /\ sockets \in Seq(Flags)
      /\ c \in ContextTypeOf(sockets) /\ Held(c, sockets)
  BY <1>1, ConnFacts
<1>3. /\ opts.type = "tcp" /\ conn.addr \in 1..Addresses /\ conn.elapsed <= Before(conn.addr)
      /\ c.fd # NULL /\ sockets[c.fd].nonblock
  BY <1>1, ConnectionAssumption DEF ConnInv, CallPlaced, TimeKept, Connecting
<1>4. /\ Before(conn.addr) \in Int /\ Before(conn.addr + 1) = Before(conn.addr) + PerAddress
      /\ PerAddress \in Nat /\ Before(conn.addr) <= Before(Addresses + 1)
      /\ Before(Addresses + 1) \in Int /\ conn.elapsed \in Nat /\ ConnectTimeout \in Nat \ {0}
      /\ conn.addr + 1 \in 0..(Addresses + 1) /\ conn.addr \in 0..(Addresses + 1)
      /\ Addresses \in Nat
  <2>1. conn.elapsed \in Nat /\ Addresses \in Nat /\ ConnectTimeout \in Nat \ {0}
    BY <1>2, ConnectionAssumption DEF ConnType
  <2>2. /\ conn.addr \in 0..Addresses /\ conn.addr \in 0..(Addresses + 1)
        /\ Addresses + 1 \in 0..(Addresses + 1) /\ conn.addr + 1 \in 0..(Addresses + 1)
    BY <1>3, <2>1
  <2> QED
    BY <2>1, <2>2, BeforeFacts
<1>5. CASE pc' = "finish" /\ UNCHANGED <<c, conn, sockets>>
  <2>1. CallPlaced'
    BY <1>1, <1>3, <1>5 DEF CallPlaced, Fresh, Connecting
  <2>2. TimeKept'
    BY <1>3, <1>4, <1>5 DEF TimeKept
  <2> QED
    BY <1>1, <1>2, <1>5, <2>1, <2>2, ConnectingKeeps DEF Connecting
<1>6. CASE /\ pc' \in {"wait", "finish"} /\ conn' = [conn EXCEPT !.waited = 0]
           /\ UNCHANGED <<c, sockets>>
  <2>1. /\ conn' \in ConnType /\ conn'.elapsed = conn.elapsed /\ conn'.addr = conn.addr
        /\ conn'.waited = 0
    BY <1>2, <1>6 DEF ConnType
  <2>2. CallPlaced'
    BY <1>1, <1>3, <1>6, <2>1 DEF CallPlaced, Fresh, Connecting
  <2>3. TimeKept'
    BY <1>1, <1>3, <1>4, <1>6, <2>1 DEF TimeKept
  <2> QED
    BY <1>1, <1>2, <1>6, <2>1, <2>2, <2>3, ConnectingKeeps DEF Connecting
<1>7. CASE /\ c' = NetClose(c) /\ sockets' = Closed(sockets, c.fd) /\ pc' = "tcp"
           /\ \/ conn' = [conn EXCEPT !.reuses = @ + 1,
                                      !.addr = IF conn.reuses + 1 >= ConnectRetries
                                               THEN @ + 1 ELSE @]
              \/ conn' = [conn EXCEPT !.addr = @ + 1]
  <2>1. /\ sockets' \in Seq(Flags) /\ c' \in ContextTypeOf(sockets')
        /\ Held(c', sockets') /\ c'.fd = NULL
    BY <1>1, <1>7, CloseFacts
  <2>2. /\ conn' \in ConnType /\ conn'.elapsed = conn.elapsed
        /\ conn'.addr = conn.addr \/ conn'.addr = conn.addr + 1
    <3>1. CASE conn' = [conn EXCEPT !.addr = @ + 1]
      BY <1>2, <1>4, <3>1 DEF ConnType
    <3>2. CASE conn' = [conn EXCEPT !.reuses = @ + 1,
                                    !.addr = IF conn.reuses + 1 >= ConnectRetries
                                             THEN @ + 1 ELSE @]
      <4>1. PICK a \in 0..(Addresses + 1), n \in Nat :
                /\ a = conn.addr \/ a = conn.addr + 1
                /\ a = (IF conn.reuses + 1 >= ConnectRetries
                        THEN conn.addr + 1 ELSE conn.addr)
                /\ n = conn.reuses + 1
        BY <1>2, <1>4 DEF ConnType
      <4>2. conn' = [conn EXCEPT !.reuses = n, !.addr = a]
        BY <3>2, <4>1
      <4> QED
        BY <1>2, <4>1, <4>2 DEF ConnType
    <3> QED
      BY <1>7, <3>1, <3>2
  <2>3. conn'.addr > 0 /\ conn'.elapsed <= Before(conn'.addr)
    BY <1>3, <1>4, <2>2
  <2> QED
    BY <1>1, <1>3, <1>7, <2>1, <2>2, <2>3, NextAddressKeeps
<1> QED
  BY <1>5, <1>6, <1>7 DEF ConnectCall

\* What is known while the library waits for a connection.
LEMMA WaitFacts ==
    ASSUME ConnInv, pc = "wait"
    PROVE  /\ conn \in ConnType /\ opts \in OptionType /\ sockets \in Seq(Flags)
           /\ c \in ContextTypeOf(sockets) /\ Held(c, sockets)
           /\ c.fd # NULL /\ sockets[c.fd].nonblock /\ opts.type \in {"tcp", "unix"}
           /\ conn.elapsed \in Nat /\ conn.waited \in Nat /\ ConnectTimeout \in Nat \ {0}
           /\ Addresses \in Nat /\ conn.waited < ConnectTimeout
           /\ PerAddress = 2 * ConnectTimeout - 1
           /\ opts.type = "tcp" =>
                /\ conn.addr \in 1..Addresses /\ conn.addr \in Nat
                /\ conn.addr \in 0..(Addresses + 1) /\ conn.addr + 1 \in 0..(Addresses + 1)
                /\ Before(conn.addr) \in Nat
                /\ Before(conn.addr + 1) = Before(conn.addr) + PerAddress
                /\ Before(conn.addr + 1) <= Before(Addresses + 1)
                /\ conn.elapsed <= Before(conn.addr) + conn.waited
           /\ opts.type # "tcp" => conn.elapsed <= conn.waited
           /\ Before(Addresses + 1) \in Nat /\ Before(Addresses + 1) >= 2 * ConnectTimeout
<1>1. /\ conn \in ConnType /\ opts \in OptionType /\ sockets \in Seq(Flags)
      /\ c \in ContextTypeOf(sockets) /\ Held(c, sockets)
  BY ConnFacts
<1>2. /\ c.fd # NULL /\ sockets[c.fd].nonblock /\ opts.type # "userfd"
      /\ opts.type = "tcp" => conn.addr \in 1..Addresses
      /\ conn.waited < ConnectTimeout
      /\ opts.type = "tcp" => conn.elapsed <= Before(conn.addr) + conn.waited
      /\ opts.type # "tcp" => conn.elapsed <= conn.waited
  BY DEF ConnInv, CallPlaced, TimeKept, Connecting
<1>3. opts.type \in {"tcp", "unix"}
  BY <1>1, <1>2 DEF OptionType
<1>4. /\ conn.elapsed \in Nat /\ conn.waited \in Nat /\ ConnectTimeout \in Nat \ {0}
      /\ Addresses \in Nat
  BY <1>1, ConnectionAssumption DEF ConnType
<1>5. /\ Before(Addresses + 1) \in Nat /\ Before(Addresses + 1) >= 2 * ConnectTimeout
  <2>1. Addresses + 1 \in 0..(Addresses + 1) /\ Addresses + 1 \in 1..(Addresses + 1)
    BY <1>4
  <2>2. Before(Addresses + 1) \in Int /\ Before(Addresses + 1) >= 2 * ConnectTimeout
    BY <2>1, BeforeFacts
  <2> QED
    BY <1>4, <2>2
<1>6. ASSUME opts.type = "tcp"
      PROVE  /\ conn.addr \in 1..Addresses /\ conn.addr \in Nat
             /\ conn.addr \in 0..(Addresses + 1) /\ conn.addr + 1 \in 0..(Addresses + 1)
             /\ Before(conn.addr) \in Nat
             /\ Before(conn.addr + 1) = Before(conn.addr) + PerAddress
             /\ Before(conn.addr + 1) <= Before(Addresses + 1)
  <2>1. conn.addr \in 1..Addresses
    BY <1>2, <1>6
  <2>2. /\ conn.addr \in Nat /\ conn.addr \in 0..Addresses /\ conn.addr \in 0..(Addresses + 1)
        /\ conn.addr \in 1..(Addresses + 1) /\ conn.addr + 1 \in 0..(Addresses + 1)
    BY <1>4, <2>1
  <2>3. Before(conn.addr) \in Int /\ Before(conn.addr) >= 2 * ConnectTimeout
    BY <2>2, BeforeFacts
  <2>4. Before(conn.addr + 1) = Before(conn.addr) + PerAddress
    BY <2>2, BeforeFacts
  <2>5. Before(conn.addr + 1) <= Before(Addresses + 1)
    BY <2>2, BeforeFacts
  <2>6. Before(conn.addr) \in Nat
    BY <1>4, <2>3
  <2> QED
    BY <2>1, <2>2, <2>4, <2>5, <2>6
<1> QED
  BY <1>1, <1>2, <1>3, <1>4, <1>5, <1>6 DEF PerAddress

\* The wait for this address is over, after at most PerAddress.
LEMMA WaitOver ==
    ASSUME ConnInv, pc = "wait", UNCHANGED opts, NEW d \in 0..ConnectTimeout, Hangup("io"),
           \/ /\ opts.type = "tcp" /\ pc' = "tcp"
              /\ conn' = [conn EXCEPT !.elapsed = Waited(@, d), !.addr = @ + 1]
           \/ opts.type # "tcp" /\ Leave("ERR")
    PROVE  ConnInv'
<1>1. /\ sockets' \in Seq(Flags) /\ c' \in ContextTypeOf(sockets')
      /\ Held(c', sockets') /\ c'.fd = NULL /\ c'.err = "io"
  BY HangupFacts DEF Errors
<1>2. CASE /\ opts.type = "tcp" /\ pc' = "tcp"
           /\ conn' = [conn EXCEPT !.elapsed = Waited(@, d), !.addr = @ + 1]
  <2>1. conn.elapsed \in Nat /\ d \in Nat /\ conn \in ConnType
        /\ conn.addr + 1 \in 0..(Addresses + 1) /\ conn.addr \in Nat
    BY <1>2, WaitFacts
  <2>2. PICK e \in Nat : e = Waited(conn.elapsed, d) /\ e <= conn.elapsed + d
    BY <2>1, WaitedFacts
  <2>3. PICK a \in 0..(Addresses + 1) : a = conn.addr + 1
    BY <2>1
  <2>4. conn' = [conn EXCEPT !.elapsed = e, !.addr = a]
    BY <1>2, <2>2, <2>3
  <2>5. conn' \in ConnType /\ conn'.elapsed = e /\ conn'.addr = conn.addr + 1
    BY <2>1, <2>3, <2>4 DEF ConnType
  <2>6. conn'.elapsed <= Before(conn.addr + 1) /\ conn'.addr > 0
    <3>1. /\ conn.elapsed <= Before(conn.addr) + conn.waited /\ conn.waited < ConnectTimeout
          /\ Before(conn.addr + 1) = Before(conn.addr) + (2 * ConnectTimeout - 1)
          /\ Before(conn.addr) \in Nat /\ conn.waited \in Nat /\ ConnectTimeout \in Nat
      BY <1>2, WaitFacts
    <3> QED
      BY <2>1, <2>2, <2>5, <3>1
  <2> QED
    BY <1>1, <1>2, <2>5, <2>6, NextAddressKeeps
<1>3. CASE opts.type # "tcp" /\ Leave("ERR")
  BY <1>1, <1>3, LeaveKeeps
<1> QED
  BY <1>2, <1>3

\* poll(2) is interrupted, times out or fails.
LEMMA PollFailsKeeps ==
    ASSUME ConnInv, PollInterrupted \/ PollFailed
    PROVE  ConnInv'
<1>1. pc = "wait" /\ opts' = opts
  BY DEF PollInterrupted, PollFailed
<1>2. ConnectTimeout \in Nat \ {0}
  BY ConnectionAssumption
<1>3. CASE PollFailed
  <2>1. PICK d \in {0, ConnectTimeout} :
           IF opts.type = "tcp"
           THEN /\ pc' = "tcp"
                /\ conn' = [conn EXCEPT !.elapsed = Waited(@, d), !.addr = @ + 1]
           ELSE Leave("ERR")
    BY <1>3 DEF PollFailed
  <2>2. Hangup("io")
    BY <1>3 DEF PollFailed
  <2>3. d \in 0..ConnectTimeout
    BY <1>2
  <2> QED
    BY <1>1, <2>1, <2>2, <2>3, WaitOver
<1>4. CASE PollInterrupted
  <2>1. PICK d \in 0..(ConnectTimeout - 1) :
         IF conn.waited + d >= ConnectTimeout
         THEN /\ Hangup("io")
              /\ IF opts.type = "tcp"
                 THEN /\ pc' = "tcp"
                      /\ conn' = [conn EXCEPT !.elapsed = Waited(@, d), !.addr = @ + 1]
                 ELSE Leave("ERR")
         ELSE /\ conn' = [conn EXCEPT !.elapsed = Waited(@, d), !.waited = Waited(@, d)]
              /\ UNCHANGED <<c, sockets, pc>>
    BY <1>4 DEF PollInterrupted
  <2>2. d \in 0..ConnectTimeout /\ d \in Nat
    BY <1>2
  <2>3. CASE conn.waited + d >= ConnectTimeout
    BY <1>1, <2>1, <2>2, <2>3, WaitOver
  <2>4. CASE ~ (conn.waited + d >= ConnectTimeout)
    <3>1. conn.elapsed \in Nat /\ conn.waited \in Nat /\ conn \in ConnType
      BY <1>1, WaitFacts
    <3>2. PICK e \in Nat : e = Waited(conn.elapsed, d)
      BY <2>2, <3>1, WaitedFacts
    <3>3. PICK w \in Nat : w = Waited(conn.waited, d) /\ w <= conn.waited + d
      BY <2>2, <3>1, WaitedFacts
    <3>4. conn' = [conn EXCEPT !.elapsed = e, !.waited = w] /\ UNCHANGED <<c, sockets, pc>>
      BY <2>1, <2>4, <3>2, <3>3
    <3>5. /\ conn' \in ConnType /\ conn'.elapsed = e /\ conn'.waited = w
          /\ conn'.addr = conn.addr
      BY <3>1, <3>4 DEF ConnType
    <3>6. w < ConnectTimeout
      BY <1>2, <2>2, <2>4, <3>1, <3>3
    <3>7. opts.type = "tcp" => e <= Before(conn.addr) + w
      BY <1>1, <2>2, <3>2, <3>3, WaitFacts, WaitedTogether
    <3>8. opts.type # "tcp" => e <= w
      <4>1. ASSUME opts.type # "tcp" PROVE e <= 0 + w
        <5>1. conn.elapsed <= 0 + conn.waited
          BY <1>1, <3>1, <4>1, WaitFacts
        <5> QED
          BY <2>2, <3>1, <3>2, <3>3, <5>1, WaitedTogether
      <4> QED
        BY <3>3, <4>1
    <3>9. CallPlaced'
      BY <1>1, <3>4, <3>5, WaitFacts DEF CallPlaced, Fresh, Connecting
    <3>10. TimeKept'
      BY <1>1, <3>4, <3>5, <3>6, <3>7, <3>8 DEF TimeKept
    <3> QED
      BY <1>1, <3>4, <3>5, <3>9, <3>10, WaitFacts, ConnectingKeeps DEF Connecting
  <2> QED
    BY <2>3, <2>4
<1> QED
  BY <1>3, <1>4

\* The socket is writable: connected or not.
LEMMA PollReadyKeeps ==
    ASSUME ConnInv, PollReady
    PROVE  ConnInv'
<1>1. pc = "wait" /\ opts' = opts
  BY DEF PollReady
<1>2. CASE /\ pc' = "finish" /\ UNCHANGED <<c, sockets>>
           /\ \E d \in 0..ConnectTimeout : conn' = [conn EXCEPT !.elapsed = Waited(@, d)]
  <2>1. PICK d \in 0..ConnectTimeout : conn' = [conn EXCEPT !.elapsed = Waited(@, d)]
    BY <1>2
  <2>2. conn.elapsed \in Nat /\ d \in Nat /\ conn \in ConnType
    BY <1>1, WaitFacts
  <2>3. PICK e \in Nat : e = Waited(conn.elapsed, d) /\ e <= conn.elapsed + d
    BY <2>2, WaitedFacts
  <2>4. conn' \in ConnType /\ conn'.elapsed = e /\ conn'.addr = conn.addr
    BY <2>1, <2>2, <2>3 DEF ConnType
  <2>5. e <= Before(Addresses + 1)
    <3>1. /\ conn.waited < ConnectTimeout /\ conn.waited \in Nat /\ ConnectTimeout \in Nat
          /\ Before(Addresses + 1) \in Nat /\ Before(Addresses + 1) >= 2 * ConnectTimeout
      BY <1>1, WaitFacts
    <3>2. CASE opts.type = "tcp"
      <4>1. /\ conn.elapsed <= Before(conn.addr) + conn.waited
            /\ Before(conn.addr + 1) = Before(conn.addr) + (2 * ConnectTimeout - 1)
            /\ Before(conn.addr) \in Nat
            /\ Before(conn.addr + 1) <= Before(Addresses + 1)
        BY <1>1, <3>2, WaitFacts
      <4> QED
        BY <2>2, <2>3, <3>1, <4>1
    <3>3. CASE opts.type # "tcp"
      <4>1. conn.elapsed <= conn.waited
        BY <1>1, <3>3, WaitFacts
      <4> QED
        BY <2>2, <2>3, <3>1, <4>1
    <3> QED
      BY <3>2, <3>3
  <2>6. CallPlaced'
    BY <1>1, <1>2, <2>4, WaitFacts DEF CallPlaced, Fresh, Connecting
  <2>7. TimeKept'
    BY <1>2, <2>4, <2>5 DEF TimeKept
  <2> QED
    BY <1>1, <1>2, <2>4, <2>6, <2>7, WaitFacts, ConnectingKeeps DEF Connecting
<1>3. CASE opts.type = "tcp" /\ Hangup("io") /\ AfterFailedWait
  <2>1. /\ sockets' \in Seq(Flags) /\ c' \in ContextTypeOf(sockets')
        /\ Held(c', sockets') /\ c'.fd = NULL
    BY <1>1, <1>3, HangupFacts DEF Errors
  <2>2. pc' = "tcp" /\ conn' = [conn EXCEPT !.addr = @ + 1]
    BY <1>3 DEF AfterFailedWait
  <2>3. conn \in ConnType /\ conn.addr \in Nat /\ conn.addr + 1 \in 0..(Addresses + 1)
        /\ conn.elapsed \in Nat
    BY <1>1, <1>3, WaitFacts
  <2>4. conn' \in ConnType /\ conn'.addr = conn.addr + 1 /\ conn'.elapsed = conn.elapsed
    BY <2>2, <2>3 DEF ConnType
  <2>5. conn'.addr > 0 /\ conn'.elapsed <= Before(conn'.addr)
    <3>1. /\ conn.elapsed <= Before(conn.addr) + conn.waited /\ conn.waited < ConnectTimeout
          /\ Before(conn.addr + 1) = Before(conn.addr) + (2 * ConnectTimeout - 1)
          /\ Before(conn.addr) \in Nat /\ conn.waited \in Nat /\ ConnectTimeout \in Nat
      BY <1>1, <1>3, WaitFacts
    <3> QED
      BY <2>3, <2>4, <3>1
  <2> QED
    BY <1>1, <1>3, <2>1, <2>2, <2>4, <2>5, NextAddressKeeps
<1>4. CASE opts.type # "tcp" /\ c' = SetError(c, "io") /\ UNCHANGED sockets /\ AfterFailedWait
  <2>1. /\ sockets' \in Seq(Flags) /\ c' \in ContextTypeOf(sockets')
        /\ Held(c', sockets') /\ c'.err = "io"
    BY <1>1, <1>4, ErrorFacts DEF Errors
  <2>2. Leave("ERR")
    BY <1>4 DEF AfterFailedWait
  <2> QED
    BY <1>1, <2>1, <2>2, LeaveKeeps
<1> QED
  BY <1>2, <1>3, <1>4 DEF PollReady

\* The last settings of a connected socket.
LEMMA FinishKeeps ==
    ASSUME ConnInv, FinishConnect
    PROVE  ConnInv'
<1>1. pc = "finish" /\ opts' = opts
  BY DEF FinishConnect
<1>2. /\ sockets \in Seq(Flags) /\ c \in ContextTypeOf(sockets) /\ Held(c, sockets)
      /\ c.fd \in DOMAIN sockets \cup {NULL} /\ opts \in OptionType
  BY <1>1, ConnFacts
<1>3. c.fd # NULL /\ sockets[c.fd].nonblock /\ c.fd \in DOMAIN sockets
  BY <1>1, <1>2 DEF ConnInv, CallPlaced, Connecting
<1>4. CASE opts.block /\ Hangup("io") /\ Leave("ERR")
  BY <1>1, <1>4, HangupFacts, LeaveKeeps DEF Errors
<1>5. CASE /\ c' = [valkeyClearError(c) EXCEPT !.connected = TRUE]
           /\ sockets' = (IF opts.block THEN [sockets EXCEPT ![c.fd].nonblock = FALSE]
                          ELSE sockets)
           /\ Leave("OK")
  <2>1. c' \in ContextTypeOf(sockets) /\ c'.fd = c.fd /\ c'.err = "none"
    <3>1. PICK x \in ContextTypeOf(sockets) :
             x = valkeyClearError(c) /\ x.fd = c.fd /\ x.err = "none"
      <4>1. valkeyClearError(c) = SetError(c, "none")
        BY DEF valkeyClearError, SetError
      <4> QED
        BY <1>2, <4>1, ErrorSet DEF Errors
    <3>2. /\ [x EXCEPT !.connected = TRUE] \in ContextTypeOf(sockets)
          /\ [x EXCEPT !.connected = TRUE].fd = x.fd
          /\ [x EXCEPT !.connected = TRUE].err = x.err
      BY DEF ContextTypeOf
    <3> QED
      BY <1>5, <3>1, <3>2
  <2>2. CASE ~ opts.block
    <3>1. sockets' = sockets
      BY <1>5, <2>2
    <3>2. Held(c', sockets')
      BY <1>2, <2>1, <3>1 DEF Held
    <3>3. sockets'[c'.fd].nonblock = ~ opts.block
      <4>1. sockets[c.fd] \in Flags
        BY <1>2, <1>3
      <4>2. sockets[c.fd].nonblock = TRUE
        BY <1>3, <4>1 DEF Flags
      <4> QED
        BY <2>1, <2>2, <3>1, <4>2
    <3> QED
      BY <1>1, <1>2, <1>3, <1>5, <2>1, <3>1, <3>2, <3>3, LeaveKeeps
  <2>3. CASE opts.block
    <3>1. PICK s \in DOMAIN sockets : s = c.fd
      BY <1>3
    <3>2. PICK f \in Flags : /\ f = [sockets[s] EXCEPT !.nonblock = FALSE]
                             /\ f.open = sockets[s].open /\ f.nonblock = FALSE
      <4>1. PICK g \in Flags : g = sockets[s]
        BY <1>2
      <4>2. /\ [g EXCEPT !.nonblock = FALSE] \in Flags
            /\ [g EXCEPT !.nonblock = FALSE].open = g.open
            /\ [g EXCEPT !.nonblock = FALSE].nonblock = FALSE
        BY DEF Flags
      <4> QED
        BY <4>1, <4>2
    <3>3. sockets' = [sockets EXCEPT ![s] = f]
      BY <1>5, <2>3, <3>1, <3>2
    <3>4. /\ sockets' \in Seq(Flags) /\ DOMAIN sockets' = DOMAIN sockets
          /\ \A i \in DOMAIN sockets : sockets'[i].open = sockets[i].open
          /\ sockets'[s] = f
      BY <1>2, <3>2, <3>3, FlagSet
    <3>5. Held(c', sockets')
      BY <1>2, <2>1, <3>4 DEF Held
    <3>6. c' \in ContextTypeOf(sockets')
      BY <2>1, <3>4 DEF ContextTypeOf
    <3>7. sockets'[c'.fd].nonblock = ~ opts.block
      <4>1. opts.block = TRUE
        BY <1>2, <2>3 DEF OptionType
      <4> QED
        BY <2>1, <3>1, <3>2, <3>4, <4>1
    <3> QED
      BY <1>1, <1>3, <1>5, <2>1, <3>4, <3>5, <3>6, <3>7, LeaveKeeps
  <2> QED
    BY <2>2, <2>3
<1> QED
  BY <1>4, <1>5 DEF FinishConnect

\* A unix domain socket.
LEMMA UnixKeeps ==
    ASSUME ConnInv, ConnectUnix
    PROVE  ConnInv'
<1>1. pc = "unix" /\ opts' = opts /\ pc \in Fresh
  BY DEF ConnectUnix, Fresh
<1>2. /\ sockets \in Seq(Flags) /\ c \in ContextTypeOf(sockets) /\ Held(c, sockets)
      /\ conn \in ConnType
  BY <1>1, ConnFacts
<1>3. c.fd = NULL /\ opts.type = "unix" /\ conn.elapsed = 0
  BY <1>1 DEF ConnInv, CallPlaced, Fresh, Connecting
<1>4. CASE (\E err \in {"other", "io"} : c' = SetError(c, err)) /\ Leave("ERR")
           /\ UNCHANGED sockets
  BY <1>1, <1>4, ErrorFacts, LeaveKeeps DEF Errors
<1>5. CASE c' = SetError(c, "io") /\ sockets' = Closed(Created, FreshSocket) /\ Leave("ERR")
  BY <1>1, <1>5, CreateClosedFacts, LeaveKeeps DEF Errors
<1>6. CASE /\ sockets' = [Created EXCEPT ![FreshSocket].nonblock = TRUE]
           /\ \E err \in {"oom", "io"} : c' = SetError([c EXCEPT !.fd = FreshSocket], err)
           /\ Leave("ERR")
  <2>1. PICK err \in {"oom", "io"} : c' = SetError([c EXCEPT !.fd = FreshSocket], err)
    BY <1>6
  <2>2. err \in Errors
    BY DEF Errors
  <2>3. /\ sockets' \in Seq(Flags) /\ c' \in ContextTypeOf(sockets') /\ Held(c', sockets')
    BY <1>1, <1>6, <2>1, <2>2, TakesSocket
  <2>4. c'.err # "none"
    <3>1. PICK y : y = [c EXCEPT !.fd = FreshSocket]
      OBVIOUS
    <3>2. [y EXCEPT !.err = err].err = err
      <4>1. "err" \in DOMAIN y
        BY <1>2, <3>1 DEF ContextTypeOf
      <4> QED
        BY <3>1, <4>1
    <3> QED
      BY <2>1, <3>1, <3>2 DEF SetError
  <2> QED
    BY <1>1, <1>6, <2>3, <2>4, LeaveKeeps
<1>7. CASE /\ sockets' = [Created EXCEPT ![FreshSocket].nonblock = TRUE]
           /\ c' = [c EXCEPT !.fd = FreshSocket]
           /\ \/ pc' = "finish" /\ UNCHANGED conn
              \/ pc' \in {"wait", "finish"} /\ conn' = [conn EXCEPT !.waited = 0]
  <2>1. /\ sockets' \in Seq(Flags) /\ c' \in ContextTypeOf(sockets')
        /\ Held(c', sockets') /\ c'.fd # NULL /\ sockets'[c'.fd].nonblock
    BY <1>1, <1>7, TakesSocket
  <2>2. /\ conn' \in ConnType /\ conn'.elapsed = 0 /\ pc' \in {"wait", "finish"}
        /\ pc' = "wait" => conn'.waited = 0
    BY <1>2, <1>3, <1>7 DEF ConnType
  <2>3. CallPlaced'
    BY <1>1, <1>3, <2>1, <2>2 DEF CallPlaced, Fresh, Connecting
  <2>4. TimeKept'
    <3>1. ConnectTimeout \in Nat \ {0} /\ Before(Addresses + 1) >= 2 * ConnectTimeout
          /\ Before(Addresses + 1) \in Int
      <4>1. /\ ConnectTimeout \in Nat \ {0} /\ Addresses + 1 \in 1..(Addresses + 1)
            /\ Addresses + 1 \in 0..(Addresses + 1)
        BY ConnectionAssumption
      <4> QED
        BY <4>1, BeforeFacts
    <3> QED
      BY <1>1, <1>3, <2>2, <3>1 DEF TimeKept
  <2> QED
    BY <1>1, <2>1, <2>2, <2>3, <2>4, ConnectingKeeps DEF Connecting
<1> QED
  BY <1>4, <1>5, <1>6, <1>7 DEF ConnectUnix

\* A socket of the program.
LEMMA UserfdKeeps ==
    ASSUME ConnInv, ConnectUserfd
    PROVE  ConnInv'
<1>1. pc = "userfd" /\ opts' = opts /\ pc \in Fresh /\ sockets' = Created /\ Leave("OK")
      /\ c' = [c EXCEPT !.fd = FreshSocket, !.connected = TRUE]
  BY DEF ConnectUserfd, Fresh
<1>2. /\ sockets \in Seq(Flags) /\ c \in ContextTypeOf(sockets) /\ Held(c, sockets)
      /\ conn \in ConnType
  BY <1>1, ConnFacts
<1>3. c.fd = NULL /\ opts.type = "userfd" /\ c.err = "none"
  BY <1>1 DEF ConnInv, CallPlaced, Fresh
<1>4. /\ FreshSocket \in Nat /\ FreshSocket \notin DOMAIN sockets
      /\ Created \in Seq(Flags)
      /\ DOMAIN Created = DOMAIN sockets \cup {FreshSocket}
      /\ \A s \in DOMAIN sockets : Created[s] = sockets[s]
      /\ Created[FreshSocket] = [open |-> TRUE, nonblock |-> FALSE, timeout |-> FALSE]
  BY <1>2, CreatedFacts
<1>5. c' \in ContextTypeOf(Created) /\ c'.fd = FreshSocket /\ c'.err = "none"
  BY <1>1, <1>2, <1>3, <1>4 DEF ContextTypeOf
<1>6. FreshSocket # NULL /\ NULL \notin DOMAIN sockets
  BY <1>2, <1>4, ConnectionAssumption
<1>7. Held(c', Created)
  <2> SUFFICES ASSUME NEW s \in DOMAIN Created PROVE Created[s].open <=> s = c'.fd
    BY DEF Held
  <2>1. CASE s = FreshSocket
    <3>1. [open |-> TRUE, nonblock |-> FALSE, timeout |-> FALSE].open = TRUE
      OBVIOUS
    <3> QED
      BY <1>4, <1>5, <2>1, <3>1
  <2>2. CASE s # FreshSocket
    <3>1. s \in DOMAIN sockets /\ Created[s] = sockets[s]
      BY <1>4, <2>2
    <3>2. ~ sockets[s].open
      BY <1>2, <1>3, <1>6, <3>1 DEF Held
    <3> QED
      BY <1>5, <2>2, <3>1, <3>2
  <2> QED
    BY <2>1, <2>2
<1> QED
  BY <1>1, <1>3, <1>4, <1>5, <1>6, <1>7, LeaveKeeps

\* Any step of connecting.
LEMMA ConnectKeeps ==
    ASSUME ConnInv, ConnectStep
    PROVE  ConnInv'
BY StartKeeps, ApplyTimeoutKeeps, ResolveKeeps, NoSocketKeeps, NewSocketKeeps, BindKeeps,
   ConnectCallKeeps, PollFailsKeeps, PollReadyKeeps, FinishKeeps, UnixKeeps, UserfdKeeps
   DEF ConnectStep

\* valkeyReconnect.
LEMMA ReconnectKeeps ==
    ASSUME ConnInv, valkeyReconnect
    PROVE  ConnInv'
<1>1. pc = "idle" /\ opts' = opts /\ sockets' = Closed(sockets, c.fd)
  BY DEF valkeyReconnect
<1>2. /\ sockets \in Seq(Flags) /\ c \in ContextTypeOf(sockets) /\ Held(c, sockets)
      /\ opts \in OptionType
  BY <1>1, ConnFacts
<1>3. PICK x \in ContextTypeOf(sockets) : x = NetClose(c) /\ x.fd = NULL
  BY <1>2, NetCloseSet
<1>4. PICK n \in ConnType :
          n = NoConn /\ n.elapsed = 0 /\ n.addr = 0 /\ n.family = 0 /\ n.silent = FALSE
  <2>1. NoConn.silent = FALSE
    BY DEF NoConn
  <2> QED
    BY <2>1, NoConnFacts
<1>5. CASE /\ opts.type = "userfd" /\ c' = SetError(x, "other")
           /\ conn' = [n EXCEPT !.op = "reconnect", !.ret = "ERR"] /\ pc' = "idle"
  <2>1. Hangup("other")
    BY <1>1, <1>3, <1>5 DEF Hangup
  <2>2. /\ sockets' \in Seq(Flags) /\ c' \in ContextTypeOf(sockets')
        /\ Held(c', sockets') /\ c'.fd = NULL /\ c'.err = "other"
    BY <1>1, <2>1, HangupFacts DEF Errors
  <2>3. conn' \in ConnType /\ conn'.elapsed = 0 /\ conn'.ret = "ERR" /\ conn'.silent = FALSE
    BY <1>4, <1>5 DEF ConnType
  <2>4. ConnTyped'
    BY <1>1, <1>2, <1>5, <2>2, <2>3 DEF ConnTyped, PCs
  <2>5. CallPlaced' /\ TimeKept' /\ BlocksOnLiveSocket'
    BY <1>5, <2>3 DEF CallPlaced, TimeKept, BlocksOnLiveSocket, Fresh, Connecting
  <2>6. CallReported'
    BY <1>5, <2>2, <2>3 DEF CallReported, Usable
  <2> QED
    BY <1>5, <2>2, <2>4, <2>5, <2>6, ConnAgain
<1>6. CASE /\ opts.type # "userfd" /\ c' = valkeyClearError(x)
           /\ conn' = [n EXCEPT !.op = "reconnect"] /\ pc' = opts.type
  <2>1. Hangup("none")
    BY <1>1, <1>3, <1>6 DEF Hangup, valkeyClearError, SetError
  <2>2. /\ sockets' \in Seq(Flags) /\ c' \in ContextTypeOf(sockets')
        /\ Held(c', sockets') /\ c'.fd = NULL
    BY <1>1, <2>1, HangupFacts DEF Errors
  <2>3. conn' \in ConnType /\ conn'.elapsed = 0 /\ conn'.addr = 0 /\ conn'.family = 0
    BY <1>4, <1>6 DEF ConnType
  <2>4. pc' \in {"tcp", "unix"}
    BY <1>2, <1>6 DEF OptionType
  <2>5. ConnTyped'
    BY <1>1, <1>2, <2>2, <2>3, <2>4 DEF ConnTyped, PCs
  <2>6. CallPlaced'
    BY <1>1, <1>6, <2>2, <2>3, <2>4 DEF CallPlaced, Fresh, Connecting
  <2>7. TimeKept'
    <3>1. conn'.family * ConnectTimeout = 0
      BY <2>3, ConnectionAssumption
    <3> QED
      BY <2>3, <2>4, <3>1 DEF TimeKept
  <2>8. CallReported' /\ BlocksOnLiveSocket'
    BY <2>4 DEF CallReported, BlocksOnLiveSocket, Usable
  <2> QED
    BY <2>2, <2>4, <2>5, <2>6, <2>7, <2>8, ConnAgain
<1> QED
  BY <1>3, <1>4, <1>5, <1>6 DEF valkeyReconnect

-----------------------------------------------------------------------------
(* The connection under the program's calls. *)

\* The record of a call stays, its error or where it is may change.
LEMMA UseKeeps ==
    ASSUME ConnInv, pc \in Usable, pc' \in Usable, UNCHANGED <<opts, conn, sockets>>,
           c' = c \/ \E e \in Errors \ {"none"} : c' = SetError(c, e),
           pc' \in {"writing", "reading"} => c' = c /\ c.err = "none",
           pc' = "reading" => obuf' = <<>>
    PROVE  ConnInv'
<1>0. UNCHANGED opts /\ UNCHANGED conn /\ UNCHANGED sockets /\ pc # "start"
      /\ pc \notin {"tcp"} \cup Connecting
  BY DEF Usable, Connecting
<1>1. /\ sockets \in Seq(Flags) /\ c \in ContextTypeOf(sockets) /\ Held(c, sockets)
      /\ opts \in OptionType /\ conn \in ConnType /\ c.fd \in DOMAIN sockets \cup {NULL}
  BY <1>0, ConnFacts
<1>2. /\ c' \in ContextTypeOf(sockets') /\ Held(c', sockets') /\ c'.fd = c.fd
      /\ c' = c \/ c'.err # "none"
  <2>1. CASE c' = c
    BY <1>0, <1>1, <2>1
  <2>2. CASE \E e \in Errors \ {"none"} : c' = SetError(c, e)
    BY <1>0, <2>2, ErrorFacts
  <2> QED
    BY <2>1, <2>2
<1>3. CallPlaced /\ CallReported
  BY DEF ConnInv
<1>4. ConnTyped'
  BY <1>0, <1>1, <1>2 DEF ConnTyped, PCs, Usable
<1>5. CallPlaced' /\ TimeKept'
  BY <1>0, <1>3 DEF CallPlaced, TimeKept, Usable, Fresh, Connecting
<1>6. CallReported'
  BY <1>0, <1>2, <1>3 DEF CallReported, Usable
<1>7. BlocksOnLiveSocket'
  <2>1. pc' \in {"writing", "reading"} => c'.err = "none" /\ c'.fd \in OpenSockets'
    <3>1. c.err = "none" => c.fd # NULL
      BY <1>3 DEF CallReported, Usable
    <3>2. c.fd # NULL => c.fd \in DOMAIN sockets /\ sockets[c.fd].open
      BY <1>1 DEF Held
    <3> QED
      BY <1>0, <3>1, <3>2 DEF OpenSockets
  <2> QED
    BY <2>1 DEF BlocksOnLiveSocket
<1> QED
  BY <1>2, <1>4, <1>5, <1>6, <1>7, ConnAgain DEF Usable

\* Steps that leave the connection and the library's place alone.
LEMMA AsideKeeps ==
    ASSUME ConnInv, UNCHANGED connVars, pc = "idle" \/ UNCHANGED obuf
    PROVE  ConnInv'
<1>1. UNCHANGED opts /\ UNCHANGED c /\ UNCHANGED pc /\ UNCHANGED conn /\ UNCHANGED sockets
  BY DEF connVars
<1>2. ConnTyped' /\ NoSocketLeak'
  BY <1>1 DEF ConnInv, ConnTyped, NoSocketLeak, OpenSockets
<1>3. CallPlaced'
  BY <1>1 DEF ConnInv, CallPlaced
<1>4. CallReported'
  BY <1>1 DEF ConnInv, CallReported
<1>5. TimeKept'
  BY <1>1 DEF ConnInv, TimeKept
<1>6. BlocksOnLiveSocket'
  BY <1>1 DEF ConnInv, BlocksOnLiveSocket, OpenSockets
<1> QED
  BY <1>2, <1>3, <1>4, <1>5, <1>6 DEF ConnInv

\* valkeyGetReply and the functions it calls.
LEMMA GetReplyConn ==
    ASSUME ConnInv, valkeyGetReply
    PROVE  ConnInv'
<1>1. pc = "idle" /\ UNCHANGED <<opts, conn, sockets>>
  BY DEF valkeyGetReply
<1>2. \/ c' = SetError(c, "protocol") /\ pc' = pc
      \/ c' = c /\ pc' = "idle"
      \/ c' = c /\ pc' = IF opts.block /\ c.err = "none" THEN "writing" ELSE "idle"
  BY DEF valkeyGetReply, Deliver
<1> QED
  BY <1>1, <1>2, UseKeeps DEF Usable, Errors

\* A write of all that is left leaves an empty buffer.
LEMMA DropAll ==
    ASSUME NEW S, NEW s \in Seq(S)
    PROVE  Drop(s, Len(s)) = <<>>
BY DEF Drop

\* valkeyBufferWrite.
LEMMA WriteConn ==
    ASSUME ConnInv, IoTyped, valkeyBufferWrite
    PROVE  ConnInv'
<1>1. pc \in {"writing", "idle"} /\ UNCHANGED <<opts, conn, sockets>> /\ c.err = "none"
  BY DEF valkeyBufferWrite
<1>2. CASE \E n \in 1..Len(obuf) :
              /\ obuf' = Drop(obuf, n)
              /\ pc' = (IF pc = "writing" /\ n = Len(obuf) THEN "reading" ELSE pc)
              /\ UNCHANGED c
  <2>1. PICK n \in 1..Len(obuf) :
              /\ obuf' = Drop(obuf, n)
              /\ pc' = (IF pc = "writing" /\ n = Len(obuf) THEN "reading" ELSE pc)
              /\ UNCHANGED c
    BY <1>2
  <2>2. pc' = "reading" => obuf' = <<>>
    BY <1>1, <2>1, DropAll DEF IoTyped
  <2> QED
    BY <1>1, <2>1, <2>2, UseKeeps DEF Usable
<1>3. CASE obuf = <<>> /\ pc' = "reading" /\ UNCHANGED <<c, obuf, inbox>>
  BY <1>1, <1>3, UseKeeps DEF Usable
<1>4. CASE c' = SetError(c, "io") /\ pc' = "idle"
  BY <1>1, <1>4, UseKeeps DEF Usable, Errors
<1> QED
  BY <1>2, <1>3, <1>4 DEF valkeyBufferWrite

\* valkeyBufferRead.
LEMMA ReadConn ==
    ASSUME ConnInv, valkeyBufferRead
    PROVE  ConnInv'
<1>1. /\ pc \in {"reading", "idle"} /\ UNCHANGED <<opts, conn, sockets>> /\ c.err = "none"
      /\ obuf' = obuf
  BY DEF valkeyBufferRead
<1>2. \/ c' = c /\ pc' = pc
      \/ \E e \in {"protocol", "eof", "io"} : c' = SetError(c, e) /\ pc' = "idle"
      \/ c' = c /\ pc' = "idle"
  BY DEF valkeyBufferRead, ReadFails, Deliver
<1>3. pc = "reading" => obuf = <<>>
  BY DEF ConnInv, BlocksOnLiveSocket
<1> QED
  BY <1>1, <1>2, <1>3, UseKeeps DEF Usable, Errors

\* valkeySetTimeout.
LEMMA SetTimeoutConn ==
    ASSUME ConnInv, valkeySetTimeout
    PROVE  ConnInv'
<1>1. /\ pc = "idle" /\ pc' = pc /\ conn' = conn /\ opts.block /\ c.fd # NULL /\ obuf' = obuf
      /\ opts' = [opts EXCEPT !.timed = TRUE]
  BY DEF valkeySetTimeout, ioVars
<1>2. /\ sockets \in Seq(Flags) /\ c \in ContextTypeOf(sockets) /\ Held(c, sockets)
      /\ opts \in OptionType /\ conn \in ConnType /\ c.fd \in DOMAIN sockets \cup {NULL}
  BY <1>1, ConnFacts
<1>3. opts' \in OptionType /\ opts'.type = opts.type /\ opts'.block = opts.block
  BY <1>1, <1>2 DEF OptionType
<1>4. CallPlaced /\ CallReported
  BY DEF ConnInv
<1>5. CallPlaced' /\ TimeKept' /\ BlocksOnLiveSocket'
  <2>1. conn.elapsed = 0
    BY <1>1, <1>4 DEF CallPlaced, Connecting
  <2> QED
    BY <1>1, <2>1 DEF CallPlaced, TimeKept, BlocksOnLiveSocket, Fresh, Connecting
<1>6. CASE sockets' = [sockets EXCEPT ![c.fd].timeout = TRUE] /\ c' = c
  <2>1. PICK s \in DOMAIN sockets : s = c.fd
    BY <1>1, <1>2
  <2>2. PICK f \in Flags : /\ f = [sockets[s] EXCEPT !.timeout = TRUE]
                           /\ f.open = sockets[s].open
                           /\ f.nonblock = sockets[s].nonblock /\ f.timeout = TRUE
    <3>1. PICK g \in Flags : g = sockets[s]
      BY <1>2
    <3>2. /\ [g EXCEPT !.timeout = TRUE] \in Flags
          /\ [g EXCEPT !.timeout = TRUE].open = g.open
          /\ [g EXCEPT !.timeout = TRUE].nonblock = g.nonblock
          /\ [g EXCEPT !.timeout = TRUE].timeout = TRUE
      BY DEF Flags
    <3> QED
      BY <3>1, <3>2
  <2>3. sockets' = [sockets EXCEPT ![s] = f]
    BY <1>6, <2>1, <2>2
  <2>4. /\ sockets' \in Seq(Flags) /\ DOMAIN sockets' = DOMAIN sockets
        /\ \A i \in DOMAIN sockets : sockets'[i].open = sockets[i].open
        /\ sockets'[s] = f
    BY <1>2, <2>2, <2>3, FlagSet
  <2>5. Held(c', sockets')
    BY <1>2, <1>6, <2>4 DEF Held
  <2>6. ConnTyped'
    BY <1>1, <1>2, <1>3, <1>6, <2>4 DEF ConnTyped, PCs, ContextTypeOf
  <2>7. CallReported'
    BY <1>1, <1>3, <1>4, <1>6, <2>1, <2>2, <2>4 DEF CallReported, Usable
  <2> QED
    BY <1>1, <1>5, <2>5, <2>6, <2>7, ConnAgain
<1>7. CASE c' = SetError(c, "io") /\ sockets' = sockets
  <2>1. /\ sockets' \in Seq(Flags) /\ c' \in ContextTypeOf(sockets')
        /\ Held(c', sockets') /\ c'.err = "io"
    BY <1>1, <1>7, ErrorFacts DEF Errors
  <2>2. ConnTyped'
    BY <1>1, <1>2, <1>3, <2>1 DEF ConnTyped, PCs
  <2>3. CallReported'
    BY <1>1, <1>4, <2>1 DEF CallReported, Usable
  <2> QED
    BY <1>1, <1>5, <2>1, <2>2, <2>3, ConnAgain
<1> QED
  BY <1>6, <1>7 DEF valkeySetTimeout

\* A socket option that cannot be set, and the end of the context.
LEMMA OtherConn ==
    ASSUME ConnInv, SocketOptionFails \/ valkeyFree
    PROVE  ConnInv'
<1>1. pc = "idle" /\ opts' = opts /\ conn' = conn
  BY DEF SocketOptionFails, valkeyFree
<1>2. /\ sockets \in Seq(Flags) /\ c \in ContextTypeOf(sockets) /\ Held(c, sockets)
      /\ opts \in OptionType /\ conn \in ConnType
  BY <1>1, ConnFacts
<1>3. conn.elapsed = 0 /\ CallReported
  BY <1>1 DEF ConnInv, CallPlaced, Connecting
<1>4. ASSUME pc' \in {"idle", "freed"}, sockets' \in Seq(Flags), c' \in ContextTypeOf(sockets'),
             Held(c', sockets'), pc' = "idle" => c'.err # "none"
      PROVE  ConnInv'
  <2>1. ConnTyped'
    BY <1>1, <1>2, <1>4 DEF ConnTyped, PCs
  <2>2. CallPlaced' /\ TimeKept' /\ BlocksOnLiveSocket'
    BY <1>1, <1>3, <1>4 DEF CallPlaced, TimeKept, BlocksOnLiveSocket, Fresh, Connecting
  <2>3. CallReported'
    BY <1>1, <1>3, <1>4 DEF CallReported, Usable
  <2> QED
    BY <1>4, <2>1, <2>2, <2>3, ConnAgain
<1>5. CASE SocketOptionFails
  <2>1. \/ c' = SetError(c, "other") /\ UNCHANGED sockets
        \/ Hangup("io")
    BY <1>5 DEF SocketOptionFails
  <2>2. pc' = "idle"
    BY <1>5 DEF SocketOptionFails
  <2>3. CASE c' = SetError(c, "other") /\ UNCHANGED sockets
    BY <1>1, <1>4, <2>2, <2>3, ErrorFacts DEF Errors
  <2>4. CASE Hangup("io")
    BY <1>1, <1>4, <2>2, <2>4, HangupFacts DEF Errors
  <2> QED
    BY <2>1, <2>3, <2>4
<1>6. CASE valkeyFree
  <2>1. \/ sockets' = Closed(sockets, c.fd) /\ c' = NetClose(c)
        \/ UNCHANGED <<sockets, c>>
    BY <1>6 DEF valkeyFree
  <2>2. pc' = "freed"
    BY <1>6 DEF valkeyFree
  <2>3. CASE sockets' = Closed(sockets, c.fd) /\ c' = NetClose(c)
    BY <1>1, <1>4, <2>2, <2>3, CloseFacts
  <2>4. CASE UNCHANGED <<sockets, c>>
    BY <1>2, <1>4, <2>2, <2>4
  <2> QED
    BY <2>1, <2>3, <2>4
<1> QED
  BY <1>5, <1>6

\* Every step keeps the connection's invariant.
LEMMA StepConn ==
    ASSUME ConnInv, IoTyped, [Next]_vars
    PROVE  ConnInv'
<1>1. CASE ConnectStep
  BY <1>1, ConnectKeeps
<1>2. CASE valkeyAppendCommand
  BY <1>2, AsideKeeps DEF valkeyAppendCommand
<1>3. CASE Reconnect
  BY <1>3, ReconnectKeeps DEF Reconnect
<1>4. CASE ServerExecutes \/ ServerPushes \/ ServerCloses
  BY <1>4, AsideKeeps DEF ServerExecutes, ServerPushes, ServerCloses
<1>5. CASE UNCHANGED vars
  BY <1>5, AsideKeeps DEF vars, ioVars
<1> QED
  BY <1>1, <1>2, <1>3, <1>4, <1>5, GetReplyConn, WriteConn, ReadConn, SetTimeoutConn, OtherConn
  DEF Next, Program

-----------------------------------------------------------------------------
(* Sequences and streams. *)

\* Every non-empty set of numbers has a least element.
LEMMA Least ==
    ASSUME NEW S \in SUBSET Nat, S # {}
    PROVE  \E n \in S : \A m \in S : n <= m
<1> DEFINE Below == {ss \in Nat \X Nat : ss[1] < ss[2]}
<1>1. IsWellFoundedOn(Below, Nat)
  BY NatLessThanWellFounded DEF OpToRel
<1> HIDE DEF Below
<1>2. PICK n \in S : \A y \in S : ~(<<y, n>> \in Below)
  BY <1>1, WFMin
<1>3. ASSUME NEW m \in S PROVE n <= m
  <2>1. ~(<<m, n>> \in Below) /\ m \in Nat /\ n \in Nat
    BY <1>2
  <2>2. ~(m < n)
    BY <2>1 DEF Below
  <2> QED
    BY <2>1, <2>2
<1> QED
  BY <1>3

\* What Drop leaves.
LEMMA DropFacts ==
    ASSUME NEW S, NEW s \in Seq(S), NEW n \in 0..Len(s)
    PROVE  /\ Drop(s, n) \in Seq(S)
           /\ Len(Drop(s, n)) = Len(s) - n
           /\ \A i \in 1..(Len(s) - n) : Drop(s, n)[i] = s[i + n]
BY DEF Drop

\* What Take takes.
LEMMA TakeFacts ==
    ASSUME NEW S, NEW s \in Seq(S), NEW n \in 0..Len(s)
    PROVE  /\ Take(s, n) \in Seq(S)
           /\ Len(Take(s, n)) = n
           /\ \A i \in 1..n : Take(s, n)[i] = s[i]
BY DEF Take

\* Two sequences laid one after the other.
LEMMA ConcatFacts ==
    ASSUME NEW S, NEW s \in Seq(S), NEW t \in Seq(S)
    PROVE  /\ s \o t \in Seq(S)
           /\ Len(s \o t) = Len(s) + Len(t)
           /\ \A i \in 1..Len(s) : (s \o t)[i] = s[i]
           /\ \A i \in (Len(s) + 1)..(Len(s) + Len(t)) : (s \o t)[i] = t[i - Len(s)]
OBVIOUS

\* Sequences with the same elements are the same.
LEMMA SameSeq ==
    ASSUME NEW S, NEW s \in Seq(S), NEW t \in Seq(S), Len(s) = Len(t),
           \A i \in 1..Len(s) : s[i] = t[i]
    PROVE  s = t
OBVIOUS

\* What moves from the front of one to the end of the other leaves the whole.
LEMMA MovedAlong ==
    ASSUME NEW S, NEW s \in Seq(S), NEW t \in Seq(S), NEW n \in 0..Len(t)
    PROVE  (s \o Take(t, n)) \o Drop(t, n) = s \o t
<1>1. PICK a \in Seq(S) : a = Take(t, n)
  BY TakeFacts
<1>2. Len(a) = n /\ \A i \in 1..n : a[i] = t[i]
  BY <1>1, TakeFacts
<1>3. PICK b \in Seq(S) : b = Drop(t, n)
  BY DropFacts
<1>4. Len(b) = Len(t) - n /\ \A i \in 1..(Len(t) - n) : b[i] = t[i + n]
  BY <1>3, DropFacts
<1>5. PICK sa \in Seq(S) : sa = s \o a
  BY ConcatFacts
<1>6. /\ Len(sa) = Len(s) + n
      /\ \A i \in 1..Len(s) : sa[i] = s[i]
      /\ \A i \in (Len(s) + 1)..(Len(s) + n) : sa[i] = a[i - Len(s)]
  BY <1>2, <1>5, ConcatFacts
<1>7. PICK u \in Seq(S) : u = sa \o b
  BY ConcatFacts
<1>8. /\ Len(u) = Len(sa) + Len(b)
      /\ \A i \in 1..Len(sa) : u[i] = sa[i]
      /\ \A i \in (Len(sa) + 1)..(Len(sa) + Len(b)) : u[i] = b[i - Len(sa)]
  BY <1>7, ConcatFacts
<1>9. PICK v \in Seq(S) : v = s \o t
  BY ConcatFacts
<1>10. /\ Len(v) = Len(s) + Len(t)
       /\ \A i \in 1..Len(s) : v[i] = s[i]
       /\ \A i \in (Len(s) + 1)..(Len(s) + Len(t)) : v[i] = t[i - Len(s)]
  BY <1>9, ConcatFacts
<1>11. Len(s) \in Nat /\ Len(t) \in Nat /\ n \in Nat /\ n <= Len(t)
  OBVIOUS
<1>12. Len(u) = Len(v)
  BY <1>4, <1>6, <1>8, <1>10, <1>11
<1>13. ASSUME NEW i \in 1..Len(u) PROVE u[i] = v[i]
  <2>1. CASE i <= Len(s)
    BY <1>6, <1>8, <1>10, <1>11, <2>1
  <2>2. CASE i > Len(s) /\ i <= Len(s) + n
    <3>1. /\ i \in (Len(s) + 1)..(Len(s) + n) /\ i \in 1..Len(sa)
          /\ i \in (Len(s) + 1)..(Len(s) + Len(t)) /\ i - Len(s) \in 1..n
      BY <1>6, <1>11, <2>2
    <3>2. u[i] = a[i - Len(s)]
      BY <1>6, <1>8, <3>1
    <3>3. a[i - Len(s)] = t[i - Len(s)]
      BY <1>2, <3>1
    <3>4. v[i] = t[i - Len(s)]
      BY <1>10, <3>1
    <3> QED
      BY <3>2, <3>3, <3>4
  <2>3. CASE i > Len(s) + n
    <3>1. u[i] = b[i - Len(sa)]
      BY <1>4, <1>6, <1>8, <1>11, <2>3
    <3>2. i - Len(sa) \in 1..(Len(t) - n) /\ (i - Len(sa)) + n = i - Len(s)
      BY <1>4, <1>6, <1>8, <1>11, <2>3
    <3>3. b[i - Len(sa)] = t[i - Len(s)]
      BY <1>4, <3>2
    <3>4. v[i] = t[i - Len(s)]
      <4>1. i \in (Len(s) + 1)..(Len(s) + Len(t))
        BY <1>10, <1>11, <1>12, <2>3
      <4> QED
        BY <1>10, <4>1
    <3> QED
      BY <3>1, <3>3, <3>4
  <2> QED
    BY <1>11, <2>1, <2>2, <2>3
<1>14. u = v
  BY <1>12, <1>13, SameSeq
<1> QED
  BY <1>1, <1>3, <1>5, <1>7, <1>9, <1>14

\* What is dropped from the first is dropped from the whole.
LEMMA DropConcat ==
    ASSUME NEW S, NEW s \in Seq(S), NEW t \in Seq(S), NEW n \in 0..Len(s)
    PROVE  Drop(s, n) \o t = Drop(s \o t, n)
<1>1. PICK a \in Seq(S) : a = Drop(s, n)
  BY DropFacts
<1>2. Len(a) = Len(s) - n /\ \A i \in 1..(Len(s) - n) : a[i] = s[i + n]
  BY <1>1, DropFacts
<1>3. PICK w \in Seq(S) : w = s \o t
  BY ConcatFacts
<1>4. /\ Len(w) = Len(s) + Len(t)
      /\ \A i \in 1..Len(s) : w[i] = s[i]
      /\ \A i \in (Len(s) + 1)..(Len(s) + Len(t)) : w[i] = t[i - Len(s)]
  BY <1>3, ConcatFacts
<1>5. Len(s) \in Nat /\ Len(t) \in Nat /\ n \in Nat /\ n <= Len(s) /\ n \in 0..Len(w)
  BY <1>4
<1>6. PICK d \in Seq(S) : d = Drop(w, n)
  BY <1>5, DropFacts
<1>7. Len(d) = Len(w) - n /\ \A i \in 1..(Len(w) - n) : d[i] = w[i + n]
  BY <1>5, <1>6, DropFacts
<1>8. PICK u \in Seq(S) : u = a \o t
  BY ConcatFacts
<1>9. /\ Len(u) = Len(a) + Len(t)
      /\ \A i \in 1..Len(a) : u[i] = a[i]
      /\ \A i \in (Len(a) + 1)..(Len(a) + Len(t)) : u[i] = t[i - Len(a)]
  BY <1>8, ConcatFacts
<1>10. Len(u) = Len(d)
  BY <1>2, <1>4, <1>5, <1>7, <1>9
<1>11. ASSUME NEW i \in 1..Len(u) PROVE u[i] = d[i]
  <2>1. d[i] = w[i + n]
    BY <1>7, <1>10
  <2>2. CASE i <= Len(a)
    BY <1>2, <1>4, <1>5, <1>9, <2>1, <2>2
  <2>3. CASE i > Len(a)
    <3>1. u[i] = t[i - Len(a)]
      <4>1. i \in (Len(a) + 1)..(Len(a) + Len(t))
        BY <1>2, <1>5, <1>9, <2>3
      <4> QED
        BY <1>9, <4>1
    <3>2. i + n \in (Len(s) + 1)..(Len(s) + Len(t)) /\ (i + n) - Len(s) = i - Len(a)
      BY <1>2, <1>5, <1>9, <2>3
    <3>3. w[i + n] = t[i - Len(a)]
      BY <1>4, <3>2
    <3> QED
      BY <2>1, <3>1, <3>3
  <2> QED
    BY <1>2, <1>5, <2>2, <2>3
<1>12. u = d
  BY <1>10, <1>11, SameSeq
<1> QED
  BY <1>1, <1>3, <1>6, <1>8, <1>12

\* Dropping twice.
LEMMA DropTwice ==
    ASSUME NEW S, NEW s \in Seq(S), NEW n \in 0..Len(s), NEW k \in 0..(Len(s) - n)
    PROVE  Drop(Drop(s, n), k) = Drop(s, n + k)
<1>1. PICK a \in Seq(S) : a = Drop(s, n)
  BY DropFacts
<1>2. Len(a) = Len(s) - n /\ \A i \in 1..(Len(s) - n) : a[i] = s[i + n]
  BY <1>1, DropFacts
<1>3. /\ Len(s) \in Nat /\ n \in Nat /\ k \in Nat
      /\ k \in 0..Len(a) /\ n + k \in 0..Len(s)
  BY <1>2
<1>4. PICK b \in Seq(S) : b = Drop(a, k)
  BY <1>3, DropFacts
<1>5. Len(b) = Len(a) - k /\ \A i \in 1..(Len(a) - k) : b[i] = a[i + k]
  BY <1>3, <1>4, DropFacts
<1>6. PICK d \in Seq(S) : d = Drop(s, n + k)
  BY <1>3, DropFacts
<1>7. Len(d) = Len(s) - (n + k) /\ \A i \in 1..(Len(s) - (n + k)) : d[i] = s[i + (n + k)]
  BY <1>3, <1>6, DropFacts
<1>8. Len(b) = Len(d)
  BY <1>2, <1>3, <1>5, <1>7
<1>9. ASSUME NEW i \in 1..Len(b) PROVE b[i] = d[i]
  <2>1. b[i] = a[i + k] /\ i + k \in 1..(Len(s) - n)
    BY <1>2, <1>3, <1>5
  <2>2. a[i + k] = s[(i + k) + n]
    BY <1>2, <2>1
  <2>3. d[i] = s[i + (n + k)] /\ i + (n + k) = (i + k) + n
    BY <1>3, <1>7, <1>8
  <2> QED
    BY <2>1, <2>2, <2>3
<1>10. b = d
  BY <1>8, <1>9, SameSeq
<1> QED
  BY <1>1, <1>4, <1>6, <1>10

-----------------------------------------------------------------------------
(* What the reader takes from a stream. *)

\* The push messages at the front, and the end of the first item.
Lead(b) == {n \in 0..Len(b) : opts.push /\ \A i \in 1..n : b[i][1] = "push"}
LeadLen(b) == IF Lead(b) = {} THEN 0 ELSE CHOOSE k \in Lead(b) : \A j \in Lead(b) : j <= k
Ends(b) == {i \in DOMAIN b : b[i][3] = 2}
FirstEnd(b) == CHOOSE i \in Ends(b) : \A j \in Ends(b) : i <= j
HandedOver(b, n) == Cardinality({i \in 1..n : b[i][3] = 2})

\* The push callback gets all push messages at the front.
LEMMA LeadFacts ==
    ASSUME NEW b \in Seq(Parts)
    PROVE  /\ LeadLen(b) \in 0..Len(b)
           /\ \A i \in 1..LeadLen(b) : b[i][1] = "push"
           /\ ~ opts.push => LeadLen(b) = 0
           /\ opts.push /\ LeadLen(b) < Len(b) => b[LeadLen(b) + 1][1] # "push"
<1>1. CASE ~ opts.push
  <2>1. Lead(b) = {}
    BY <1>1 DEF Lead
  <2> QED
    BY <1>1, <2>1 DEF LeadLen
<1>2. CASE opts.push
  <2> DEFINE Others == {i \in 1..(Len(b) + 1) : i = Len(b) + 1 \/ b[i][1] # "push"}
  <2>1. Others \in SUBSET Nat /\ Len(b) + 1 \in Others /\ Len(b) \in Nat
    OBVIOUS
  <2>2. PICK m \in Others : \A i \in Others : m <= i
    BY <2>1, Least
  <2>3. m \in 1..(Len(b) + 1) /\ (m = Len(b) + 1 \/ b[m][1] # "push")
    OBVIOUS
  <2>4. \A i \in 1..(m - 1) : b[i][1] = "push"
    BY <2>1, <2>2, <2>3
  <2>5. m - 1 \in Lead(b)
    BY <1>2, <2>1, <2>3, <2>4 DEF Lead
  <2>6. \A j \in Lead(b) : j <= m - 1
    <3> SUFFICES ASSUME NEW j \in Lead(b), j > m - 1 PROVE FALSE
      BY <2>1, <2>3 DEF Lead
    <3>1. j \in 0..Len(b) /\ \A i \in 1..j : b[i][1] = "push"
      BY DEF Lead
    <3>2. m \in 1..j /\ m # Len(b) + 1
      BY <2>1, <2>3, <3>1
    <3> QED
      BY <2>3, <3>1, <3>2
  <2>7. LeadLen(b) = m - 1
    <3>1. LeadLen(b) \in Lead(b) /\ \A j \in Lead(b) : j <= LeadLen(b)
      BY <2>5, <2>6 DEF LeadLen
    <3>2. LeadLen(b) <= m - 1 /\ m - 1 <= LeadLen(b) /\ LeadLen(b) \in Nat
      BY <2>5, <2>6, <3>1 DEF Lead
    <3> QED
      BY <2>1, <2>3, <3>2
  <2> HIDE DEF Others
  <2> QED
    BY <1>2, <2>1, <2>3, <2>4, <2>7
<1> QED
  BY <1>1, <1>2

\* The first item ends where no other item ends before.
LEMMA FirstEndFacts ==
    ASSUME NEW b \in Seq(Parts), Ends(b) # {}
    PROVE  FirstEnd(b) \in Ends(b) /\ \A j \in Ends(b) : FirstEnd(b) <= j
<1>1. Ends(b) \in SUBSET Nat
  BY DEF Ends
<1>2. \E n \in Ends(b) : \A m \in Ends(b) : n <= m
  BY <1>1, Least
<1> QED
  BY <1>2 DEF FirstEnd

\* What valkeyNextInBandReplyFromReader leaves, b being what follows the push
\* messages at the front, and what it returns.
Outcome(rd, n, b, x) ==
    /\ x.pushed = HandedOver(rd.buf, n)
    /\ x.rd \in [buf : Seq(Parts), err : BOOLEAN]
    /\ rd.err \/ Ends(b) = {} =>
          x.rd.buf = b /\ x.rd.err = rd.err /\ x.reply = NULL
    /\ ~ rd.err /\ Ends(b) # {} /\ b[FirstEnd(b)][1] = "bad" =>
          x.rd.buf = <<>> /\ x.rd.err = TRUE /\ x.reply = NULL
    /\ ~ rd.err /\ Ends(b) # {} /\ b[FirstEnd(b)][1] # "bad" =>
          x.rd.buf = Drop(b, FirstEnd(b)) /\ x.rd.err = FALSE /\ x.reply = b[FirstEnd(b)]

\* The outcome of valkeyNextInBandReplyFromReader.
LEMMA NextMeans ==
    ASSUME NEW rd \in [buf : Seq(Parts), err : BOOLEAN], NEW n, n = LeadLen(rd.buf),
           NEW b \in Seq(Parts), b = Drop(rd.buf, n), NEW x, x = NextInBandReply(rd)
    PROVE  Outcome(rd, n, b, x)
<1> USE DEF Outcome
<1>1. [rd EXCEPT !.buf = Drop(@, n)] = [buf |-> b, err |-> rd.err]
  OBVIOUS
<1>2. PICK r : r = [buf |-> b, err |-> rd.err]
  OBVIOUS
<1>3. r.buf = b /\ r.err = rd.err
  BY <1>2
<1>4. PICK y : y = valkeyReaderGetReply(r)
  OBVIOUS
<1>5. x = [rd |-> y.rd, reply |-> y.reply,
           pushed |-> Cardinality({i \in 1..n : rd.buf[i][3] = 2})]
  BY <1>1, <1>2, <1>4 DEF NextInBandReply, LeadLen, Lead
<1>6. x.rd = y.rd /\ x.reply = y.reply
      /\ x.pushed = Cardinality({i \in 1..n : rd.buf[i][3] = 2})
  BY <1>5
<1>15. x.pushed = HandedOver(rd.buf, n)
  BY <1>6 DEF HandedOver
<1>7. y = IF r.err \/ Ends(b) = {} THEN [rd |-> r, reply |-> NULL]
          ELSE IF b[FirstEnd(b)][1] = "bad"
               THEN [rd |-> [buf |-> <<>>, err |-> TRUE], reply |-> NULL]
          ELSE [rd |-> [r EXCEPT !.buf = Drop(@, FirstEnd(b))], reply |-> b[FirstEnd(b)]]
  BY <1>3, <1>4 DEF valkeyReaderGetReply, Ends, FirstEnd
<1>8. CASE rd.err \/ Ends(b) = {}
  <2>1. y.rd = r /\ y.reply = NULL
    BY <1>3, <1>7, <1>8
  <2>2. r \in [buf : Seq(Parts), err : BOOLEAN]
    BY <1>2
  <2> QED
    BY <1>3, <1>6, <1>8, <1>15, <2>1, <2>2
<1>9. CASE ~ rd.err /\ Ends(b) # {} /\ b[FirstEnd(b)][1] = "bad"
  <2>1. PICK z : z = [buf |-> <<>>, err |-> TRUE]
    OBVIOUS
  <2>2. z \in [buf : Seq(Parts), err : BOOLEAN] /\ z.buf = <<>> /\ z.err = TRUE
    BY <2>1
  <2>3. y.rd = z /\ y.reply = NULL
    BY <1>3, <1>7, <1>9, <2>1
  <2> QED
    BY <1>6, <1>9, <1>15, <2>2, <2>3
<1>10. CASE ~ rd.err /\ Ends(b) # {} /\ b[FirstEnd(b)][1] # "bad"
  <2>1. y.rd = [r EXCEPT !.buf = Drop(@, FirstEnd(b))] /\ y.reply = b[FirstEnd(b)]
    BY <1>3, <1>7, <1>10
  <2>2. rd.err = FALSE
    BY <1>10
  <2>3. [r EXCEPT !.buf = Drop(@, FirstEnd(b))] = [buf |-> Drop(b, FirstEnd(b)), err |-> FALSE]
    <3>1. PICK z : z = Drop(b, FirstEnd(b))
      OBVIOUS
    <3>2. PICK e : e = rd.err
      OBVIOUS
    <3>3. [[buf |-> b, err |-> e] EXCEPT !.buf = z] = [buf |-> z, err |-> e]
      OBVIOUS
    <3>4. [r EXCEPT !.buf = Drop(@, FirstEnd(b))] = [buf |-> z, err |-> rd.err]
      BY <1>2, <1>3, <3>1, <3>2, <3>3
    <3> QED
      BY <2>2, <3>1, <3>4
  <2>4. PICK d \in Seq(Parts) : d = Drop(b, FirstEnd(b))
    <3>1. FirstEnd(b) \in 1..Len(b)
      BY <1>10, FirstEndFacts DEF Ends
    <3>2. FirstEnd(b) \in 0..Len(b)
      BY <3>1
    <3> QED
      BY <3>2, DropFacts
  <2>5. PICK z : z = [buf |-> d, err |-> FALSE]
    OBVIOUS
  <2>6. z \in [buf : Seq(Parts), err : BOOLEAN] /\ z.buf = d /\ z.err = FALSE
    BY <2>5
  <2>7. x.rd = z /\ x.reply = b[FirstEnd(b)]
    BY <1>6, <2>1, <2>3, <2>4, <2>5
  <2> QED
    BY <1>10, <1>15, <2>4, <2>6, <2>7
<1> QED
  BY <1>15, <1>8, <1>9, <1>10

\* Items are dropped from the front of a stream.
LEMMA RepliesDrop ==
    ASSUME NEW s \in Seq(Parts), NEW lo \in Nat, NEW hi \in Nat, NEW lo2 \in Nat,
           Replies(s, lo, hi), NEW m \in 0..Len(s), m = 0 \/ s[m][3] = 2, lo <= lo2,
           \A i \in 1..m : IsReply(s[i]) => s[i][2] <= lo2,
           \A i \in (m + 1)..Len(s) : IsReply(s[i]) => s[i][2] > lo2
    PROVE  Replies(Drop(s, m), lo2, hi)
<1>1. PICK t \in Seq(Parts) : t = Drop(s, m)
  BY DropFacts
<1>2. Len(t) = Len(s) - m /\ \A i \in 1..(Len(s) - m) : t[i] = s[i + m]
  BY <1>1, DropFacts
<1>3. Len(s) \in Nat /\ m \in Nat /\ m <= Len(s) /\ DOMAIN s = 1..Len(s) /\ DOMAIN t = 1..Len(t)
  OBVIOUS
<1>4. \A i \in DOMAIN t : i + m \in DOMAIN s /\ i + m \in (m + 1)..Len(s) /\ t[i] = s[i + m]
  BY <1>2, <1>3
<1>5. \A i \in DOMAIN t : IsReply(t[i]) => t[i][2] \in lo2 + 1 .. hi
  <2> SUFFICES ASSUME NEW i \in DOMAIN t, IsReply(t[i]) PROVE t[i][2] \in lo2 + 1 .. hi
    OBVIOUS
  <2>1. s[i + m][2] \in lo + 1 .. hi /\ s[i + m][2] > lo2
    BY <1>4 DEF Replies
  <2> QED
    BY <1>4, <2>1
<1>6. \A i \in DOMAIN t : ~ IsReply(t[i]) => t[i][3] = 2
  BY <1>4 DEF Replies
<1>7. \A i \in DOMAIN t : IsReply(t[i]) /\ t[i][3] = 1 =>
          i + 1 \in DOMAIN t /\ t[i + 1] = <<"reply", t[i][2], 2>>
  <2> SUFFICES ASSUME NEW i \in DOMAIN t, IsReply(t[i]) /\ t[i][3] = 1
               PROVE  i + 1 \in DOMAIN t /\ t[i + 1] = <<"reply", t[i][2], 2>>
    OBVIOUS
  <2>1. (i + m) + 1 \in DOMAIN s /\ s[(i + m) + 1] = <<"reply", t[i][2], 2>>
    <3>1. PICK k \in DOMAIN s : k = i + m /\ t[i] = s[k]
      BY <1>4
    <3>2. k + 1 \in DOMAIN s /\ s[k + 1] = <<"reply", s[k][2], 2>>
      BY <3>1 DEF Replies
    <3> QED
      BY <3>1, <3>2
  <2>2. i + 1 \in DOMAIN t /\ (i + 1) + m = (i + m) + 1
    BY <1>2, <1>3, <2>1
  <2> QED
    BY <1>4, <2>1, <2>2
<1>8. \A i \in DOMAIN t : IsReply(t[i]) /\ t[i][3] = 2 =>
          i - 1 \in DOMAIN t /\ t[i - 1] = <<"reply", t[i][2], 1>>
  <2> SUFFICES ASSUME NEW i \in DOMAIN t, IsReply(t[i]) /\ t[i][3] = 2
               PROVE  i - 1 \in DOMAIN t /\ t[i - 1] = <<"reply", t[i][2], 1>>
    OBVIOUS
  <2>1. (i + m) - 1 \in DOMAIN s /\ s[(i + m) - 1] = <<"reply", t[i][2], 1>>
    <3>1. PICK k \in DOMAIN s : k = i + m /\ t[i] = s[k]
      BY <1>4
    <3>2. k - 1 \in DOMAIN s /\ s[k - 1] = <<"reply", s[k][2], 1>>
      BY <3>1 DEF Replies
    <3> QED
      BY <3>1, <3>2
  <2>2. i # 1
    <3> SUFFICES ASSUME i = 1 PROVE FALSE
      OBVIOUS
    <3>1. (i + m) - 1 = m
      BY <1>3
    <3>2. m # 0 /\ s[m][3] = 1
      BY <1>3, <2>1, <3>1
    <3> QED
      BY <3>2
  <2>3. i - 1 \in DOMAIN t /\ (i - 1) + m = (i + m) - 1
    BY <1>2, <1>3, <2>1, <2>2
  <2> QED
    BY <1>4, <2>1, <2>3
<1>9. \A i, j \in DOMAIN t :
         IsReply(t[i]) /\ IsReply(t[j]) /\ t[i][3] = 2 /\ t[j][3] = 2 /\ i < j =>
            t[i][2] < t[j][2]
  <2> SUFFICES ASSUME NEW i \in DOMAIN t, NEW j \in DOMAIN t, IsReply(t[i]), IsReply(t[j]),
                      t[i][3] = 2, t[j][3] = 2, i < j
               PROVE  t[i][2] < t[j][2]
    OBVIOUS
  <2>1. PICK k \in DOMAIN s : k = i + m /\ t[i] = s[k]
    BY <1>4
  <2>2. PICK l \in DOMAIN s : l = j + m /\ t[j] = s[l]
    BY <1>4
  <2>3. k < l
    BY <1>3, <2>1, <2>2
  <2>4. s[k][2] < s[l][2]
    BY <2>1, <2>2, <2>3 DEF Replies
  <2> QED
    BY <2>1, <2>2, <2>4
<1>10. \A id \in lo2 + 1 .. hi : \E i \in DOMAIN t : t[i] = <<"reply", id, 2>>
  <2> TAKE id \in lo2 + 1 .. hi
  <2>1. PICK i \in DOMAIN s : s[i] = <<"reply", id, 2>>
    BY DEF Replies
  <2>2. ~ (i \in 1..m)
    <3>1. IsReply(s[i]) /\ s[i][2] = id
      BY <2>1 DEF IsReply
    <3> QED
      BY <3>1
  <2>3. i - m \in DOMAIN t /\ (i - m) + m = i
    BY <1>2, <1>3, <2>2
  <2>4. t[i - m] = <<"reply", id, 2>>
    BY <1>4, <2>1, <2>3
  <2> QED
    BY <2>3, <2>4
<1>11. Replies(t, lo2, hi)
  BY <1>5, <1>6, <1>7, <1>8, <1>9, <1>10 DEF Replies
<1> QED
  BY <1>1, <1>11

\* The push messages at the front are handed over; what remains are the same replies.
LEMMA LeadDropped ==
    ASSUME NEW buf \in Seq(Parts), NEW w \in Seq(Parts), NEW lo \in Nat, NEW hi \in Nat,
           Replies(buf \o w, lo, hi), NEW n, n = LeadLen(buf)
    PROVE  Replies(Drop(buf, n) \o w, lo, hi)
<1>1. n \in 0..Len(buf) /\ \A i \in 1..n : buf[i][1] = "push"
  BY LeadFacts
<1>2. PICK R \in Seq(Parts) : R = buf \o w
  BY ConcatFacts
<1>3. Len(R) = Len(buf) + Len(w) /\ \A i \in 1..Len(buf) : R[i] = buf[i]
  BY <1>2, ConcatFacts
<1>4. Len(buf) \in Nat /\ Len(w) \in Nat /\ n \in Nat /\ n <= Len(buf) /\ n \in 0..Len(R)
  BY <1>1, <1>3
<1>5. \A i \in 1..n : R[i][1] = "push" /\ ~ IsReply(R[i])
  <2> TAKE i \in 1..n
  <2>1. i \in 1..Len(buf)
    BY <1>4
  <2>2. R[i] = buf[i] /\ buf[i][1] = "push"
    BY <1>1, <1>3, <2>1
  <2> QED
    BY <2>2 DEF IsReply
<1>6. n = 0 \/ R[n][3] = 2
  <2>1. n # 0 => n \in 1..n /\ n \in DOMAIN R
    BY <1>3, <1>4
  <2> QED
    BY <1>2, <1>5, <2>1 DEF Replies
<1>7. \A i \in (n + 1)..Len(R) : IsReply(R[i]) => R[i][2] > lo
  <2> SUFFICES ASSUME NEW i \in (n + 1)..Len(R), IsReply(R[i]) PROVE R[i][2] > lo
    OBVIOUS
  <2>1. i \in DOMAIN R
    BY <1>4
  <2>2. R[i][2] \in lo + 1 .. hi
    BY <1>2, <2>1 DEF Replies
  <2> QED
    BY <2>2
<1>8. Replies(Drop(R, n), lo, hi)
  <2>1. PICK l2 \in Nat : l2 = lo
    OBVIOUS
  <2>2. Replies(R, lo, hi) /\ lo <= l2
    BY <1>2, <2>1
  <2>3. \A i \in 1..n : IsReply(R[i]) => R[i][2] <= l2
    BY <1>5
  <2>4. \A i \in (n + 1)..Len(R) : IsReply(R[i]) => R[i][2] > l2
    BY <1>7, <2>1
  <2>5. Replies(Drop(R, n), l2, hi)
    BY <1>4, <1>6, <2>2, <2>3, <2>4, RepliesDrop
  <2> QED
    BY <2>1, <2>5
<1>9. Drop(buf, n) \o w = Drop(R, n)
  BY <1>1, <1>2, DropConcat
<1> QED
  BY <1>8, <1>9

\* The item at the front of a stream: a push message, or the next reply, whole.
LEMMA FrontItem ==
    ASSUME NEW b \in Seq(Parts), NEW w \in Seq(Parts), NEW lo \in Nat, NEW hi \in Nat,
           Replies(b \o w, lo, hi), Ends(b) # {}, NEW k, k = FirstEnd(b)
    PROVE  /\ k \in 1..Len(b) /\ b[k] \in Parts
           /\ b[k][1] = "push" => k = 1 /\ Replies(Drop(b, k) \o w, lo, hi)
           /\ b[k][1] = "reply" => /\ b[k] = <<"reply", lo + 1, 2>> /\ lo < hi
                                   /\ Replies(Drop(b, k) \o w, lo + 1, hi)
<1>1. k \in Ends(b) /\ \A j \in Ends(b) : k <= j
  BY FirstEndFacts
<1>2. k \in 1..Len(b) /\ b[k] \in Parts /\ b[k][3] = 2 /\ k \in Nat /\ Len(b) \in Nat
  BY <1>1 DEF Ends
<1>3. PICK R \in Seq(Parts) : R = b \o w
  BY ConcatFacts
<1>4. Len(R) = Len(b) + Len(w) /\ \A i \in 1..Len(b) : R[i] = b[i]
  BY <1>3, ConcatFacts
<1>5. Len(w) \in Nat /\ k \in 0..Len(R) /\ k \in DOMAIN R /\ R[k] = b[k] /\ DOMAIN R = 1..Len(R)
  BY <1>2, <1>4
<1>6. \A i \in DOMAIN R : R[i] \in Parts
  OBVIOUS
<1>7. \A i \in 1..(k - 1) : R[i][3] = 1 /\ i \in DOMAIN R
  <2> TAKE i \in 1..(k - 1)
  <2>0. i \in 1..Len(b) /\ i \in 1..Len(R) /\ i < k
    BY <1>2, <1>4, <1>5
  <2>1. i \in 1..Len(b) /\ i \in DOMAIN R /\ i < k /\ R[i] = b[i]
    BY <1>4, <1>5, <2>0
  <2>2. i \notin Ends(b)
    BY <1>1, <1>2, <2>1
  <2>3. b[i][3] # 2 /\ b[i] \in Parts
    BY <2>1, <2>2 DEF Ends
  <2> QED
    BY <2>1, <2>3 DEF Parts
<1>8. \A i \in 1..(k - 1) : IsReply(R[i]) /\ R[i + 1] = <<"reply", R[i][2], 2>>
  <2> TAKE i \in 1..(k - 1)
  <2>1. R[i][3] = 1 /\ i \in DOMAIN R
    BY <1>7
  <2>2. ~ IsReply(R[i]) => R[i][3] = 2
    BY <1>3, <2>1 DEF Replies
  <2>3. IsReply(R[i])
    BY <2>1, <2>2
  <2> QED
    BY <1>3, <2>1, <2>3 DEF Replies
<1>9. \A i \in 1..(k - 1) : i + 1 = k
  <2> SUFFICES ASSUME NEW i \in 1..(k - 1), i + 1 # k PROVE FALSE
    OBVIOUS
  <2>1. i + 1 \in 1..(k - 1)
    BY <1>2
  <2>2. R[i + 1][3] = 1
    BY <1>7, <2>1
  <2>3. R[i + 1][3] = 2
    BY <1>8
  <2> QED
    BY <2>2, <2>3
<1>10. \A i \in DOMAIN R : IsReply(R[i]) => R[i][2] \in lo + 1 .. hi
  BY <1>3 DEF Replies
<1>11. \A n : n = k => Drop(b, n) \o w = Drop(R, n)
  <2>1. k \in 0..Len(b)
    BY <1>2
  <2> QED
    BY <1>3, <2>1, DropConcat
<1>12. CASE b[k][1] = "push"
  <2>1. k = 1
    <3> SUFFICES ASSUME k # 1 PROVE FALSE
      OBVIOUS
    <3>1. k - 1 \in 1..(k - 1) /\ (k - 1) + 1 = k
      BY <1>2
    <3>2. R[k] = <<"reply", R[k - 1][2], 2>>
      BY <1>8, <3>1
    <3> QED
      BY <1>5, <1>12, <3>2
  <2>2. \A i \in 1..k : IsReply(R[i]) => R[i][2] <= lo
    BY <1>5, <1>12, <2>1 DEF IsReply
  <2>3. \A i \in (k + 1)..Len(R) : IsReply(R[i]) => R[i][2] > lo
    <3> SUFFICES ASSUME NEW i \in (k + 1)..Len(R), IsReply(R[i]) PROVE R[i][2] > lo
      OBVIOUS
    <3>1. i \in DOMAIN R
      BY <1>2, <1>5
    <3>2. R[i][2] \in lo + 1 .. hi
      BY <1>10, <3>1
    <3> QED
      BY <3>2
  <2>4. Replies(Drop(R, k), lo, hi)
    <3>1. PICK l2 \in Nat : l2 = lo
      OBVIOUS
    <3>2. Replies(R, lo, hi) /\ lo <= l2 /\ R[k][3] = 2
      BY <1>2, <1>3, <1>5, <3>1
    <3>3. \A i \in 1..k : IsReply(R[i]) => R[i][2] <= l2
      BY <2>2, <3>1
    <3>4. \A i \in (k + 1)..Len(R) : IsReply(R[i]) => R[i][2] > l2
      BY <2>3, <3>1
    <3>5. Replies(Drop(R, k), l2, hi)
      BY <1>5, <3>2, <3>3, <3>4, RepliesDrop
    <3> QED
      BY <3>1, <3>5
  <2> QED
    BY <1>2, <1>11, <1>12, <2>1, <2>4
<1>13. CASE b[k][1] = "reply"
  <2>1. IsReply(R[k]) /\ R[k][3] = 2
    BY <1>2, <1>5, <1>13 DEF IsReply
  <2>2. R[k][2] \in lo + 1 .. hi
    BY <1>5, <1>10, <2>1
  <2>3. lo + 1 \in lo + 1 .. hi /\ lo < hi
    BY <2>2
  <2>4. PICK p \in DOMAIN R : R[p] = <<"reply", lo + 1, 2>>
    BY <1>3, <2>3 DEF Replies
  <2>5. IsReply(R[p]) /\ R[p][3] = 2 /\ R[p][2] = lo + 1
    BY <2>4 DEF IsReply
  <2>6. ~ (p < k)
    <3> SUFFICES ASSUME p < k PROVE FALSE
      OBVIOUS
    <3>1. p \in 1..(k - 1)
      BY <1>2, <1>5
    <3>2. R[p][3] = 1
      BY <1>7, <3>1
    <3> QED
      BY <2>5, <3>2
  <2>7. ~ (k < p)
    <3> SUFFICES ASSUME k < p PROVE FALSE
      OBVIOUS
    <3>1. R[k][2] < R[p][2]
      BY <1>3, <1>5, <2>1, <2>5 DEF Replies
    <3> QED
      BY <2>2, <2>5, <3>1
  <2>8. p = k
    BY <1>2, <1>5, <2>6, <2>7
  <2>9. b[k] = <<"reply", lo + 1, 2>>
    BY <1>5, <2>4, <2>8
  <2>10. \A i \in 1..k : IsReply(R[i]) => R[i][2] <= lo + 1
    <3> SUFFICES ASSUME NEW i \in 1..k, IsReply(R[i]) PROVE R[i][2] <= lo + 1
      OBVIOUS
    <3>1. CASE i = k
      BY <2>5, <2>8, <3>1
    <3>2. CASE i # k
      <4>1. i \in 1..(k - 1)
        BY <1>2, <3>2
      <4>2. i + 1 = k /\ R[i + 1] = <<"reply", R[i][2], 2>>
        BY <1>8, <1>9, <4>1
      <4>3. R[i][2] = lo + 1
        BY <1>5, <2>9, <4>2
      <4> QED
        BY <4>3
    <3> QED
      BY <3>1, <3>2
  <2>11. \A i \in (k + 1)..Len(R) : IsReply(R[i]) => R[i][2] > lo + 1
    <3> SUFFICES ASSUME NEW i \in (k + 1)..Len(R), IsReply(R[i]) PROVE R[i][2] > lo + 1
      OBVIOUS
    <3>1. i \in DOMAIN R /\ k < i /\ R[i] \in Parts
      BY <1>2, <1>5, <1>6
    <3>2. R[i][2] \in lo + 1 .. hi
      BY <1>10, <3>1
    <3>3. CASE R[i][3] = 2
      <4>1. R[k][2] < R[i][2]
        BY <1>3, <1>5, <2>1, <3>1, <3>3 DEF Replies
      <4> QED
        BY <2>5, <2>8, <3>2, <4>1
    <3>4. CASE R[i][3] = 1
      <4>1. i + 1 \in DOMAIN R /\ R[i + 1] = <<"reply", R[i][2], 2>>
        BY <1>3, <3>1, <3>4 DEF Replies
      <4>2. IsReply(R[i + 1]) /\ R[i + 1][3] = 2 /\ R[i + 1][2] = R[i][2] /\ k < i + 1
        BY <1>2, <3>1, <4>1 DEF IsReply
      <4>3. R[k][2] < R[i + 1][2]
        BY <1>3, <1>5, <2>1, <4>1, <4>2 DEF Replies
      <4> QED
        BY <2>5, <2>8, <3>2, <4>2, <4>3
    <3> QED
      BY <3>1, <3>3, <3>4 DEF Parts
  <2>12. Replies(Drop(R, k), lo + 1, hi)
    <3>1. PICK l2 \in Nat : l2 = lo + 1
      OBVIOUS
    <3>2. Replies(R, lo, hi) /\ R[k][3] = 2 /\ lo <= l2
      BY <1>3, <2>1, <3>1
    <3>3. Replies(Drop(R, k), l2, hi)
      BY <1>5, <2>10, <2>11, <3>1, <3>2, RepliesDrop
    <3> QED
      BY <3>1, <3>3
  <2> QED
    BY <1>2, <1>11, <1>13, <2>3, <2>9, <2>12
<1> QED
  BY <1>2, <1>12, <1>13

\* The reader keeps its type, loses its front and returns no reply with an error.
LEMMA NextDrops ==
    ASSUME NEW rd \in [buf : Seq(Parts), err : BOOLEAN], rd.err => rd.buf = <<>>,
           NEW x, x = NextInBandReply(rd)
    PROVE  /\ x.rd \in [buf : Seq(Parts), err : BOOLEAN]
           /\ x.rd.err => x.rd.buf = <<>> /\ x.reply = NULL
           /\ rd.err => x.rd.err
           /\ x.reply \in Parts \cup {NULL}
           /\ \E m \in LeadLen(rd.buf)..Len(rd.buf) : x.rd.buf = Drop(rd.buf, m)
<1>1. PICK buf \in Seq(Parts) : buf = rd.buf
  OBVIOUS
<1>2. PICK n \in 0..Len(buf) : n = LeadLen(rd.buf)
  BY <1>1, LeadFacts
<1>3. PICK b \in Seq(Parts) : b = Drop(rd.buf, n) /\ Len(b) = Len(buf) - n
  BY <1>1, <1>2, DropFacts
<1>4. Len(buf) \in Nat /\ n \in Nat /\ n <= Len(buf)
  BY <1>2
<1>0. Outcome(rd, n, b, x)
  BY <1>2, <1>3, NextMeans
<1>5. CASE rd.err \/ Ends(b) = {}
  <2>1. x.rd.buf = b /\ x.rd.err = rd.err /\ x.reply = NULL
    BY <1>0, <1>5 DEF Outcome
  <2>2. x.rd.buf = b /\ x.rd.err = rd.err /\ x.rd \in [buf : Seq(Parts), err : BOOLEAN]
    BY <1>0, <2>1 DEF Outcome
  <2>3. rd.err => b = <<>>
    <3> SUFFICES ASSUME rd.err PROVE b = <<>>
      OBVIOUS
    <3>1. Len(b) = 0
      BY <1>1, <1>3, <1>4
    <3> QED
      BY <3>1
  <2>4. n \in LeadLen(rd.buf)..Len(rd.buf) /\ x.rd.buf = Drop(rd.buf, n)
    BY <1>1, <1>2, <1>3, <1>4, <2>2
  <2> QED
    BY <2>1, <2>2, <2>3, <2>4
<1>6. CASE ~ rd.err /\ Ends(b) # {} /\ b[FirstEnd(b)][1] = "bad"
  <2>1. x.rd.buf = <<>> /\ x.rd.err = TRUE /\ x.reply = NULL
    BY <1>0, <1>6 DEF Outcome
  <2>2. x.rd.buf = <<>> /\ x.rd.err = TRUE /\ x.rd \in [buf : Seq(Parts), err : BOOLEAN]
    BY <1>0, <2>1 DEF Outcome
  <2>3. Drop(buf, Len(buf)) = <<>>
    BY DropAll
  <2>4. Len(buf) \in LeadLen(rd.buf)..Len(rd.buf)
    BY <1>1, <1>2, <1>4
  <2> QED
    BY <1>1, <2>1, <2>2, <2>3, <2>4
<1>7. CASE ~ rd.err /\ Ends(b) # {} /\ b[FirstEnd(b)][1] # "bad"
  <2>1. PICK k \in 1..Len(b) : k = FirstEnd(b) /\ b[k] \in Parts
    <3>1. FirstEnd(b) \in DOMAIN b
      BY <1>7, FirstEndFacts DEF Ends
    <3> QED
      BY <3>1
  <2>2. x.rd.buf = Drop(b, k) /\ x.rd.err = FALSE /\ x.reply = b[k]
    BY <1>0, <1>7, <2>1 DEF Outcome
  <2>3. PICK d \in Seq(Parts) : d = Drop(b, k)
    <3>1. k \in 0..Len(b)
      OBVIOUS
    <3> QED
      BY <3>1, DropFacts
  <2>4. x.rd.buf = d /\ x.rd.err = FALSE /\ x.reply \in Parts
    BY <2>1, <2>2, <2>3
  <2>5. x.rd.buf = d /\ x.rd.err = FALSE /\ x.rd \in [buf : Seq(Parts), err : BOOLEAN]
    BY <1>0, <2>4 DEF Outcome
  <2>6. d = Drop(buf, n + k) /\ n + k \in n..Len(buf)
    <3>1. k \in 0..(Len(buf) - n)
      BY <1>3, <1>4
    <3>2. Drop(Drop(buf, n), k) = Drop(buf, n + k)
      BY <1>2, <3>1, DropTwice
    <3> QED
      BY <1>1, <1>3, <1>4, <2>3, <3>1, <3>2
  <2> QED
    BY <1>1, <1>2, <2>4, <2>5, <2>6
<1> QED
  BY <1>5, <1>6, <1>7

\* Push messages handed over at the front, and those that remain.
LEMMA PushesDropped ==
    ASSUME NEW s \in Seq(Parts), NEW n \in 0..Len(s), NEW m \in n..Len(s),
           \A i \in 1..n : s[i][1] = "push"
    PROVE  /\ HandedOver(s, n) \in Nat
           /\ Cardinality(PushPlaces(Drop(s, m))) \in Nat
           /\ Cardinality(PushPlaces(s)) \in Nat
           /\ HandedOver(s, n) + Cardinality(PushPlaces(Drop(s, m)))
                <= Cardinality(PushPlaces(s))
<1>1. Len(s) \in Nat /\ n \in Nat /\ m \in Nat /\ n <= m /\ m <= Len(s) /\ m \in 0..Len(s)
  OBVIOUS
<1>2. PICK d \in Seq(Parts) : d = Drop(s, m)
  BY <1>1, DropFacts
<1>3. Len(d) = Len(s) - m /\ \A i \in 1..(Len(s) - m) : d[i] = s[i + m]
  BY <1>1, <1>2, DropFacts
<1>4. PICK P : P = PushPlaces(s)
  OBVIOUS
<1>5. PICK A : A = {i \in 1..n : s[i][3] = 2}
  OBVIOUS
<1>6. PICK D : D = PushPlaces(d)
  OBVIOUS
<1>7. PICK B : B = {i \in (m + 1)..Len(s) : s[i][1] = "push"}
  OBVIOUS
<1>8. IsFiniteSet(P)
  <2>1. P \in SUBSET (1..Len(s))
    BY <1>4 DEF PushPlaces
  <2>2. IsFiniteSet(1..Len(s))
    BY <1>1, FS_Interval
  <2> QED
    BY <2>1, <2>2, FS_Subset
<1>9. A \in SUBSET P /\ B \in SUBSET P /\ A \cup B \in SUBSET P /\ A \cap B = {}
  BY <1>1, <1>4, <1>5, <1>7 DEF PushPlaces
<1>10. IsFiniteSet(A) /\ IsFiniteSet(B)
  BY <1>8, <1>9, FS_Subset
<1>11. IsFiniteSet(D) /\ Cardinality(D) <= Cardinality(B)
  <2> DEFINE shift == [i \in D |-> i + m]
  <2>1. shift \in [D -> B]
    <3> SUFFICES ASSUME NEW i \in D PROVE i + m \in B
      OBVIOUS
    <3>1. i \in 1..Len(d) /\ d[i][1] = "push"
      BY <1>6 DEF PushPlaces
    <3>2. i + m \in (m + 1)..Len(s) /\ s[i + m] = d[i]
      BY <1>1, <1>3, <3>1
    <3> QED
      BY <1>7, <3>1, <3>2
  <2>2. \A i, j \in D : shift[i] = shift[j] => i = j
    <3>1. D \subseteq Nat
      BY <1>6 DEF PushPlaces
    <3> QED
      BY <1>1, <3>1
  <2> HIDE DEF shift
  <2>3. shift \in Injection(D, B)
    BY <2>1, <2>2, Fun_IsInj
  <2> QED
    BY <1>10, <2>3, FS_Injection
<1>12. /\ Cardinality(A) \in Nat /\ Cardinality(B) \in Nat /\ Cardinality(D) \in Nat
       /\ Cardinality(P) \in Nat
  BY <1>8, <1>10, <1>11, FS_CardinalityType
<1>13. Cardinality(A \cup B) = Cardinality(A) + Cardinality(B)
  <2>1. Cardinality(A \cap B) = 0
    BY <1>9, FS_EmptySet
  <2>2. Cardinality(A \cup B) = Cardinality(A) + Cardinality(B) - Cardinality(A \cap B)
    BY <1>10, FS_Union
  <2> QED
    BY <1>12, <2>1, <2>2
<1>14. Cardinality(A \cup B) <= Cardinality(P)
  BY <1>8, <1>9, FS_Subset
<1>15. Cardinality(A) + Cardinality(D) <= Cardinality(P)
  BY <1>11, <1>12, <1>13, <1>14
<1> QED
  BY <1>2, <1>4, <1>5, <1>6, <1>12, <1>15 DEF HandedOver

\* Push messages are counted once: in the reader, on the wire or by the callback.
LEMMA NextPushes ==
    ASSUME NEW rd \in [buf : Seq(Parts), err : BOOLEAN], rd.err => rd.buf = <<>>,
           NEW w \in Seq(Parts), NEW x, x = NextInBandReply(rd)
    PROVE  /\ x.pushed \in Nat
           /\ Cardinality(PushPlaces(x.rd.buf \o w)) \in Nat
           /\ Cardinality(PushPlaces(rd.buf \o w)) \in Nat
           /\ x.pushed + Cardinality(PushPlaces(x.rd.buf \o w))
                <= Cardinality(PushPlaces(rd.buf \o w))
<1>1. PICK buf \in Seq(Parts) : buf = rd.buf
  OBVIOUS
<1>2. PICK n \in 0..Len(buf) : n = LeadLen(rd.buf)
  BY <1>1, LeadFacts
<1>3. \A i \in 1..n : buf[i][1] = "push"
  BY <1>1, <1>2, LeadFacts
<1>4. PICK m \in n..Len(buf) : x.rd.buf = Drop(buf, m)
  BY <1>1, <1>2, NextDrops
<1>5. Len(buf) \in Nat /\ n \in Nat /\ m \in Nat /\ n <= m /\ m <= Len(buf) /\ m \in 0..Len(buf)
  OBVIOUS
<1>6. PICK s \in Seq(Parts) : s = buf \o w
  BY ConcatFacts
<1>7. Len(s) = Len(buf) + Len(w) /\ \A i \in 1..Len(buf) : s[i] = buf[i]
  BY <1>6, ConcatFacts
<1>8. n \in 0..Len(s) /\ m \in n..Len(s) /\ \A i \in 1..n : s[i] = buf[i]
  BY <1>5, <1>7
<1>9. x.rd.buf \o w = Drop(s, m)
  BY <1>4, <1>5, <1>6, DropConcat
<1>10. x.pushed = HandedOver(buf, n)
  <2>1. PICK b \in Seq(Parts) : b = Drop(rd.buf, n)
    BY <1>1, <1>2, DropFacts
  <2>2. Outcome(rd, n, b, x)
    BY <1>1, <1>2, <2>1, NextMeans
  <2> QED
    BY <1>1, <2>2 DEF Outcome
<1>11. HandedOver(buf, n) = HandedOver(s, n)
  <2>1. {i \in 1..n : buf[i][3] = 2} = {i \in 1..n : s[i][3] = 2}
    BY <1>8
  <2> QED
    BY <2>1 DEF HandedOver
<1>12. \A i \in 1..n : s[i][1] = "push"
  BY <1>3, <1>8
<1>13. /\ HandedOver(s, n) \in Nat
       /\ Cardinality(PushPlaces(Drop(s, m))) \in Nat
       /\ Cardinality(PushPlaces(s)) \in Nat
       /\ HandedOver(s, n) + Cardinality(PushPlaces(Drop(s, m)))
            <= Cardinality(PushPlaces(s))
  BY <1>8, <1>12, PushesDropped
<1> QED
  BY <1>1, <1>6, <1>9, <1>10, <1>11, <1>13

\* What was returned from the front of a stream of replies to lo + 1 .. hi.
InStepAfter(x, w, lo, hi) ==
    \/ x.rd.err
    \/ x.reply = NULL /\ Replies(x.rd.buf \o w, lo, hi)
    \/ /\ x.reply = <<"reply", lo + 1, 2>> /\ lo < hi
       /\ Replies(x.rd.buf \o w, lo + 1, hi)
    \/ /\ ~ opts.push /\ x.reply \in Parts /\ x.reply[1] = "push"
       /\ Replies(x.rd.buf \o w, lo, hi)

\* The next reply of a stream in step is the next one owed, or a push message
\* without a callback; a malformed answer takes the whole reader.
LEMMA NextReply ==
    ASSUME NEW rd \in [buf : Seq(Parts), err : BOOLEAN], ~ rd.err,
           NEW w \in Seq(Parts), NEW lo \in Nat, NEW hi \in Nat,
           Replies(rd.buf \o w, lo, hi), NEW x, x = NextInBandReply(rd)
    PROVE  InStepAfter(x, w, lo, hi)
<1> USE DEF InStepAfter
<1>1. PICK buf \in Seq(Parts) : buf = rd.buf
  OBVIOUS
<1>2. PICK n \in 0..Len(buf) : n = LeadLen(buf)
  BY LeadFacts
<1>3. PICK b \in Seq(Parts) : b = Drop(buf, n)
  BY DropFacts
<1>4. Len(b) = Len(buf) - n /\ \A i \in 1..(Len(buf) - n) : b[i] = buf[i + n]
  BY <1>3, DropFacts
<1>5. Replies(b \o w, lo, hi)
  BY <1>1, <1>2, <1>3, LeadDropped
<1>0. Outcome(rd, n, b, x)
  BY <1>1, <1>2, <1>3, NextMeans
<1>6. CASE Ends(b) = {}
  <2>1. x.rd.buf = b /\ x.reply = NULL
    BY <1>0, <1>6 DEF Outcome
  <2> QED
    BY <1>5, <2>1
<1>7. CASE Ends(b) # {} /\ b[FirstEnd(b)][1] = "bad"
  BY <1>0, <1>7 DEF Outcome
<1>8. CASE Ends(b) # {} /\ b[FirstEnd(b)][1] # "bad"
  <2>1. PICK k : k = FirstEnd(b)
    OBVIOUS
  <2>2. x.rd.buf = Drop(b, k) /\ x.reply = b[k]
    BY <1>0, <1>8, <2>1 DEF Outcome
  <2>4. /\ k \in 1..Len(b) /\ b[k] \in Parts
        /\ b[k][1] = "push" => k = 1 /\ Replies(Drop(b, k) \o w, lo, hi)
        /\ b[k][1] = "reply" => /\ b[k] = <<"reply", lo + 1, 2>> /\ lo < hi
                                /\ Replies(Drop(b, k) \o w, lo + 1, hi)
    BY <1>5, <1>8, <2>1, FrontItem
  <2>5. b[k][1] \in {"push", "reply"}
    BY <1>8, <2>1, <2>4 DEF Parts
  <2>6. b[k][1] = "push" => ~ opts.push
    <3> SUFFICES ASSUME b[k][1] = "push", opts.push PROVE FALSE
      OBVIOUS
    <3>1. n < Len(buf) => buf[n + 1][1] # "push"
      BY <1>2, LeadFacts
    <3>2. k = 1 /\ 1 \in 1..(Len(buf) - n) /\ n < Len(buf)
      BY <1>2, <1>4, <2>4
    <3>3. b[1] = buf[1 + n] /\ 1 + n = n + 1
      BY <1>2, <1>4, <3>2
    <3> QED
      BY <3>1, <3>2, <3>3
  <2> QED
    BY <2>2, <2>4, <2>5, <2>6
<1> QED
  BY <1>6, <1>7, <1>8

-----------------------------------------------------------------------------
(* The replies returned so far. *)

\* They can be counted.
LEMMA AnswersFinite ==
    ASSUME IoTyped
    PROVE  /\ IsFiniteSet(Answers) /\ Cardinality(Answers) \in Nat
           /\ Answers \subseteq 1..Len(got) /\ Len(got) \in Nat
<1>1. got \in Seq(Parts)
  BY DEF IoTyped
<1>2. Answers \in SUBSET (1..Len(got)) /\ Len(got) \in Nat
  BY <1>1 DEF Answers
<1>3. IsFiniteSet(1..Len(got))
  BY <1>2, FS_Interval
<1>4. IsFiniteSet(Answers)
  BY <1>2, <1>3, FS_Subset
<1> QED
  BY <1>2, <1>4, FS_CardinalityType

\* Numbers that the invariant is about.
LEMMA Numbers ==
    ASSUME IoTyped, AnsweredInRow
    PROVE  /\ Len(asked) \in Nat /\ issued \in Nat /\ Cardinality(Answers) \in Nat
           /\ First \in Nat /\ Answered \in Nat /\ Answered <= issued
<1>1. Len(asked) \in Nat /\ issued \in Nat
  BY BlockingAssumption DEF IoTyped
<1>2. Cardinality(Answers) \in Nat
  BY AnswersFinite
<1>3. Len(asked) <= issued /\ Cardinality(Answers) <= Len(asked)
  BY DEF AnsweredInRow
<1> QED
  BY <1>1, <1>2, <1>3 DEF First, Answered

\* Steps that return no reply and append no command.
LEMMA SameAnswers ==
    ASSUME AnsweredInRow, got' = got, asked' = asked, issued' = issued,
           opts'.push = opts.push
    PROVE  AnsweredInRow' /\ Answered' = Answered
<1>1. Answers' = Answers
  BY DEF Answers
<1>2. First' = First
  BY DEF First
<1>3. OwnReply'
  BY <1>1 DEF OwnReply, AnswersUpTo, AnsweredInRow
<1>4. PushesAside' /\ AskedInRow'
  BY <1>1, <1>2 DEF PushesAside, AskedInRow, AnsweredInRow
<1> QED
  BY <1>1, <1>2, <1>3, <1>4 DEF AnsweredInRow, Answered

\* A reply is returned: the set of answers grows by its place, or not at all.
LEMMA Returned ==
    ASSUME IoTyped, NEW y \in Parts, got' = Append(got, y)
    PROVE  /\ got' \in Seq(Parts) /\ Len(got') = Len(got) + 1 /\ got'[Len(got) + 1] = y
           /\ \A i \in 1..Len(got) : got'[i] = got[i]
           /\ y[1] = "push" => Answers' = Answers
           /\ y[1] # "push" => Answers' = Answers \cup {Len(got) + 1}
<1>1. got \in Seq(Parts) /\ Len(got) \in Nat
  BY DEF IoTyped
<1>2. /\ got' \in Seq(Parts) /\ Len(got') = Len(got) + 1 /\ got'[Len(got) + 1] = y
      /\ \A i \in 1..Len(got) : got'[i] = got[i]
  BY <1>1
<1>3. DOMAIN got' = 1..(Len(got) + 1) /\ DOMAIN got = 1..Len(got)
  BY <1>1, <1>2
<1>4. \A i : i \in 1..(Len(got) + 1) <=> i \in 1..Len(got) \/ i = Len(got) + 1
  BY <1>1
<1>5. Answers' = {i \in DOMAIN got' : got'[i][1] # "push"}
  BY DEF Answers
<1>6. y[1] = "push" => Answers' = Answers
  BY <1>2, <1>3, <1>4, <1>5 DEF Answers
<1>7. y[1] # "push" => Answers' = Answers \cup {Len(got) + 1}
  BY <1>2, <1>3, <1>4, <1>5 DEF Answers
<1> QED
  BY <1>2, <1>6, <1>7

\* The next reply owed is returned.
LEMMA OwnReturned ==
    ASSUME IoTyped, AnsweredInRow, Answered < issued,
           got' = Append(got, <<"reply", Answered + 1, 2>>),
           asked' = asked, issued' = issued, opts'.push = opts.push
    PROVE  AnsweredInRow' /\ Answered' = Answered + 1 /\ got' \in Seq(Parts)
<1>1. /\ Len(asked) \in Nat /\ issued \in Nat /\ Cardinality(Answers) \in Nat
      /\ First \in Nat /\ Answered \in Nat
  BY Numbers
<1>2. PICK y \in Parts : y = <<"reply", Answered + 1, 2>>
  <2>1. Answered + 1 \in Nat
    BY <1>1
  <2>2. <<"reply", Answered + 1, 2>> \in Parts
    BY <2>1 DEF Parts
  <2> QED
    BY <2>2
<1>3. y[1] = "reply" /\ y[2] = Answered + 1 /\ y[1] # "push"
  BY <1>2
<1>4. /\ got' \in Seq(Parts) /\ Len(got') = Len(got) + 1 /\ got'[Len(got) + 1] = y
      /\ \A i \in 1..Len(got) : got'[i] = got[i]
      /\ Answers' = Answers \cup {Len(got) + 1}
  BY <1>2, <1>3, Returned
<1>5. PICK k \in Nat : k = Len(got) + 1
  BY AnswersFinite
<1>6. PICK A : A = Answers
  OBVIOUS
<1>7. IsFiniteSet(A) /\ A \subseteq 1..Len(got) /\ k \notin A /\ Len(got) \in Nat
  BY <1>5, <1>6, AnswersFinite
<1>8. Cardinality(A \cup {k}) = Cardinality(A) + 1
  BY <1>7, FS_AddElement
<1>9. Answers' = A \cup {k} /\ Cardinality(Answers') = Cardinality(Answers) + 1
  BY <1>4, <1>5, <1>6, <1>8
<1>10. First' = First
  BY DEF First
<1>11. Answered' = Answered + 1
  BY <1>1, <1>9, <1>10 DEF Answered
<1>12. Cardinality(Answers) + 1 <= Len(asked)
  BY <1>1 DEF First, Answered
<1>13. OwnReply'
  <2> SUFFICES ASSUME NEW i \in A \cup {k}
               PROVE  /\ Cardinality({j \in A \cup {k} : j <= i}) <= Len(asked)
                      /\ got'[i][2] = asked[Cardinality({j \in A \cup {k} : j <= i})]
    BY <1>9 DEF OwnReply, AnswersUpTo
  <2>1. CASE i \in A
    <3>1. {j \in A \cup {k} : j <= i} = {j \in A : j <= i}
      BY <1>5, <1>7, <2>1
    <3>2. got'[i] = got[i]
      BY <1>4, <1>7, <2>1
    <3>3. /\ Cardinality({j \in A : j <= i}) <= Len(asked)
          /\ got[i][2] = asked[Cardinality({j \in A : j <= i})]
      BY <1>6, <2>1 DEF OwnReply, AnswersUpTo, AnsweredInRow
    <3> QED
      BY <3>1, <3>2, <3>3
  <2>2. CASE i = k
    <3>1. {j \in A \cup {k} : j <= i} = A \cup {k}
      <4>1. \A j \in A \cup {k} : j <= i
        BY <1>5, <1>7, <2>2
      <4> QED
        BY <4>1
    <3>2. PICK m \in Nat : m = Cardinality(Answers) + 1
      BY <1>1
    <3>3. m \in DOMAIN asked /\ asked[m] = First + m
      <4>0. asked \in Seq(Nat)
        BY DEF IoTyped
      <4>1. m \in 1..Len(asked) /\ asked \in Seq(Nat)
        BY <1>1, <1>12, <3>2, <4>0
      <4> QED
        BY <4>1 DEF AnsweredInRow, AskedInRow
    <3>4. got'[i][2] = Answered + 1
      BY <1>3, <1>4, <1>5, <2>2
    <3>5. Answered + 1 = First + m
      BY <1>1, <3>2 DEF Answered
    <3> QED
      BY <1>6, <1>8, <1>12, <3>1, <3>2, <3>3, <3>4, <3>5
  <2> QED
    BY <2>1, <2>2
<1>14. PushesAside'
  <2> SUFFICES ASSUME opts.push PROVE Answers' = DOMAIN got'
    BY DEF PushesAside
  <2>1. A = DOMAIN got
    BY <1>6 DEF AnsweredInRow, PushesAside
  <2>2. DOMAIN got = 1..Len(got) /\ DOMAIN got' = 1..(Len(got) + 1)
    BY <1>4 DEF IoTyped
  <2> QED
    BY <1>5, <1>7, <1>9, <2>1, <2>2
<1>15. AskedInRow'
  BY <1>10 DEF AskedInRow, AnsweredInRow
<1> QED
  BY <1>4, <1>9, <1>11, <1>12, <1>13, <1>14, <1>15 DEF AnsweredInRow

\* A push message is returned because there is no callback for it.
LEMMA PushReturned ==
    ASSUME IoTyped, AnsweredInRow, NEW y \in Parts, y[1] = "push", ~ opts.push,
           got' = Append(got, y), asked' = asked, issued' = issued, opts'.push = opts.push
    PROVE  AnsweredInRow' /\ Answered' = Answered /\ got' \in Seq(Parts)
<1>1. /\ got' \in Seq(Parts) /\ Answers' = Answers
      /\ \A i \in 1..Len(got) : got'[i] = got[i]
  BY Returned
<1>2. First' = First
  BY DEF First
<1>3. \A i \in Answers : got'[i] = got[i]
  BY <1>1, AnswersFinite
<1>4. OwnReply'
  BY <1>1, <1>3 DEF OwnReply, AnswersUpTo, AnsweredInRow
<1>5. PushesAside' /\ AskedInRow'
  BY <1>2 DEF PushesAside, AskedInRow, AnsweredInRow
<1> QED
  BY <1>1, <1>2, <1>4, <1>5 DEF AnsweredInRow, Answered

-----------------------------------------------------------------------------
(* What is appended to a stream. *)

\* One message after another.
LEMMA ConcatTwice ==
    ASSUME NEW S, NEW r \in Seq(S), NEW s \in Seq(S), NEW t \in Seq(S)
    PROVE  r \o (s \o t) = (r \o s) \o t
<1>1. PICK st \in Seq(S) : st = s \o t
  BY ConcatFacts
<1>2. /\ Len(st) = Len(s) + Len(t)
      /\ \A i \in 1..Len(s) : st[i] = s[i]
      /\ \A i \in (Len(s) + 1)..(Len(s) + Len(t)) : st[i] = t[i - Len(s)]
  BY <1>1, ConcatFacts
<1>3. PICK rs \in Seq(S) : rs = r \o s
  BY ConcatFacts
<1>4. /\ Len(rs) = Len(r) + Len(s)
      /\ \A i \in 1..Len(r) : rs[i] = r[i]
      /\ \A i \in (Len(r) + 1)..(Len(r) + Len(s)) : rs[i] = s[i - Len(r)]
  BY <1>3, ConcatFacts
<1>5. PICK u \in Seq(S) : u = r \o st
  BY ConcatFacts
<1>6. /\ Len(u) = Len(r) + Len(st)
      /\ \A i \in 1..Len(r) : u[i] = r[i]
      /\ \A i \in (Len(r) + 1)..(Len(r) + Len(st)) : u[i] = st[i - Len(r)]
  BY <1>5, ConcatFacts
<1>7. PICK v \in Seq(S) : v = rs \o t
  BY ConcatFacts
<1>8. /\ Len(v) = Len(rs) + Len(t)
      /\ \A i \in 1..Len(rs) : v[i] = rs[i]
      /\ \A i \in (Len(rs) + 1)..(Len(rs) + Len(t)) : v[i] = t[i - Len(rs)]
  BY <1>7, ConcatFacts
<1>9. Len(r) \in Nat /\ Len(s) \in Nat /\ Len(t) \in Nat
  OBVIOUS
<1>10. Len(u) = Len(v)
  BY <1>2, <1>4, <1>6, <1>8, <1>9
<1>11. ASSUME NEW i \in 1..Len(u) PROVE u[i] = v[i]
  <2>1. CASE i <= Len(r)
    <3>1. i \in 1..Len(r) /\ i \in 1..Len(rs)
      BY <1>4, <1>9, <2>1
    <3> QED
      BY <1>4, <1>6, <1>8, <3>1
  <2>2. CASE i > Len(r) /\ i <= Len(r) + Len(s)
    <3>1. /\ i \in (Len(r) + 1)..(Len(r) + Len(st)) /\ i - Len(r) \in 1..Len(s)
          /\ i \in 1..Len(rs) /\ i \in (Len(r) + 1)..(Len(r) + Len(s))
      BY <1>2, <1>4, <1>9, <2>2
    <3>2. u[i] = s[i - Len(r)]
      BY <1>2, <1>6, <3>1
    <3>3. v[i] = s[i - Len(r)]
      BY <1>4, <1>8, <3>1
    <3> QED
      BY <3>2, <3>3
  <2>3. CASE i > Len(r) + Len(s)
    <3>1. /\ i \in (Len(r) + 1)..(Len(r) + Len(st))
          /\ i - Len(r) \in (Len(s) + 1)..(Len(s) + Len(t))
          /\ i \in (Len(rs) + 1)..(Len(rs) + Len(t))
          /\ (i - Len(r)) - Len(s) = i - Len(rs)
      BY <1>2, <1>4, <1>6, <1>9, <2>3
    <3>2. u[i] = st[i - Len(r)]
      BY <1>6, <3>1
    <3>3. st[i - Len(r)] = t[(i - Len(r)) - Len(s)]
      BY <1>2, <3>1
    <3>4. v[i] = t[i - Len(rs)]
      BY <1>8, <3>1
    <3> QED
      BY <3>1, <3>2, <3>3, <3>4
  <2> QED
    BY <1>9, <2>1, <2>2, <2>3
<1>12. u = v
  BY <1>10, <1>11, SameSeq
<1> QED
  BY <1>1, <1>3, <1>5, <1>7, <1>12

\* A push message or a malformed answer arrives behind the replies.
LEMMA RepliesAside ==
    ASSUME NEW s \in Seq(Parts), NEW lo \in Nat, NEW hi \in Nat, Replies(s, lo, hi),
           NEW p \in Parts, ~ IsReply(p), p[3] = 2
    PROVE  Replies(s \o <<p>>, lo, hi)
<1>1. PICK t \in Seq(Parts) : t = s \o <<p>>
  <2>1. <<p>> \in Seq(Parts)
    OBVIOUS
  <2> QED
    BY <2>1, ConcatFacts
<1>2. /\ Len(s) \in Nat /\ Len(t) = Len(s) + 1
      /\ DOMAIN s = 1..Len(s) /\ DOMAIN t = 1..(Len(s) + 1)
      /\ \A i \in DOMAIN s : i \in DOMAIN t /\ t[i] = s[i]
      /\ t[Len(s) + 1] = p
  BY <1>1
<1>3. \A i \in DOMAIN t : i \in DOMAIN s \/ i = Len(s) + 1
  BY <1>2
<1>4. \A i \in DOMAIN t : IsReply(t[i]) => i \in DOMAIN s /\ t[i] = s[i]
  BY <1>2, <1>3
<1>5. \A i \in DOMAIN t : IsReply(t[i]) => t[i][2] \in lo + 1 .. hi
  BY <1>4 DEF Replies
<1>6. \A i \in DOMAIN t : ~ IsReply(t[i]) => t[i][3] = 2
  BY <1>2, <1>3 DEF Replies
<1>7. \A i \in DOMAIN t : IsReply(t[i]) /\ t[i][3] = 1 =>
          i + 1 \in DOMAIN t /\ t[i + 1] = <<"reply", t[i][2], 2>>
  BY <1>2, <1>4 DEF Replies
<1>8. \A i \in DOMAIN t : IsReply(t[i]) /\ t[i][3] = 2 =>
          i - 1 \in DOMAIN t /\ t[i - 1] = <<"reply", t[i][2], 1>>
  BY <1>2, <1>4 DEF Replies
<1>9. \A i, j \in DOMAIN t :
         IsReply(t[i]) /\ IsReply(t[j]) /\ t[i][3] = 2 /\ t[j][3] = 2 /\ i < j =>
            t[i][2] < t[j][2]
  BY <1>4 DEF Replies
<1>10. \A id \in lo + 1 .. hi : \E i \in DOMAIN t : t[i] = <<"reply", id, 2>>
  BY <1>2 DEF Replies
<1>11. Replies(t, lo, hi)
  BY <1>5, <1>6, <1>7, <1>8, <1>9, <1>10 DEF Replies
<1> QED
  BY <1>1, <1>11

\* The reply to the next command arrives behind the others.
LEMMA RepliesNext ==
    ASSUME NEW s \in Seq(Parts), NEW lo \in Nat, NEW hi \in Nat, Replies(s, lo, hi),
           lo <= hi
    PROVE  /\ s \o Reply(hi + 1) \in Seq(Parts)
           /\ Replies(s \o Reply(hi + 1), lo, hi + 1)
<1>1. PICK h \in Nat : h = hi + 1 /\ h > hi /\ h > lo
  OBVIOUS
<1>2. PICK p \in Parts : p = <<"reply", h, 1>>
  <2>1. <<"reply", h, 1>> \in Parts
    BY DEF Parts
  <2> QED
    BY <2>1
<1>3. PICK q \in Parts : q = <<"reply", h, 2>>
  <2>1. <<"reply", h, 2>> \in Parts
    BY DEF Parts
  <2> QED
    BY <2>1
<1>4. Reply(h) = <<p, q>>
  BY <1>2, <1>3 DEF Reply
<1>5. PICK t \in Seq(Parts) : t = s \o <<p, q>>
  <2>1. <<p, q>> \in Seq(Parts)
    OBVIOUS
  <2> QED
    BY <2>1, ConcatFacts
<1>6. PICK n \in Nat : n = Len(s) + 1
  OBVIOUS
<1>7. /\ Len(s) \in Nat /\ Len(t) = n + 1
      /\ DOMAIN s = 1..Len(s) /\ DOMAIN t = 1..(n + 1)
      /\ \A i \in DOMAIN s : i \in DOMAIN t /\ t[i] = s[i]
      /\ t[n] = p /\ t[n + 1] = q
  BY <1>5, <1>6
<1>8. \A i \in DOMAIN t : i \in DOMAIN s \/ i = n \/ i = n + 1
  BY <1>6, <1>7
<1>9. \A i \in DOMAIN s : i < n /\ i < n + 1
  BY <1>6, <1>7
<1>10. /\ IsReply(p) /\ p[2] = h /\ p[3] = 1
       /\ IsReply(q) /\ q[2] = h /\ q[3] = 2
  BY <1>2, <1>3 DEF IsReply
<1>11. \A i \in DOMAIN s : IsReply(s[i]) => s[i][2] \in lo + 1 .. hi
  BY DEF Replies
<1>12. \A i \in DOMAIN t : IsReply(t[i]) => t[i][2] \in lo + 1 .. h
  <2> SUFFICES ASSUME NEW i \in DOMAIN t, IsReply(t[i]) PROVE t[i][2] \in lo + 1 .. h
    OBVIOUS
  <2>1. CASE i \in DOMAIN s
    <3>1. t[i][2] \in lo + 1 .. hi
      BY <1>7, <1>11, <2>1
    <3> QED
      BY <1>1, <3>1
  <2>2. CASE i = n \/ i = n + 1
    BY <1>1, <1>7, <1>10, <2>2
  <2> QED
    BY <1>8, <2>1, <2>2
<1>13. \A i \in DOMAIN t : ~ IsReply(t[i]) => t[i][3] = 2
  BY <1>7, <1>8, <1>10 DEF Replies
<1>14. \A i \in DOMAIN t : IsReply(t[i]) /\ t[i][3] = 1 =>
          i + 1 \in DOMAIN t /\ t[i + 1] = <<"reply", t[i][2], 2>>
  <2> SUFFICES ASSUME NEW i \in DOMAIN t, IsReply(t[i]) /\ t[i][3] = 1
               PROVE  i + 1 \in DOMAIN t /\ t[i + 1] = <<"reply", t[i][2], 2>>
    OBVIOUS
  <2>1. CASE i \in DOMAIN s
    <3>1. i + 1 \in DOMAIN s /\ s[i + 1] = <<"reply", s[i][2], 2>>
      BY <1>7, <2>1 DEF Replies
    <3> QED
      BY <1>7, <2>1, <3>1
  <2>2. CASE i = n
    BY <1>3, <1>7, <1>10, <2>2
  <2>3. CASE i = n + 1
    BY <1>7, <1>10, <2>3
  <2> QED
    BY <1>8, <2>1, <2>2, <2>3
<1>15. \A i \in DOMAIN t : IsReply(t[i]) /\ t[i][3] = 2 =>
          i - 1 \in DOMAIN t /\ t[i - 1] = <<"reply", t[i][2], 1>>
  <2> SUFFICES ASSUME NEW i \in DOMAIN t, IsReply(t[i]) /\ t[i][3] = 2
               PROVE  i - 1 \in DOMAIN t /\ t[i - 1] = <<"reply", t[i][2], 1>>
    OBVIOUS
  <2>1. CASE i \in DOMAIN s
    <3>1. i - 1 \in DOMAIN s /\ s[i - 1] = <<"reply", s[i][2], 1>>
      BY <1>7, <2>1 DEF Replies
    <3> QED
      BY <1>7, <2>1, <3>1
  <2>2. CASE i = n
    BY <1>7, <1>10, <2>2
  <2>3. CASE i = n + 1
    <3>1. i - 1 = n /\ n \in DOMAIN t
      BY <1>6, <1>7, <2>3
    <3> QED
      BY <1>2, <1>7, <1>10, <2>3, <3>1
  <2> QED
    BY <1>8, <2>1, <2>2, <2>3
<1>16. \A i, j \in DOMAIN t :
         IsReply(t[i]) /\ IsReply(t[j]) /\ t[i][3] = 2 /\ t[j][3] = 2 /\ i < j =>
            t[i][2] < t[j][2]
  <2> SUFFICES ASSUME NEW i \in DOMAIN t, NEW j \in DOMAIN t, IsReply(t[i]), IsReply(t[j]),
                      t[i][3] = 2, t[j][3] = 2, i < j
               PROVE  t[i][2] < t[j][2]
    OBVIOUS
  <2>1. i # n /\ j # n
    BY <1>7, <1>10
  <2>2. i # n + 1
    BY <1>7
  <2>3. i \in DOMAIN s
    BY <1>8, <2>1, <2>2
  <2>4. CASE j \in DOMAIN s
    BY <1>7, <2>3, <2>4 DEF Replies
  <2>5. CASE j = n + 1
    <3>1. t[i][2] \in lo + 1 .. hi
      BY <1>7, <1>11, <2>3
    <3>2. t[j][2] = h
      BY <1>7, <1>10, <2>5
    <3> QED
      BY <1>1, <3>1, <3>2
  <2> QED
    BY <1>8, <2>1, <2>4, <2>5
<1>17. \A id \in lo + 1 .. h : \E i \in DOMAIN t : t[i] = <<"reply", id, 2>>
  <2> TAKE id \in lo + 1 .. h
  <2>1. CASE id \in lo + 1 .. hi
    BY <1>7, <2>1 DEF Replies
  <2>2. CASE id = h
    <3>1. n + 1 \in DOMAIN t
      BY <1>7
    <3> QED
      BY <1>3, <1>7, <2>2, <3>1
  <2> QED
    BY <1>1, <2>1, <2>2
<1>18. Replies(t, lo, h)
  BY <1>12, <1>13, <1>14, <1>15, <1>16, <1>17 DEF Replies
<1> QED
  BY <1>1, <1>4, <1>5, <1>18

\* A command is appended behind the others.
LEMMA CommandsNext ==
    ASSUME NEW s \in Seq(CommandParts), NEW lo \in Nat, NEW hi \in Nat,
           Commands(s, lo, hi), lo <= hi
    PROVE  /\ s \o Command(hi + 1) \in Seq(CommandParts)
           /\ Commands(s \o Command(hi + 1), lo, hi + 1)
<1>1. PICK h \in Nat : h = hi + 1
  OBVIOUS
<1>2. PICK p \in CommandParts : p = <<"cmd", h, 1>>
  <2>1. <<"cmd", h, 1>> \in CommandParts
    BY DEF CommandParts
  <2> QED
    BY <2>1
<1>3. PICK q \in CommandParts : q = <<"cmd", h, 2>>
  <2>1. <<"cmd", h, 2>> \in CommandParts
    BY DEF CommandParts
  <2> QED
    BY <2>1
<1>4. Command(h) = <<p, q>>
  BY <1>2, <1>3 DEF Command
<1>5. PICK t \in Seq(CommandParts) : t = s \o <<p, q>>
  <2>1. <<p, q>> \in Seq(CommandParts)
    OBVIOUS
  <2> QED
    BY <2>1, ConcatFacts
<1>6. PICK d \in Nat : d = hi - lo
  OBVIOUS
<1>7. Len(s) = 2 * d
  BY <1>6 DEF Commands
<1>8. /\ Len(t) = 2 * (h - lo) /\ h - lo = d + 1
      /\ \A i \in 1..(2 * d) : t[i] = s[i]
      /\ t[2 * d + 1] = p /\ t[2 * d + 2] = q
  <2>1. PICK n \in Nat : n = Len(s)
    OBVIOUS
  <2>2. Len(t) = n + 2 /\ (\A i \in 1..n : t[i] = s[i]) /\ t[n + 1] = p /\ t[n + 2] = q
    BY <1>5, <2>1
  <2>3. n = 2 * d
    BY <1>7, <2>1
  <2>4. h - lo = d + 1 /\ 2 * (h - lo) = 2 * d + 2
    BY <1>1, <1>6
  <2> QED
    BY <2>2, <2>3, <2>4
<1>9. \A k \in 1..(h - lo) : t[2 * k - 1] = <<"cmd", lo + k, 1>> /\ t[2 * k] = <<"cmd", lo + k, 2>>
  <2> TAKE k \in 1..(h - lo)
  <2>1. CASE k <= d
    <3>1. k \in 1..(hi - lo) /\ 2 * k - 1 \in 1..(2 * d) /\ 2 * k \in 1..(2 * d)
      BY <1>6, <2>1
    <3>2. s[2 * k - 1] = <<"cmd", lo + k, 1>> /\ s[2 * k] = <<"cmd", lo + k, 2>>
      BY <3>1 DEF Commands
    <3> QED
      BY <1>8, <3>1, <3>2
  <2>2. CASE k = d + 1
    <3>1. 2 * k - 1 = 2 * d + 1 /\ 2 * k = 2 * d + 2 /\ lo + k = h
      BY <1>1, <1>6, <2>2
    <3> QED
      BY <1>2, <1>3, <1>8, <3>1
  <2> QED
    BY <1>6, <1>8, <2>1, <2>2
<1>10. Commands(t, lo, h)
  BY <1>8, <1>9 DEF Commands
<1> QED
  BY <1>1, <1>4, <1>5, <1>10

\* The server takes a whole command, the first that it has not executed.
LEMMA CommandTaken ==
    ASSUME NEW s \in Seq(CommandParts), NEW t \in Seq(CommandParts),
           NEW lo \in Nat, NEW hi \in Nat, lo <= hi, Commands(s \o t, lo, hi),
           Ends(s) # {}, NEW n, n = FirstEnd(s), NEW l \in Nat, l = lo + 1
    PROVE  /\ n \in 0..Len(s) /\ s[n][2] = l /\ lo < hi
           /\ Commands(Drop(s, n) \o t, l, hi)
<1>0. PICK R : /\ R = {i \in DOMAIN s : s[i][3] = 2} /\ R # {}
               /\ n = CHOOSE i \in R : \A j \in R : i <= j
  BY DEF Ends, FirstEnd
<1>1. PICK u \in Seq(CommandParts) : u = s \o t
  BY ConcatFacts
<1>2. Len(u) = Len(s) + Len(t) /\ \A i \in 1..Len(s) : u[i] = s[i]
  BY <1>1, ConcatFacts
<1>3. PICK d \in Nat : d = hi - lo
  OBVIOUS
<1>4. /\ Len(u) = 2 * d
      /\ \A k \in 1..d : u[2 * k - 1] = <<"cmd", lo + k, 1>> /\ u[2 * k] = <<"cmd", lo + k, 2>>
  BY <1>1, <1>3 DEF Commands
<1>5. PICK i \in DOMAIN s : s[i][3] = 2
  BY <1>0
<1>6. Len(s) \in Nat /\ Len(t) \in Nat /\ i \in 1..Len(s) /\ DOMAIN s = 1..Len(s)
  OBVIOUS
<1>7. 1 \in 1..d
  BY <1>2, <1>3, <1>4, <1>6
<1>8. u[2 * 1 - 1] = <<"cmd", lo + 1, 1>> /\ u[2 * 1] = <<"cmd", lo + 1, 2>>
  BY <1>4, <1>7
<1>9. u[1] = <<"cmd", lo + 1, 1>> /\ u[2] = <<"cmd", lo + 1, 2>>
  BY <1>8
<1>10. u[1][3] = 1 /\ u[2][3] = 2 /\ u[2][2] = lo + 1
  BY <1>9
<1>11. s[1] = u[1] /\ 1 \notin R
  <2>1. 1 \in 1..Len(s)
    BY <1>6
  <2>2. s[1] = u[1]
    BY <1>2, <2>1
  <2>3. s[1][3] = 1
    BY <1>10, <2>2
  <2>4. 1 \in R => s[1][3] = 2
    BY <1>0
  <2> QED
    BY <2>2, <2>3, <2>4
<1>12. 2 \in 1..Len(s) /\ s[2] = u[2]
  <2>1. i \in R /\ i # 1
    BY <1>0, <1>5, <1>11
  <2>2. 2 \in 1..Len(s)
    BY <1>6, <2>1
  <2> QED
    BY <1>2, <2>2
<1>13. 2 \in R /\ \A j \in R : 2 <= j
  <2>1. 2 \in R
    BY <1>0, <1>6, <1>10, <1>12
  <2>2. \A j \in R : j \in 1..Len(s)
    <3>1. \A j \in R : j \in DOMAIN s
      BY <1>0
    <3> QED
      BY <1>6, <3>1, Zenon
  <2>3. \A j \in R : j # 1
    BY <1>11
  <2> QED
    BY <1>6, <2>1, <2>2, <2>3
<1>14. R \subseteq Nat
  <2>1. \A j \in R : j \in DOMAIN s
    BY <1>0
  <2>2. DOMAIN s \subseteq Nat
    OBVIOUS
  <2> QED
    BY <2>1, <2>2, Zenon
<1>15. n = 2
  <2>1. n \in R /\ \A j \in R : n <= j
    BY <1>0, <1>13
  <2> QED
    BY <1>13, <1>14, <2>1
<1>16. n \in 0..Len(s) /\ s[n][2] = lo + 1 /\ lo < hi
  <2>1. s[2][2] = lo + 1
    BY <1>10, <1>12
  <2>2. 2 \in 0..Len(s) /\ lo < hi
    BY <1>3, <1>6, <1>7, <1>12
  <2> QED
    BY <1>15, <2>1, <2>2
<1>17. Drop(s, n) \o t = Drop(u, n)
  BY <1>1, <1>16, DropConcat
<1>18. n \in 0..Len(u)
  BY <1>2, <1>6, <1>16
<1>19. PICK v \in Seq(CommandParts) : v = Drop(u, n)
  BY <1>18, DropFacts
<1>20. Len(v) = Len(u) - 2 /\ \A j \in 1..(Len(u) - 2) : v[j] = u[j + 2]
  <2>1. Len(v) = Len(u) - n /\ \A j \in 1..(Len(u) - n) : v[j] = u[j + n]
    BY <1>18, <1>19, DropFacts
  <2> QED
    BY <1>15, <2>1
<1>22. Len(v) = 2 * (hi - l) /\ hi - l = d - 1
  BY <1>3, <1>4, <1>20
<1>23. \A k \in 1..(hi - l) : v[2 * k - 1] = <<"cmd", l + k, 1>> /\ v[2 * k] = <<"cmd", l + k, 2>>
  <2> TAKE k \in 1..(hi - l)
  <2>1. PICK m \in Nat : m = k + 1
    OBVIOUS
  <2>2. m \in 1..d /\ lo + m = l + k /\ 2 * m - 1 = (2 * k - 1) + 2 /\ 2 * m = 2 * k + 2
    BY <1>22, <2>1
  <2>3. u[2 * m - 1] = <<"cmd", lo + m, 1>> /\ u[2 * m] = <<"cmd", lo + m, 2>>
    BY <1>4, <2>2
  <2>4. 2 * k - 1 \in 1..(Len(u) - 2) /\ 2 * k \in 1..(Len(u) - 2)
    BY <1>4, <1>22
  <2>5. v[2 * k - 1] = u[(2 * k - 1) + 2] /\ v[2 * k] = u[2 * k + 2]
    BY <1>20, <2>4
  <2> QED
    BY <2>2, <2>3, <2>5
<1>24. Commands(v, l, hi)
  BY <1>22, <1>23 DEF Commands
<1> QED
  BY <1>16, <1>17, <1>19, <1>24

\* Fewer push messages remain when the front is dropped.
LEMMA PushesFewer ==
    ASSUME NEW s \in Seq(Parts), NEW m \in 0..Len(s)
    PROVE  /\ Cardinality(PushPlaces(Drop(s, m))) \in Nat
           /\ Cardinality(PushPlaces(s)) \in Nat
           /\ Cardinality(PushPlaces(Drop(s, m))) <= Cardinality(PushPlaces(s))
<1>1. PICK n \in 0..Len(s) : n = 0
  OBVIOUS
<1>2. m \in n..Len(s) /\ \A i \in 1..n : s[i][1] = "push"
  BY <1>1
<1>3. /\ HandedOver(s, n) \in Nat
      /\ Cardinality(PushPlaces(Drop(s, m))) \in Nat
      /\ Cardinality(PushPlaces(s)) \in Nat
      /\ HandedOver(s, n) + Cardinality(PushPlaces(Drop(s, m))) <= Cardinality(PushPlaces(s))
  BY <1>2, PushesDropped
<1> QED
  BY <1>3

\* Only a push message counts as one.
LEMMA PushesAppended ==
    ASSUME NEW s \in Seq(Parts), NEW t \in Seq(Parts)
    PROVE  /\ Cardinality(PushPlaces(s)) \in Nat
           /\ PushPlaces(t) = {} => PushPlaces(s \o t) = PushPlaces(s)
           /\ Len(t) = 1 => Cardinality(PushPlaces(s \o t)) <= Cardinality(PushPlaces(s)) + 1
<1>1. PICK u \in Seq(Parts) : u = s \o t
  BY ConcatFacts
<1>2. /\ Len(u) = Len(s) + Len(t)
      /\ \A i \in 1..Len(s) : u[i] = s[i]
      /\ \A i \in (Len(s) + 1)..(Len(s) + Len(t)) : u[i] = t[i - Len(s)]
  BY <1>1, ConcatFacts
<1>3. Len(s) \in Nat /\ Len(t) \in Nat /\ DOMAIN s = 1..Len(s) /\ DOMAIN u = 1..Len(u)
      /\ DOMAIN t = 1..Len(t)
  OBVIOUS
<1>4. PICK P : P = PushPlaces(s)
  OBVIOUS
<1>5. IsFiniteSet(P)
  <2>1. P \in SUBSET (1..Len(s))
    BY <1>3, <1>4 DEF PushPlaces
  <2>2. IsFiniteSet(1..Len(s))
    BY <1>3, FS_Interval
  <2> QED
    BY <2>1, <2>2, FS_Subset
<1>6. P \subseteq PushPlaces(u)
  BY <1>2, <1>3, <1>4 DEF PushPlaces
<1>7. ASSUME NEW i \in PushPlaces(u), i \notin P
      PROVE  i \in (Len(s) + 1)..(Len(s) + Len(t)) /\ i - Len(s) \in PushPlaces(t)
  <2>1. i \in DOMAIN u /\ u[i][1] = "push"
    BY DEF PushPlaces
  <2>2. ~ (i \in 1..Len(s))
    BY <1>2, <1>3, <1>4, <1>7, <2>1 DEF PushPlaces
  <2>3. i \in (Len(s) + 1)..(Len(s) + Len(t)) /\ i - Len(s) \in DOMAIN t
    BY <1>2, <1>3, <2>1, <2>2
  <2> QED
    BY <1>2, <2>1, <2>3 DEF PushPlaces
<1>8. PushPlaces(t) = {} => PushPlaces(u) = P
  BY <1>6, <1>7
<1>9. CASE Len(t) = 1
  <2>1. PICK k \in Nat : k = Len(s) + 1
    BY <1>3
  <2>2. \A i \in PushPlaces(u) : i \in P \/ i = k
    BY <1>3, <1>7, <1>9, <2>1
  <2>3. PushPlaces(u) \in SUBSET (P \cup {k})
    BY <2>2
  <2>4. /\ IsFiniteSet(P \cup {k}) /\ Cardinality(P) \in Nat
        /\ Cardinality(P \cup {k}) = (IF k \in P THEN Cardinality(P) ELSE Cardinality(P) + 1)
    BY <1>5, FS_AddElement, FS_CardinalityType
  <2>5. /\ IsFiniteSet(PushPlaces(u))
        /\ Cardinality(PushPlaces(u)) <= Cardinality(P \cup {k})
    BY <2>3, <2>4, FS_Subset
  <2>6. Cardinality(PushPlaces(u)) \in Nat
    BY <2>5, FS_CardinalityType
  <2>7. Cardinality(PushPlaces(u)) <= Cardinality(P) + 1
    BY <2>4, <2>5, <2>6
  <2> QED
    BY <1>1, <1>4, <1>8, <2>4, <2>7
<1>10. CASE Len(t) # 1
  BY <1>1, <1>4, <1>5, <1>8, <1>10, FS_CardinalityType
<1> QED
  BY <1>9, <1>10

-----------------------------------------------------------------------------
(* The stream under every step. *)

\* The parts of the types.
LEMMA IoFacts ==
    ASSUME IoTyped
    PROVE  /\ obuf \in Seq(CommandParts) /\ inbox \in Seq(CommandParts)
           /\ reader \in [buf : Seq(Parts), err : BOOLEAN] /\ reader.buf \in Seq(Parts)
           /\ wire \in Seq(Parts) /\ reader.buf \o wire \in Seq(Parts)
           /\ inbox \o obuf \in Seq(CommandParts)
           /\ pushes \in [sent : Nat, handled : Nat]
           /\ pushes.sent \in Nat /\ pushes.handled \in Nat
<1>1. /\ obuf \in Seq(CommandParts) /\ inbox \in Seq(CommandParts)
      /\ reader \in [buf : Seq(Parts), err : BOOLEAN]
      /\ wire \in Seq(Parts) /\ pushes \in [sent : Nat, handled : Nat]
  BY DEF IoTyped
<1>2. reader.buf \in Seq(Parts) /\ pushes.sent \in Nat /\ pushes.handled \in Nat
  BY <1>1
<1> QED
  BY <1>1, <1>2, ConcatFacts

\* Steps that touch neither the buffers nor the server.
LEMMA SameStream ==
    ASSUME StreamInv, UNCHANGED ioVars, opts'.push = opts.push, pc' # "freed" => pc # "freed"
    PROVE  StreamInv'
<1>1. /\ obuf' = obuf /\ reader' = reader /\ inbox' = inbox /\ wire' = wire /\ srv' = srv
      /\ asked' = asked /\ got' = got /\ issued' = issued /\ pushes' = pushes
  BY DEF ioVars
<1>2. IoTyped'
  BY <1>1 DEF StreamInv, IoTyped
<1>3. AnsweredInRow' /\ Answered' = Answered
  BY <1>1, SameAnswers DEF StreamInv
<1>4. Streams'
  <2>1. Streams
    BY DEF StreamInv
  <2> QED
    BY <1>1, <1>3, <2>1, Zenon DEF Streams
<1>5. PushesCounted'
  BY <1>1 DEF StreamInv, PushesCounted
<1> QED
  BY <1>2, <1>3, <1>4, <1>5 DEF StreamInv

\* Connecting leaves the options alone.
LEMMA ConnectAside ==
    ASSUME ConnectStep
    PROVE  opts' = opts /\ pc # "freed"
BY Zenon DEF ConnectStep, valkeyConnectWithOptions, ApplyTimeout, valkeyResolveSync, NoSocket,
   NewSocket, BindSource, AddressOOM, ConnectCall, NoAddressLeft, PollInterrupted, PollFailed,
   PollReady, FinishConnect, ConnectUnix, ConnectUserfd

\* valkeyAppendCommand.
LEMMA AppendStream ==
    ASSUME StreamInv, valkeyAppendCommand
    PROVE  StreamInv'
<1>1. /\ opts' = opts /\ pc' = pc /\ pc = "idle" /\ issued < MaxCmds
      /\ issued' = issued + 1 /\ asked' = Append(asked, issued + 1)
      /\ obuf' = obuf \o Command(issued + 1)
      /\ reader' = reader /\ inbox' = inbox /\ wire' = wire /\ srv' = srv /\ got' = got
      /\ pushes' = pushes
  BY DEF valkeyAppendCommand, connVars
<1>2. IoTyped /\ AnsweredInRow
  BY DEF StreamInv
<1>3. /\ Len(asked) \in Nat /\ issued \in Nat /\ Cardinality(Answers) \in Nat
      /\ First \in Nat /\ Answered \in Nat /\ Answered <= issued /\ asked \in Seq(Nat)
  BY <1>2, Numbers DEF IoTyped
<1>4. PICK id \in Nat : id = issued + 1
  BY <1>3
<1>5. Command(id) \in Seq(CommandParts)
  <2>1. <<"cmd", id, 1>> \in CommandParts /\ <<"cmd", id, 2>> \in CommandParts
    BY DEF CommandParts
  <2> QED
    BY <2>1 DEF Command
<1>6. obuf' \in Seq(CommandParts) /\ inbox \o obuf' = (inbox \o obuf) \o Command(id)
  <2>1. obuf \in Seq(CommandParts) /\ inbox \in Seq(CommandParts)
    BY <1>2, IoFacts
  <2>2. obuf' = obuf \o Command(id)
    BY <1>1, <1>4
  <2>3. obuf \o Command(id) \in Seq(CommandParts)
    BY <1>5, <2>1, ConcatFacts
  <2>4. inbox \o (obuf \o Command(id)) = (inbox \o obuf) \o Command(id)
    BY <1>5, <2>1, ConcatTwice
  <2> QED
    BY <2>2, <2>3, <2>4
<1>7. /\ asked' \in Seq(Nat) /\ Len(asked') = Len(asked) + 1 /\ asked'[Len(asked) + 1] = id
      /\ \A i \in 1..Len(asked) : asked'[i] = asked[i]
  BY <1>1, <1>3, <1>4
<1>8. IoTyped'
  <2>1. issued' \in 0..MaxCmds
    BY <1>1, <1>3, BlockingAssumption
  <2> QED
    BY <1>1, <1>2, <1>6, <1>7, <2>1 DEF IoTyped
<1>9. Answers' = Answers /\ First' = First /\ Answered' = Answered
  <2>1. Answers' = Answers
    BY <1>1 DEF Answers
  <2>2. First' = First
    BY <1>1, <1>3, <1>7 DEF First
  <2> QED
    BY <2>1, <2>2 DEF Answered
<1>10. AnsweredInRow'
  <2>1. AskedInRow'
    <3> SUFFICES ASSUME NEW i \in 1..(Len(asked) + 1) PROVE asked'[i] = First + i
      BY <1>7, <1>9 DEF AskedInRow
    <3>1. CASE i \in 1..Len(asked)
      <4>1. i \in DOMAIN asked
        BY <1>3, <3>1
      <4>2. asked[i] = First + i
        BY <1>2, <4>1 DEF AnsweredInRow, AskedInRow
      <4> QED
        BY <1>7, <3>1, <4>2
    <3>2. CASE i = Len(asked) + 1
      BY <1>3, <1>4, <1>7, <3>2 DEF First
    <3> QED
      BY <1>3, <3>1, <3>2
  <2>2. OwnReply'
    <3> SUFFICES ASSUME NEW i \in Answers
                 PROVE  /\ AnswersUpTo(i) <= Len(asked')
                        /\ got[i][2] = asked'[AnswersUpTo(i)]
      BY <1>1, <1>9 DEF OwnReply, AnswersUpTo
    <3>1. AnswersUpTo(i) <= Len(asked) /\ got[i][2] = asked[AnswersUpTo(i)]
      BY <1>2 DEF AnsweredInRow, OwnReply
    <3>2. AnswersUpTo(i) \in Nat /\ AnswersUpTo(i) # 0
      <4>1. PICK A : A = {j \in Answers : j <= i}
        OBVIOUS
      <4>2. A \in SUBSET Answers /\ IsFiniteSet(Answers) /\ i \in 1..Len(got)
        BY <1>2, <4>1, AnswersFinite
      <4>3. i \in A /\ IsFiniteSet(A)
        <5>1. i <= i
          BY <4>2
        <5> QED
          BY <4>1, <4>2, <5>1, FS_Subset
      <4>4. Cardinality(A) \in Nat /\ Cardinality(A) # 0
        BY <4>3, FS_CardinalityType, FS_EmptySet
      <4> QED
        BY <4>1, <4>4 DEF AnswersUpTo
    <3>3. AnswersUpTo(i) \in 1..Len(asked)
      BY <1>3, <3>1, <3>2
    <3> QED
      BY <1>3, <1>7, <3>1, <3>2, <3>3
  <2>3. PushesAside'
    BY <1>1, <1>2, <1>9 DEF AnsweredInRow, PushesAside
  <2>4. Len(asked') <= issued' /\ Cardinality(Answers') <= Len(asked')
    BY <1>1, <1>2, <1>3, <1>7, <1>9 DEF AnsweredInRow
  <2> QED
    BY <2>1, <2>2, <2>3, <2>4 DEF AnsweredInRow
<1>11. Streams'
  <2> SUFFICES ASSUME ~ reader.err
               PROVE  \E served \in Answered .. id :
                         /\ Replies(reader.buf \o wire, Answered, served)
                         /\ srv = "up" => Commands(inbox \o obuf', served, id)
    BY <1>1, <1>4, <1>9 DEF Streams
  <2>1. PICK served \in Answered .. issued :
           /\ Replies(reader.buf \o wire, Answered, served)
           /\ srv = "up" => Commands(inbox \o obuf, served, issued)
    BY <1>1 DEF StreamInv, Streams
  <2>2. served \in Nat /\ served \in Answered .. id /\ served <= issued
    BY <1>3, <1>4
  <2>3. srv = "up" => Commands((inbox \o obuf) \o Command(id), served, id)
    <3>1. inbox \o obuf \in Seq(CommandParts)
      BY <1>2, IoFacts
    <3> QED
      BY <1>3, <1>4, <2>1, <2>2, <3>1, CommandsNext
  <2> QED
    BY <1>6, <2>1, <2>2, <2>3
<1>12. PushesCounted'
  BY <1>1 DEF StreamInv, PushesCounted
<1> QED
  BY <1>8, <1>10, <1>11, <1>12 DEF StreamInv

\* The reader is asked for the next reply, after a read or without one.
LEMMA TakenStream ==
    ASSUME StreamInv, pc # "freed",
           NEW rd \in [buf : Seq(Parts), err : BOOLEAN], rd.err => rd.buf = <<>>,
           rd.err = reader.err, NEW w \in Seq(Parts), rd.buf \o w = reader.buf \o wire,
           NEW x, x = NextInBandReply(rd), reader' = x.rd, wire' = w,
           pushes' = [pushes EXCEPT !.handled = @ + x.pushed],
           obuf' = obuf, inbox' = inbox, srv' = srv, asked' = asked, issued' = issued,
           opts' = opts,
           \/ (x.rd.err \/ x.reply = NULL) /\ got' = got
           \/ ~ x.rd.err /\ x.reply # NULL /\ got' = Append(got, x.reply)
    PROVE  StreamInv'
<1>1. IoTyped /\ AnsweredInRow
  BY DEF StreamInv
<1>2. /\ Len(asked) \in Nat /\ issued \in Nat /\ Cardinality(Answers) \in Nat
      /\ First \in Nat /\ Answered \in Nat /\ Answered <= issued
  BY <1>1, Numbers
<1>3. /\ x.rd \in [buf : Seq(Parts), err : BOOLEAN]
      /\ x.rd.err => x.rd.buf = <<>> /\ x.reply = NULL
      /\ rd.err => x.rd.err
      /\ x.reply \in Parts \cup {NULL}
  BY NextDrops
<1>4. PICK a \in Nat : a = Answered
  BY <1>2
<1>5. ~ rd.err => \E served \in a .. issued :
          /\ Replies(rd.buf \o w, a, served)
          /\ srv = "up" => Commands(inbox \o obuf, served, issued)
  BY <1>4 DEF StreamInv, Streams
<1>6. ASSUME ~ x.rd.err, NEW served \in a .. issued, Replies(rd.buf \o w, a, served)
      PROVE  \/ x.reply = NULL /\ Replies(x.rd.buf \o w, a, served)
             \/ /\ x.reply = <<"reply", a + 1, 2>> /\ a < served
                /\ Replies(x.rd.buf \o w, a + 1, served)
             \/ /\ ~ opts.push /\ x.reply \in Parts /\ x.reply[1] = "push"
                /\ Replies(x.rd.buf \o w, a, served)
  <2>1. ~ rd.err /\ served \in Nat
    BY <1>2, <1>3, <1>6
  <2>2. InStepAfter(x, w, a, served)
    BY <1>6, <2>1, NextReply
  <2> QED
    BY <1>6, <2>2 DEF InStepAfter
<1>7. PushesCounted' /\ pushes' \in [sent : Nat, handled : Nat]
  <2>1. pushes \in [sent : Nat, handled : Nat] /\ pushes.sent \in Nat /\ pushes.handled \in Nat
    BY <1>1, IoFacts
  <2>2. /\ x.pushed \in Nat
        /\ Cardinality(PushPlaces(x.rd.buf \o w)) \in Nat
        /\ Cardinality(PushPlaces(rd.buf \o w)) \in Nat
        /\ x.pushed + Cardinality(PushPlaces(x.rd.buf \o w))
             <= Cardinality(PushPlaces(rd.buf \o w))
    BY NextPushes
  <2>3. /\ pushes.handled + Cardinality(PushPlaces(rd.buf \o w)) <= pushes.sent
        /\ pushes.sent <= MaxPushes
    BY DEF StreamInv, PushesCounted
  <2>4. pushes'.sent = pushes.sent /\ pushes'.handled = pushes.handled + x.pushed
    BY <2>1
  <2>5. pushes' \in [sent : Nat, handled : Nat]
    <3>1. PICK k \in Nat : k = pushes.handled + x.pushed
      BY <2>1, <2>2
    <3>2. pushes' = [pushes EXCEPT !.handled = k]
      BY <3>1
    <3> QED
      BY <2>1, <3>2
  <2>6. PushesCounted'
    BY <2>1, <2>2, <2>3, <2>4 DEF PushesCounted
  <2> QED
    BY <2>5, <2>6
<1>8. ASSUME got' \in Seq(Parts) PROVE IoTyped'
  BY <1>1, <1>3, <1>7, <1>8 DEF IoTyped
<1>9. got \in Seq(Parts)
  BY <1>1 DEF IoTyped
<1>10. CASE x.rd.err
  <2>1. got' = got
    BY <1>10
  <2>2. AnsweredInRow'
    BY <1>1, <2>1, SameAnswers
  <2>3. Streams'
    BY <1>10 DEF Streams
  <2> QED
    BY <1>7, <1>8, <1>9, <2>1, <2>2, <2>3 DEF StreamInv
<1>11. CASE ~ x.rd.err
  <2>1. PICK served \in a .. issued :
          /\ Replies(rd.buf \o w, a, served)
          /\ srv = "up" => Commands(inbox \o obuf, served, issued)
    BY <1>3, <1>5, <1>11
  <2>2. ASSUME AnsweredInRow', got' \in Seq(Parts),
               NEW b \in Nat, Answered' = b, b <= served, Replies(x.rd.buf \o w, b, served)
        PROVE  StreamInv'
    <3>1. served \in b .. issued
      BY <1>2, <1>4, <2>2
    <3>2. Streams'
      BY <2>1, <2>2, <3>1 DEF Streams
    <3> QED
      BY <1>7, <1>8, <2>2, <3>2 DEF StreamInv
  <2>3. a <= served /\ served \in Nat /\ served <= issued
    BY <1>2, <1>4, <2>1
  <2>4. CASE x.reply = NULL
    <3>1. got' = got
      BY <2>4
    <3>2. AnsweredInRow' /\ Answered' = a
      BY <1>1, <1>4, <3>1, SameAnswers
    <3>3. x.reply \notin Parts
      BY <2>4, BlockingAssumption
    <3>4. <<"reply", a + 1, 2>> \in Parts
      <4>1. a + 1 \in Nat
        OBVIOUS
      <4> QED
        BY <4>1 DEF Parts
    <3>5. Replies(x.rd.buf \o w, a, served)
      BY <1>6, <1>11, <2>1, <3>3, <3>4
    <3> QED
      BY <1>9, <2>2, <2>3, <3>1, <3>2, <3>5
  <2>5. CASE x.reply = <<"reply", a + 1, 2>> /\ a < served /\ x.reply # NULL
             /\ Replies(x.rd.buf \o w, a + 1, served)
    <3>1. got' = Append(got, <<"reply", Answered + 1, 2>>)
      BY <1>4, <1>11, <2>5
    <3>2. Answered < issued
      BY <1>2, <1>4, <2>3, <2>5
    <3>3. AnsweredInRow' /\ Answered' = Answered + 1 /\ got' \in Seq(Parts)
      BY <1>1, <3>1, <3>2, OwnReturned
    <3>4. PICK b \in Nat : b = a + 1
      OBVIOUS
    <3>5. Answered' = b /\ b <= served /\ Replies(x.rd.buf \o w, b, served)
      BY <1>4, <2>3, <2>5, <3>3, <3>4
    <3> QED
      BY <2>2, <3>3, <3>5
  <2>6. CASE /\ ~ opts.push /\ x.reply \in Parts /\ x.reply[1] = "push" /\ x.reply # NULL
             /\ Replies(x.rd.buf \o w, a, served)
    <3>1. PICK y \in Parts : y = x.reply
      BY <2>6
    <3>2. got' = Append(got, y) /\ y[1] = "push"
      BY <1>11, <2>6, <3>1
    <3>3. AnsweredInRow' /\ Answered' = Answered /\ got' \in Seq(Parts)
      BY <1>1, <2>6, <3>2, PushReturned
    <3> QED
      BY <1>4, <2>2, <2>3, <2>6, <3>3
  <2> QED
    BY <1>6, <1>11, <2>1, <2>4, <2>5, <2>6
<1> QED
  BY <1>10, <1>11

\* valkeyGetReply.
LEMMA GetReplyStream ==
    ASSUME StreamInv, valkeyGetReply
    PROVE  StreamInv'
<1>1. PICK x : x = NextInBandReply(reader)
  OBVIOUS
<1>2. /\ pc = "idle" /\ reader' = x.rd
      /\ pushes' = [pushes EXCEPT !.handled = @ + x.pushed]
      /\ obuf' = obuf /\ inbox' = inbox /\ srv' = srv /\ asked' = asked /\ issued' = issued
      /\ opts' = opts /\ wire' = wire
  BY <1>1 DEF valkeyGetReply
<1>3. \/ (x.rd.err \/ x.reply = NULL) /\ got' = got
      \/ ~ x.rd.err /\ x.reply # NULL /\ got' = Append(got, x.reply)
  BY <1>1 DEF valkeyGetReply, Deliver
<1>4. reader \in [buf : Seq(Parts), err : BOOLEAN] /\ wire \in Seq(Parts)
  BY IoFacts DEF StreamInv
<1>5. reader.err => reader.buf = <<>>
  BY DEF StreamInv, IoTyped
<1>6. PICK rd \in [buf : Seq(Parts), err : BOOLEAN] : rd = reader
  BY <1>4
<1>7. PICK w \in Seq(Parts) : w = wire
  BY <1>4
<1> QED
  BY <1>1, <1>2, <1>3, <1>5, <1>6, <1>7, TakenStream

\* valkeyBufferWrite.
LEMMA WriteStream ==
    ASSUME StreamInv, valkeyBufferWrite
    PROVE  StreamInv'
<1>1. /\ pc # "freed" /\ opts' = opts /\ reader' = reader /\ wire' = wire /\ srv' = srv
      /\ asked' = asked /\ got' = got /\ issued' = issued /\ pushes' = pushes
  BY DEF valkeyBufferWrite
<1>2. /\ obuf' \in Seq(CommandParts) /\ inbox' \in Seq(CommandParts)
      /\ srv = "up" => inbox' \o obuf' = inbox \o obuf
  <2>1. obuf \in Seq(CommandParts) /\ inbox \in Seq(CommandParts)
    BY IoFacts DEF StreamInv
  <2>2. CASE \E n \in 1..Len(obuf) :
                /\ obuf' = Drop(obuf, n)
                /\ inbox' = IF srv = "up" THEN inbox \o Take(obuf, n) ELSE inbox
    <3>1. PICK n \in 1..Len(obuf) :
                /\ obuf' = Drop(obuf, n)
                /\ inbox' = IF srv = "up" THEN inbox \o Take(obuf, n) ELSE inbox
      BY <2>2
    <3>2. n \in 0..Len(obuf)
      OBVIOUS
    <3>3. Drop(obuf, n) \in Seq(CommandParts) /\ Take(obuf, n) \in Seq(CommandParts)
      BY <2>1, <3>2, DropFacts, TakeFacts
    <3>4. inbox \o Take(obuf, n) \in Seq(CommandParts)
      BY <2>1, <3>3, ConcatFacts
    <3>5. (inbox \o Take(obuf, n)) \o Drop(obuf, n) = inbox \o obuf
      BY <2>1, <3>2, MovedAlong
    <3> QED
      BY <2>1, <3>1, <3>3, <3>4, <3>5
  <2>3. CASE UNCHANGED <<obuf, inbox>>
    BY <2>1, <2>3
  <2> QED
    BY <2>2, <2>3 DEF valkeyBufferWrite
<1>3. IoTyped'
  BY <1>1, <1>2 DEF StreamInv, IoTyped
<1>4. AnsweredInRow' /\ Answered' = Answered
  BY <1>1, SameAnswers DEF StreamInv
<1>5. Streams'
  BY <1>1, <1>2, <1>4 DEF StreamInv, Streams
<1>6. PushesCounted'
  BY <1>1 DEF StreamInv, PushesCounted
<1> QED
  BY <1>3, <1>4, <1>5, <1>6 DEF StreamInv

\* Bytes are read and nothing is taken from them yet.
LEMMA FedStream ==
    ASSUME StreamInv, pc # "freed",
           NEW rd \in [buf : Seq(Parts), err : BOOLEAN], rd.err => rd.buf = <<>>,
           rd.err = reader.err, NEW w \in Seq(Parts), rd.buf \o w = reader.buf \o wire,
           reader' = rd, wire' = w, obuf' = obuf, inbox' = inbox, srv' = srv,
           asked' = asked, issued' = issued, got' = got, pushes' = pushes, opts' = opts
    PROVE  StreamInv'
<1>1. IoTyped'
  BY DEF StreamInv, IoTyped
<1>2. AnsweredInRow' /\ Answered' = Answered
  BY SameAnswers DEF StreamInv
<1>3. Streams'
  BY <1>2 DEF StreamInv, Streams
<1>4. PushesCounted'
  BY DEF StreamInv, PushesCounted
<1> QED
  BY <1>1, <1>2, <1>3, <1>4 DEF StreamInv

\* valkeyBufferRead.
LEMMA ReadStream ==
    ASSUME StreamInv, valkeyBufferRead
    PROVE  StreamInv'
<1>1. /\ pc # "freed" /\ opts' = opts /\ obuf' = obuf /\ inbox' = inbox /\ srv' = srv
      /\ asked' = asked /\ issued' = issued /\ ~ reader.err
  BY DEF valkeyBufferRead
<1>2. /\ reader \in [buf : Seq(Parts), err : BOOLEAN] /\ wire \in Seq(Parts)
      /\ reader.buf \in Seq(Parts)
  BY IoFacts DEF StreamInv
<1>3. CASE wire = <<>> /\ ReadFails
  <2>1. reader' = reader /\ wire' = wire /\ got' = got /\ pushes' = pushes
    BY <1>3 DEF ReadFails
  <2>2. UNCHANGED ioVars
    BY <1>1, <2>1 DEF ioVars
  <2> QED
    BY <1>1, <2>2, SameStream
<1>4. CASE wire # <<>>
  <2>1. PICK n \in 1..Len(wire) :
            LET fed == [reader EXCEPT !.buf = @ \o Take(wire, n)]
                x   == NextInBandReply(fed)
            IN  /\ wire' = Drop(wire, n)
                /\ \/ reader' = fed /\ got' = got /\ pushes' = pushes
                   \/ /\ reader' = x.rd
                      /\ pushes' = [pushes EXCEPT !.handled = @ + x.pushed]
                      /\ \/ (x.rd.err \/ x.reply = NULL) /\ got' = got
                         \/ ~ x.rd.err /\ x.reply # NULL /\ got' = Append(got, x.reply)
    BY <1>4 DEF valkeyBufferRead, Deliver
  <2>2. n \in 0..Len(wire)
    OBVIOUS
  <2>3. PICK t \in Seq(Parts) : t = Take(wire, n)
    BY <1>2, <2>2, TakeFacts
  <2>4. PICK w \in Seq(Parts) : w = Drop(wire, n)
    BY <1>2, <2>2, DropFacts
  <2>5. PICK b \in Seq(Parts) : b = reader.buf \o t
    BY <1>2, <2>3, ConcatFacts
  <2>6. b \o w = reader.buf \o wire
    BY <1>2, <2>2, <2>3, <2>4, <2>5, MovedAlong
  <2>7. PICK rd : rd = [reader EXCEPT !.buf = @ \o Take(wire, n)]
    OBVIOUS
  <2>8. rd = [reader EXCEPT !.buf = b]
    BY <2>3, <2>5, <2>7
  <2>9. rd \in [buf : Seq(Parts), err : BOOLEAN] /\ rd.buf = b /\ rd.err = reader.err
    BY <1>2, <2>8
  <2>10. PICK x : x = NextInBandReply(rd)
    OBVIOUS
  <2>11. wire' = w
    BY <2>1, <2>4
  <2>12. rd.err = FALSE /\ rd.buf \o w = reader.buf \o wire
    BY <1>1, <1>2, <2>6, <2>9
  <2>13. CASE reader' = rd /\ got' = got /\ pushes' = pushes
    BY <1>1, <2>9, <2>11, <2>12, <2>13, FedStream
  <2>14. CASE /\ reader' = x.rd
              /\ pushes' = [pushes EXCEPT !.handled = @ + x.pushed]
              /\ \/ (x.rd.err \/ x.reply = NULL) /\ got' = got
                 \/ ~ x.rd.err /\ x.reply # NULL /\ got' = Append(got, x.reply)
    BY <1>1, <2>9, <2>10, <2>11, <2>12, <2>14, TakenStream
  <2> QED
    BY <2>1, <2>7, <2>10, <2>13, <2>14
<1> QED
  BY <1>3, <1>4 DEF valkeyBufferRead

\* A stream with nothing in it.
LEMMA NothingOwed ==
    ASSUME NEW n \in Nat
    PROVE  /\ Replies(<<>> \o <<>>, n, n) /\ Commands(<<>> \o <<>>, n, n)
           /\ PushPlaces(<<>> \o <<>>) = {}
<1>1. <<>> \o <<>> = <<>>
  OBVIOUS
<1>2. n + 1 .. n = {} /\ 1 .. (n - n) = {} /\ n - n = 0
  OBVIOUS
<1>3. DOMAIN <<>> = {}
  OBVIOUS
<1>4. Replies(<<>>, n, n)
  BY <1>2, <1>3 DEF Replies
<1>5. Commands(<<>>, n, n)
  BY <1>2 DEF Commands
<1>6. PushPlaces(<<>>) = {}
  BY <1>3 DEF PushPlaces
<1> QED
  BY <1>1, <1>4, <1>5, <1>6

\* A connection on which nothing has happened yet.
LEMMA FreshStream ==
    ASSUME obuf = <<>>, reader.buf = <<>>, reader \in [buf : Seq(Parts), err : BOOLEAN],
           inbox = <<>>, wire = <<>>, srv = "up", asked = <<>>, got = <<>>,
           issued \in 0..MaxCmds, pushes \in [sent : Nat, handled : Nat],
           pushes.handled <= pushes.sent, pushes.sent <= MaxPushes
    PROVE  StreamInv
<1>1. IoTyped
  BY DEF IoTyped
<1>2. Answers = {} /\ Cardinality(Answers) = 0
  <2>1. Answers = {}
    BY DEF Answers
  <2> QED
    BY <2>1, FS_EmptySet
<1>3. issued \in Nat /\ Len(asked) = 0 /\ DOMAIN asked = {} /\ DOMAIN got = {}
  BY BlockingAssumption
<1>4. First = issued /\ Answered = issued
  BY <1>2, <1>3 DEF First, Answered
<1>5. AnsweredInRow
  <2>1. OwnReply /\ PushesAside
    BY <1>2, <1>3 DEF OwnReply, PushesAside
  <2>2. AskedInRow
    BY <1>3 DEF AskedInRow
  <2> QED
    BY <1>2, <1>3, <2>1, <2>2 DEF AnsweredInRow
<1>6. Streams
  <2>1. PICK n \in Nat : n = issued
    BY <1>3
  <2>2. Replies(<<>> \o <<>>, n, n) /\ Commands(<<>> \o <<>>, n, n) /\ n \in n .. n
    BY NothingOwed
  <2> QED
    BY <1>4, <2>1, <2>2 DEF Streams
<1>7. PushesCounted
  <2>1. PushPlaces(<<>> \o <<>>) = {}
    BY NothingOwed, <1>3
  <2>2. Cardinality(PushPlaces(reader.buf \o wire)) = 0
    BY <2>1, FS_EmptySet
  <2> QED
    BY <2>2 DEF PushesCounted
<1> QED
  BY <1>1, <1>5, <1>6, <1>7 DEF StreamInv

\* valkeyReconnect, with the two buffers and the server's side.
LEMMA ReconnectStream ==
    ASSUME StreamInv, Reconnect
    PROVE  StreamInv'
<1>1. /\ obuf' = <<>> /\ reader' = [buf |-> <<>>, err |-> FALSE]
      /\ inbox' = <<>> /\ wire' = <<>> /\ srv' = "up" /\ asked' = <<>> /\ got' = <<>>
      /\ issued' = issued /\ pushes' = pushes
  BY DEF Reconnect
<1>2. reader'.buf = <<>> /\ reader' \in [buf : Seq(Parts), err : BOOLEAN]
  BY <1>1
<1>3. issued \in 0..MaxCmds /\ pushes \in [sent : Nat, handled : Nat]
      /\ pushes.sent \in Nat /\ pushes.handled \in Nat
  BY IoFacts DEF StreamInv, IoTyped
<1>4. pushes.handled <= pushes.sent /\ pushes.sent <= MaxPushes
  <2>1. reader.buf \o wire \in Seq(Parts)
    BY IoFacts DEF StreamInv
  <2>2. Cardinality(PushPlaces(reader.buf \o wire)) \in Nat
    BY <2>1, PushesAppended
  <2> QED
    BY <1>3, <2>2 DEF StreamInv, PushesCounted
<1>5. IoTyped'
  BY <1>1, <1>2, <1>3 DEF IoTyped
<1>6. Answers' = {} /\ Cardinality(Answers') = 0
  <2>1. Answers' = {}
    BY <1>1 DEF Answers
  <2> QED
    BY <2>1, FS_EmptySet
<1>7. issued' \in Nat /\ Len(asked') = 0 /\ DOMAIN asked' = {} /\ DOMAIN got' = {}
  BY <1>1, <1>3, BlockingAssumption
<1>8. First' = issued /\ Answered' = issued
  BY <1>1, <1>6, <1>7 DEF First, Answered
<1>9. AnsweredInRow'
  <2>1. OwnReply' /\ PushesAside'
    BY <1>6, <1>7 DEF OwnReply, PushesAside
  <2>2. AskedInRow'
    BY <1>7 DEF AskedInRow
  <2> QED
    BY <1>6, <1>7, <2>1, <2>2 DEF AnsweredInRow
<1>10. PICK n \in Nat : n = issued
  BY <1>1, <1>7
<1>11. /\ Replies(<<>> \o <<>>, n, n) /\ Commands(<<>> \o <<>>, n, n) /\ n \in n .. n
       /\ PushPlaces(<<>> \o <<>>) = {}
  BY NothingOwed
<1>12. Streams'
  BY <1>1, <1>2, <1>8, <1>10, <1>11 DEF Streams
<1>13. PushesCounted'
  <2>1. Cardinality(PushPlaces(reader'.buf \o wire')) = 0
    BY <1>1, <1>2, <1>11, FS_EmptySet
  <2> QED
    BY <1>1, <1>3, <1>4, <2>1 DEF PushesCounted
<1> QED
  BY <1>5, <1>9, <1>12, <1>13 DEF StreamInv

\* valkeyFree: the buffers go, what was on the wire is lost.
LEMMA FreeStream ==
    ASSUME StreamInv, valkeyFree
    PROVE  StreamInv'
<1>1. /\ pc' = "freed" /\ obuf' = <<>> /\ reader' = [buf |-> <<>>, err |-> FALSE]
      /\ opts' = opts /\ inbox' = inbox /\ wire' = wire /\ srv' = srv /\ asked' = asked
      /\ got' = got /\ issued' = issued /\ pushes' = pushes
  BY DEF valkeyFree
<1>2. reader'.buf = <<>> /\ reader' \in [buf : Seq(Parts), err : BOOLEAN]
  BY <1>1
<1>3. IoTyped'
  BY <1>1, <1>2 DEF StreamInv, IoTyped
<1>4. AnsweredInRow'
  BY <1>1, SameAnswers DEF StreamInv
<1>5. Streams'
  BY <1>1 DEF Streams
<1>6. PushesCounted'
  <2>1. PICK b \in Seq(Parts) : b = reader.buf
    BY IoFacts DEF StreamInv
  <2>2. PICK w \in Seq(Parts) : w = wire
    BY IoFacts DEF StreamInv
  <2>3. Len(b) \in 0..Len(b) /\ Drop(b, Len(b)) = <<>>
    BY DropAll
  <2>4. Drop(b, Len(b)) \o w = Drop(b \o w, Len(b))
    BY <2>3, DropConcat
  <2>5. PICK s \in Seq(Parts) : s = b \o w /\ Len(s) = Len(b) + Len(w)
    BY ConcatFacts
  <2>6. Len(b) \in 0..Len(s)
    BY <2>5
  <2>7. Cardinality(PushPlaces(Drop(s, Len(b)))) <= Cardinality(PushPlaces(s))
        /\ Cardinality(PushPlaces(Drop(s, Len(b)))) \in Nat
        /\ Cardinality(PushPlaces(s)) \in Nat
    BY <2>6, PushesFewer
  <2>8. reader'.buf \o wire' = Drop(s, Len(b))
    BY <1>1, <1>2, <2>2, <2>3, <2>4, <2>5
  <2>9. pushes.sent \in Nat /\ pushes.handled \in Nat
    BY IoFacts DEF StreamInv
  <2>10. /\ pushes.handled + Cardinality(PushPlaces(s)) <= pushes.sent
         /\ pushes.sent <= MaxPushes
    BY <2>1, <2>2, <2>5 DEF StreamInv, PushesCounted
  <2> QED
    BY <1>1, <2>7, <2>8, <2>9, <2>10 DEF PushesCounted
<1> QED
  BY <1>3, <1>4, <1>5, <1>6 DEF StreamInv

\* The server executes a command.
LEMMA ExecuteStream ==
    ASSUME StreamInv, ServerExecutes
    PROVE  StreamInv'
<1>1. /\ opts' = opts /\ pc' = pc /\ obuf' = obuf /\ reader' = reader /\ srv' = srv
      /\ asked' = asked /\ got' = got /\ issued' = issued /\ pushes' = pushes
      /\ srv = "up" /\ Received # {}
  BY DEF ServerExecutes, connVars
<1>2. PICK n : n = CHOOSE i \in Received : \A j \in Received : i <= j
  OBVIOUS
<1>3. inbox' = Drop(inbox, n) /\ wire' = wire \o Reply(inbox[n][2])
  BY <1>2 DEF ServerExecutes
<1>4. IoTyped /\ AnsweredInRow
  BY DEF StreamInv
<1>5. /\ obuf \in Seq(CommandParts) /\ inbox \in Seq(CommandParts)
      /\ reader.buf \in Seq(Parts) /\ wire \in Seq(Parts) /\ reader.buf \o wire \in Seq(Parts)
  BY <1>4, IoFacts
<1>6. n \in DOMAIN inbox /\ n \in 0..Len(inbox) /\ inbox[n] \in CommandParts
  <2>1. Received \in SUBSET Nat
    BY <1>5 DEF Received
  <2>2. \E i \in Received : \A j \in Received : i <= j
    BY <1>1, <2>1, Least
  <2>3. n \in Received
    BY <1>2, <2>2
  <2>4. n \in DOMAIN inbox
    BY <2>3 DEF Received
  <2> QED
    BY <1>5, <2>4
<1>7. PICK id \in Nat : id = inbox[n][2]
  BY <1>6 DEF CommandParts
<1>8. Reply(id) \in Seq(Parts) /\ PushPlaces(Reply(id)) = {}
  <2>1. PICK p \in Parts : p = <<"reply", id, 1>>
    <3>1. <<"reply", id, 1>> \in Parts
      BY DEF Parts
    <3> QED
      BY <3>1
  <2>2. PICK q \in Parts : q = <<"reply", id, 2>>
    <3>1. <<"reply", id, 2>> \in Parts
      BY DEF Parts
    <3> QED
      BY <3>1
  <2>3. p[1] = "reply" /\ q[1] = "reply"
    BY <2>1, <2>2
  <2>4. Reply(id) = <<p, q>>
    BY <2>1, <2>2 DEF Reply
  <2>5. \A i \in DOMAIN <<p, q>> : <<p, q>>[i] = p \/ <<p, q>>[i] = q
    OBVIOUS
  <2> QED
    BY <2>3, <2>4, <2>5 DEF PushPlaces
<1>9. /\ wire' \in Seq(Parts)
      /\ reader.buf \o wire' = (reader.buf \o wire) \o Reply(id)
  <2>1. wire \o Reply(id) \in Seq(Parts)
    BY <1>5, <1>8, ConcatFacts
  <2>2. reader.buf \o (wire \o Reply(id)) = (reader.buf \o wire) \o Reply(id)
    <3>1. PICK b \in Seq(Parts) : b = reader.buf
      BY <1>5
    <3>2. PICK w \in Seq(Parts) : w = wire
      BY <1>5
    <3>3. b \o (w \o Reply(id)) = (b \o w) \o Reply(id)
      BY <1>8, ConcatTwice
    <3> QED
      BY <3>1, <3>2, <3>3
  <2> QED
    BY <1>3, <1>7, <2>1, <2>2
<1>10. inbox' \in Seq(CommandParts)
  BY <1>3, <1>5, <1>6, DropFacts
<1>11. IoTyped'
  BY <1>1, <1>4, <1>9, <1>10 DEF IoTyped
<1>12. AnsweredInRow' /\ Answered' = Answered
  BY <1>1, <1>4, SameAnswers
<1>13. Streams'
  <2> SUFFICES ASSUME pc # "freed", ~ reader.err
               PROVE  \E served \in Answered .. issued :
                         /\ Replies(reader.buf \o wire', Answered, served)
                         /\ Commands(inbox' \o obuf, served, issued)
    BY <1>1, <1>12 DEF Streams
  <2>1. PICK served \in Answered .. issued :
           /\ Replies(reader.buf \o wire, Answered, served)
           /\ Commands(inbox \o obuf, served, issued)
    BY <1>1 DEF StreamInv, Streams
  <2>2. /\ Answered \in Nat /\ issued \in Nat /\ served \in Nat
        /\ Answered <= served /\ served <= issued
    BY <1>4, Numbers
  <2>4. Ends(inbox) # {} /\ n = FirstEnd(inbox)
    BY <1>1, <1>2 DEF Received, Ends, FirstEnd
  <2>5. PICK h \in Nat : h = served + 1
    BY <2>2
  <2>6. inbox[n][2] = h /\ served < issued /\ Commands(Drop(inbox, n) \o obuf, h, issued)
    BY <1>5, <2>1, <2>2, <2>4, <2>5, CommandTaken
  <2>7. Replies((reader.buf \o wire) \o Reply(served + 1), Answered, served + 1)
    BY <1>5, <2>1, <2>2, RepliesNext
  <2>8. Replies(reader.buf \o wire', Answered, h) /\ Commands(inbox' \o obuf, h, issued)
    BY <1>3, <1>7, <1>9, <2>5, <2>6, <2>7
  <2>9. h \in Answered .. issued
    BY <2>2, <2>5, <2>6
  <2> QED
    BY <2>8, <2>9
<1>14. PushesCounted'
  <2>1. PushPlaces((reader.buf \o wire) \o Reply(id)) = PushPlaces(reader.buf \o wire)
    BY <1>5, <1>8, PushesAppended
  <2> QED
    BY <1>1, <1>9, <2>1 DEF StreamInv, PushesCounted
<1> QED
  BY <1>11, <1>12, <1>13, <1>14 DEF StreamInv

\* The server pushes a message, or closes with nonsense or without.
LEMMA SentAsideStream ==
    ASSUME StreamInv, ServerPushes \/ ServerCloses
    PROVE  StreamInv'
<1>1. /\ opts' = opts /\ pc' = pc /\ obuf' = obuf /\ reader' = reader /\ inbox' = inbox
      /\ asked' = asked /\ got' = got /\ issued' = issued
      /\ srv' \in {"up", "closed"} /\ srv = "up"
  BY DEF ServerPushes, ServerCloses, connVars
<1>2. IoTyped /\ AnsweredInRow
  BY DEF StreamInv
<1>3. /\ reader.buf \in Seq(Parts) /\ wire \in Seq(Parts) /\ reader.buf \o wire \in Seq(Parts)
      /\ pushes \in [sent : Nat, handled : Nat] /\ pushes.sent \in Nat /\ pushes.handled \in Nat
  BY <1>2, IoFacts
<1>4. PICK R \in Seq(Parts) : R = reader.buf \o wire
  BY <1>3
<1>5. Cardinality(PushPlaces(R)) \in Nat
  BY PushesAppended
<1>6. /\ pushes.handled + Cardinality(PushPlaces(R)) <= pushes.sent
      /\ pushes.sent <= MaxPushes
  BY <1>4 DEF StreamInv, PushesCounted
<1>7. AnsweredInRow' /\ Answered' = Answered
  BY <1>1, <1>2, SameAnswers
<1>8. Answered \in Nat /\ issued \in Nat
  BY <1>2, Numbers
<1>9. ASSUME NEW p \in Parts, p[1] # "reply", p[3] = 2, wire' = wire \o <<p>>
      PROVE  /\ wire' \in Seq(Parts) /\ reader.buf \o wire' = R \o <<p>>
             /\ Streams'
             /\ Cardinality(PushPlaces(R \o <<p>>)) <= Cardinality(PushPlaces(R)) + 1
             /\ p[1] # "push" => PushPlaces(R \o <<p>>) = PushPlaces(R)
             /\ Cardinality(PushPlaces(R \o <<p>>)) \in Nat
  <2>1. PICK t \in Seq(Parts) : t = <<p>> /\ Len(t) = 1 /\ DOMAIN t = {1} /\ t[1] = p
    <3>1. <<p>> \in Seq(Parts) /\ Len(<<p>>) = 1 /\ DOMAIN <<p>> = {1} /\ <<p>>[1] = p
      OBVIOUS
    <3> QED
      BY <3>1
  <2>2. wire \o t \in Seq(Parts) /\ reader.buf \o (wire \o t) = (reader.buf \o wire) \o t
        /\ R \o t \in Seq(Parts)
    <3>1. PICK b \in Seq(Parts) : b = reader.buf
      BY <1>3
    <3>2. PICK w \in Seq(Parts) : w = wire
      BY <1>3
    <3>3. b \o (w \o t) = (b \o w) \o t
      BY ConcatTwice
    <3>4. w \o t \in Seq(Parts) /\ R \o t \in Seq(Parts)
      BY ConcatFacts
    <3> QED
      BY <3>1, <3>2, <3>3, <3>4
  <2>3. ~ IsReply(p)
    BY <1>9 DEF IsReply
  <2>4. \A hi \in Nat : Replies(R, Answered, hi) => Replies(R \o <<p>>, Answered, hi)
    BY <1>8, <1>9, <2>3, RepliesAside
  <2>5. wire' \in Seq(Parts) /\ reader.buf \o wire' = R \o <<p>>
    BY <1>4, <1>9, <2>1, <2>2
  <2>6. Streams'
    <3> SUFFICES ASSUME pc # "freed", ~ reader.err
                 PROVE  \E served \in Answered .. issued :
                           /\ Replies(R \o <<p>>, Answered, served)
                           /\ srv' = "up" => Commands(inbox \o obuf, served, issued)
      BY <1>1, <1>7, <2>5 DEF Streams
    <3>1. PICK served \in Answered .. issued :
             /\ Replies(R, Answered, served)
             /\ Commands(inbox \o obuf, served, issued)
      BY <1>1, <1>4 DEF StreamInv, Streams
    <3>2. served \in Nat
      BY <1>8
    <3> QED
      BY <2>4, <3>1, <3>2
  <2>7. Cardinality(PushPlaces(R \o t)) <= Cardinality(PushPlaces(R)) + 1
    BY <2>1, PushesAppended
  <2>8. p[1] # "push" => PushPlaces(R \o t) = PushPlaces(R)
    <3>1. p[1] # "push" => PushPlaces(t) = {}
      BY <2>1 DEF PushPlaces
    <3> QED
      BY <3>1, PushesAppended
  <2>9. Cardinality(PushPlaces(R \o t)) \in Nat
    BY <2>2, PushesAppended
  <2> QED
    BY <2>1, <2>5, <2>6, <2>7, <2>8, <2>9
<1>10. ASSUME wire' \in Seq(Parts), pushes' \in [sent : Nat, handled : Nat] PROVE IoTyped'
  BY <1>1, <1>2, <1>10 DEF IoTyped
<1>11. CASE ServerPushes
  <2>1. PICK p \in Parts : p = <<"push", 0, 2>>
    <3>1. <<"push", 0, 2>> \in Parts
      BY DEF Parts
    <3> QED
      BY <3>1
  <2>2. p[1] # "reply" /\ p[3] = 2
    BY <2>1
  <2>3. wire' = wire \o <<p>> /\ pushes' = [pushes EXCEPT !.sent = @ + 1]
        /\ pushes.sent < MaxPushes
    BY <1>11, <2>1 DEF ServerPushes, Push
  <2>4. pushes'.sent = pushes.sent + 1 /\ pushes'.handled = pushes.handled
        /\ pushes' \in [sent : Nat, handled : Nat]
    <3>1. PICK k \in Nat : k = pushes.sent + 1
      BY <1>3
    <3>2. pushes' = [pushes EXCEPT !.sent = k]
      BY <2>3, <3>1
    <3>3. pushes'.sent = k /\ pushes'.handled = pushes.handled
      BY <1>3, <3>2
    <3>4. pushes' \in [sent : Nat, handled : Nat]
      BY <1>3, <3>2
    <3> QED
      BY <3>1, <3>3, <3>4
  <2>5. /\ wire' \in Seq(Parts) /\ reader.buf \o wire' = R \o <<p>> /\ Streams'
        /\ Cardinality(PushPlaces(R \o <<p>>)) <= Cardinality(PushPlaces(R)) + 1
        /\ Cardinality(PushPlaces(R \o <<p>>)) \in Nat
    BY <1>9, <2>2, <2>3
  <2>6. PushesCounted'
    <3>1. PICK m \in Nat : m = Cardinality(PushPlaces(R))
      BY <1>5
    <3>2. PICK k \in Nat : k = Cardinality(PushPlaces(R \o <<p>>))
      BY <2>5
    <3>3. pushes.handled + m <= pushes.sent /\ k <= m + 1
      BY <1>6, <2>5, <3>1, <3>2
    <3>4. pushes.handled + k <= pushes.sent + 1
      BY <1>3, <3>3
    <3>5. pushes.sent + 1 <= MaxPushes
      BY <1>3, <2>3, BlockingAssumption
    <3>6. Cardinality(PushPlaces(reader'.buf \o wire')) = k
      BY <1>1, <2>5, <3>2
    <3> QED
      BY <2>4, <3>4, <3>5, <3>6 DEF PushesCounted
  <2> QED
    BY <1>7, <1>10, <2>4, <2>5, <2>6 DEF StreamInv
<1>12. CASE ServerCloses /\ wire' = wire \o Garbage
  <2>1. PICK p \in Parts : p = <<"bad", 0, 2>>
    <3>1. <<"bad", 0, 2>> \in Parts
      BY DEF Parts
    <3> QED
      BY <3>1
  <2>2. p[1] # "reply" /\ p[1] # "push" /\ p[3] = 2
    BY <2>1
  <2>3. wire' = wire \o <<p>> /\ pushes' = pushes
    BY <1>12, <2>1 DEF ServerCloses, Garbage
  <2>4. /\ wire' \in Seq(Parts) /\ reader.buf \o wire' = R \o <<p>> /\ Streams'
        /\ PushPlaces(R \o <<p>>) = PushPlaces(R)
    BY <1>9, <2>2, <2>3
  <2>5. PushesCounted'
    BY <1>1, <1>6, <2>3, <2>4 DEF PushesCounted
  <2> QED
    BY <1>3, <1>7, <1>10, <2>3, <2>4, <2>5 DEF StreamInv
<1>13. CASE ServerCloses /\ wire' = wire
  <2>1. pushes' = pushes
    BY <1>13 DEF ServerCloses
  <2>2. IoTyped'
    BY <1>3, <1>10, <1>13, <2>1
  <2>3. Streams'
    BY <1>1, <1>7, <1>13 DEF StreamInv, Streams
  <2>4. PushesCounted'
    BY <1>1, <1>13, <2>1 DEF StreamInv, PushesCounted
  <2> QED
    BY <1>7, <2>2, <2>3, <2>4 DEF StreamInv
<1> QED
  BY <1>11, <1>12, <1>13 DEF ServerCloses

\* Every step keeps the stream's invariant.
LEMMA StepStream ==
    ASSUME StreamInv, ConnInv, [Next]_vars
    PROVE  StreamInv'
<1>1. CASE ConnectStep /\ UNCHANGED ioVars
  BY <1>1, ConnectAside, SameStream
<1>2. CASE valkeySetTimeout
  <2>1. pc = "idle" /\ UNCHANGED ioVars /\ opts' = [opts EXCEPT !.timed = TRUE]
    BY <1>2 DEF valkeySetTimeout
  <2>2. opts \in OptionType
    BY DEF ConnInv, ConnTyped
  <2>3. opts'.push = opts.push
    BY <2>1, <2>2 DEF OptionType
  <2> QED
    BY <2>1, <2>3, SameStream
<1>3. CASE SocketOptionFails
  <2>1. UNCHANGED ioVars /\ opts' = opts /\ pc' = pc
    BY <1>3 DEF SocketOptionFails
  <2> QED
    BY <2>1, SameStream
<1>4. CASE UNCHANGED vars
  <2>1. UNCHANGED ioVars /\ opts' = opts /\ pc' = pc
    BY <1>4 DEF vars, connVars
  <2> QED
    BY <2>1, SameStream
<1> QED
  BY <1>1, <1>2, <1>3, <1>4, AppendStream, GetReplyStream, ReconnectStream, FreeStream,
     WriteStream, ReadStream, ExecuteStream, SentAsideStream
  DEF Next, Program

-----------------------------------------------------------------------------
(* The theorems. *)

\* Where the program starts.
LEMMA InitIInv ==
    ASSUME Init
    PROVE  IInv
<1>1. /\ opts \in OptionSets /\ c = NULL /\ pc = "start" /\ conn = NoConn /\ sockets = <<>>
      /\ obuf = <<>> /\ reader = [buf |-> <<>>, err |-> FALSE]
      /\ inbox = <<>> /\ wire = <<>> /\ srv = "up" /\ asked = <<>> /\ got = <<>> /\ issued = 0
      /\ pushes = [sent |-> 0, handled |-> 0]
  BY DEF Init, ConnInit
<1>2. ConnInv
  <2>1. NoConn \in ConnType /\ NoConn.elapsed = 0
    BY NoConnFacts
  <2>2. ConnTyped
    BY <1>1, <2>1, ConnectionAssumption DEF ConnTyped, OptionType, PCs
  <2>3. CallPlaced
    BY <1>1, <2>1 DEF CallPlaced, Fresh, Connecting
  <2>4. CallReported /\ TimeKept /\ NoSocketLeak /\ BlocksOnLiveSocket
    BY <1>1 DEF CallReported, TimeKept, NoSocketLeak, BlocksOnLiveSocket, Usable
  <2> QED
    BY <2>2, <2>3, <2>4 DEF ConnInv
<1>3. StreamInv
  <2>1. reader.buf = <<>> /\ reader \in [buf : Seq(Parts), err : BOOLEAN]
    BY <1>1
  <2>2. pushes \in [sent : Nat, handled : Nat] /\ pushes.sent = 0 /\ pushes.handled = 0
    BY <1>1
  <2>3. issued \in 0..MaxCmds /\ 0 <= MaxPushes
    BY <1>1, BlockingAssumption
  <2> QED
    BY <1>1, <2>1, <2>2, <2>3, FreshStream
<1> QED
  BY <1>2, <1>3 DEF IInv

\* The inductive invariant holds in every state: where the connect call is and
\* what it left, which socket is open and in which mode, and that every command
\* of the connection is answered, on its way back or on its way to the server.
THEOREM BlockingInvariant == Spec => []IInv
<1>1. Init => IInv
  BY InitIInv
<1>2. IInv /\ [Next]_vars => IInv'
  BY StepConn, StepStream DEF IInv, StreamInv
<1> QED
  BY <1>1, <1>2, PTL DEF Spec

\* The n-th reply that valkeyGetReply returns on a connection answers the n-th
\* command appended to it, whatever was written or read in part, timed out,
\* failed or was dropped by valkeyReconnect; push messages never take its place.
THEOREM RepliesStayInStep == Spec => []RepliesInStep
<1>1. IInv => RepliesInStep
  <2> SUFFICES ASSUME IInv PROVE RepliesInStep
    OBVIOUS
  <2>1. IoTyped /\ AnsweredInRow /\ PushesCounted /\ ConnTyped
    BY DEF IInv, ConnInv, StreamInv
  <2>2. pushes.sent \in Nat /\ pushes.handled \in Nat /\ reader.buf \o wire \in Seq(Parts)
    BY <2>1, IoFacts
  <2>3. Cardinality(PushPlaces(reader.buf \o wire)) \in Nat
    BY <2>2, PushesAppended
  <2>4. pushes.handled <= pushes.sent /\ pushes.sent <= MaxPushes
    BY <2>1, <2>2, <2>3 DEF PushesCounted
  <2>5. pc \in PCs /\ issued \in 0..MaxCmds
    BY <2>1 DEF ConnTyped, IoTyped
  <2>6. pc # "start" => c.err \in Errors /\ c.fd \in DOMAIN sockets \cup {NULL}
    BY <2>1 DEF ConnTyped, ContextTypeOf
  <2>7. TypeOK
    BY <2>4, <2>5, <2>6 DEF TypeOK, PCs, Errors
  <2> QED
    BY <2>1, <2>7 DEF RepliesInStep, AnsweredInRow
<1> QED
  BY <1>1, BlockingInvariant, PTL

\* The socket in c->fd is the only open one, it has the mode and the timeout its
\* reads and writes rely on, and a call only blocks on it while it is open.
THEOREM SocketStaysSound == Spec => []SocketSound
<1>1. IInv => SocketSound
  <2> SUFFICES ASSUME IInv PROVE SocketSound
    OBVIOUS
  <2>1. NoSocketLeak /\ BlocksOnLiveSocket /\ CallReported
    BY DEF IInv, ConnInv
  <2>2. SocketModeMatches
    BY <2>1 DEF SocketModeMatches, CallReported, Usable
  <2>3. TimeoutSurvivesReconnect
    BY <2>1 DEF TimeoutSurvivesReconnect, CallReported, Usable
  <2> QED
    BY <2>1, <2>2, <2>3 DEF SocketSound
<1> QED
  BY <1>1, BlockingInvariant, PTL

\* A connect call takes at most one timeout per query and two per address, less
\* one, and reports how it went.
THEOREM ConnectAlwaysReports == Spec => []ConnectReports
<1>1. IInv => ConnectReports
  <2> SUFFICES ASSUME IInv PROVE ConnectReports
    OBVIOUS
  <2>1. ConnTyped /\ CallPlaced /\ CallReported /\ TimeKept
    BY DEF IInv, ConnInv
  <2>2. conn \in ConnType
    BY <2>1 DEF ConnTyped
  <2>3. OutcomeReported
    BY <2>1 DEF OutcomeReported, CallReported, Usable
  <2>4. ConnectTimeBounded
    <3>1. PICK T \in Nat : T = ConnectTimeout /\ T > 0
      BY ConnectionAssumption
    <3>2. PICK B \in Int : B = Before(Addresses + 1)
      BY BeforeFacts, ConnectionAssumption
    <3>3. B = Addresses * PerAddress + 2 * T /\ B >= 2 * T /\ PerAddress = 2 * T - 1
      BY <3>1, <3>2, BeforeFacts, ConnectionAssumption DEF PerAddress
    <3>4. /\ conn.elapsed \in Nat /\ conn.waited \in Nat /\ conn.family \in 0..1
          /\ conn.addr \in 0..(Addresses + 1) /\ pc \in PCs /\ Addresses \in Nat
      BY <2>1, <2>2, ConnectionAssumption DEF ConnType, ConnTyped
    <3>5. CASE pc \notin {"tcp"} \cup Connecting
      <4>1. conn.elapsed = 0
        BY <2>1, <3>5 DEF CallPlaced
      <4> QED
        BY <3>1, <3>3, <4>1 DEF ConnectTimeBounded, PerAddress
    <3>6. conn.elapsed <= B => ConnectTimeBounded
      BY <3>1, <3>3 DEF ConnectTimeBounded, PerAddress
    <3>7. CASE pc = "tcp" /\ conn.addr = 0
      <4>1. conn.elapsed <= conn.family * T
        BY <2>1, <3>1, <3>7 DEF TimeKept
      <4>2. conn.family = 0 \/ conn.family = 1
        BY <3>4
      <4>3. conn.elapsed <= T
        BY <3>1, <3>4, <4>1, <4>2
      <4> QED
        BY <3>1, <3>3, <3>4, <3>6, <4>3
    <3>8. CASE pc \in {"tcp", "bind", "call"} /\ conn.addr # 0
      <4>1. conn.elapsed <= Before(conn.addr)
        BY <2>1, <3>4, <3>8 DEF TimeKept
      <4>2. Before(conn.addr) <= B /\ Before(conn.addr) \in Int
        BY <3>2, <3>4, BeforeFacts
      <4> QED
        BY <3>4, <3>6, <4>1, <4>2
    <3>9. CASE pc \in {"bind", "call"} /\ conn.addr = 0
      BY <2>1, <3>9 DEF CallPlaced, Connecting
    <3>10. CASE pc = "wait" /\ opts.type = "tcp"
      <4>1. conn.elapsed <= Before(conn.addr) + conn.waited /\ conn.waited < T
        BY <2>1, <3>1, <3>10 DEF TimeKept
      <4>2. PICK a \in 1..Addresses : a = conn.addr
        BY <2>1, <3>10 DEF CallPlaced, Connecting
      <4>3. PICK m \in Int : m = Before(a)
        BY <3>4, BeforeFacts
      <4>4. Before(a + 1) = m + PerAddress
        BY <3>4, <4>3, BeforeFacts
      <4>5. Before(a + 1) <= B
        <5>1. a + 1 \in 0..(Addresses + 1)
          BY <3>4
        <5> QED
          BY <3>2, <5>1, BeforeFacts
      <4>6. conn.elapsed <= m + conn.waited /\ m + PerAddress <= B
        BY <4>1, <4>2, <4>3, <4>4, <4>5
      <4> QED
        BY <3>1, <3>3, <3>4, <3>6, <4>1, <4>6
    <3>11. CASE pc = "wait" /\ opts.type # "tcp"
      <4>1. conn.elapsed <= conn.waited /\ conn.waited < T
        BY <2>1, <3>1, <3>11 DEF TimeKept
      <4> QED
        BY <3>1, <3>3, <3>4, <3>6, <4>1
    <3>12. CASE pc = "finish"
      BY <2>1, <3>2, <3>6, <3>12 DEF TimeKept
    <3> QED
      BY <3>5, <3>7, <3>8, <3>9, <3>10, <3>11, <3>12 DEF Connecting
  <2> QED
    BY <2>3, <2>4 DEF ConnectReports
<1> QED
  BY <1>1, BlockingInvariant, PTL
=============================================================================
