----------------------------- MODULE RdmaProof -----------------------------
(***************************************************************************)
(* Theorems about Rdma, for buffers of every length and every number of     *)
(* command slots: both streams arrive intact, no write leaves the server's  *)
(* buffer, there is always a command slot to register the buffer with, and  *)
(* whoever polls the descriptor is woken for every byte there is to read.   *)
(*                                                                         *)
(* The right to fill a buffer is a token.  For the buffer of the client it  *)
(* is with the client (RxIdle), on its way to the server (RxAsked) or with  *)
(* the server (RxOpen); for the server's buffer it is with the server       *)
(* (TxWithheld), on its way to the client (TxGranted) or with the client    *)
(* (TxOpen).  While a token is with the writer, what was written and not    *)
(* yet read is contiguous, from the reader's offset to the writer's.        *)
(*                                                                         *)
(* An edge of a descriptor is reported once.  It waits in the ready list, in *)
(* the batch of the call that took it, or with the call that handles it,    *)
(* and until then something is left to be found by it (WInv).               *)
(***************************************************************************)
EXTENDS Rdma, SequenceTheorems, TLAPS
-----------------------------------------------------------------------------
(* Types *)

CmEvents == {"addr_resolved", "route_resolved", "established", "rejected", "disconnected",
             "removed"}
Before == {"none", "addr", "asked", "route", "conn"}

WcType == [kind : {"reg", "imm", "send"}, n : Nat]
ToClientType == [kind : {"reg", "imm"}, n : Nat, off : Nat, bytes : Seq(Nat)]
RegMsg == [kind |-> "reg"]
ToServerType == {RegMsg} \cup [kind : {"imm"}, off : Nat, bytes : Seq(Nat)]

RxType == [rxo : Nat, reco : Nat, buf : [1..RxLen -> Nat]]
TxType == [len : Nat, off : Nat, total : Nat, todo : Nat]
HwType == [cq : Seq(WcType), armed : BOOLEAN, chan : Nat, ready : Seq({"cm", "comp", "ev"}),
           cmq : Seq(CmEvents), fabric : Before \cup {"up", "down"}]
NetType == [toClient : Seq(ToClientType), toServer : Seq(ToServerType)]
SrvType == [up : BOOLEAN, mustRegister : BOOLEAN, win : Nat, off : Nat, sent : Nat,
            got : Seq(Nat), end : Nat]
FlagsType == [connected : BOOLEAN, failed : BOOLEAN]

\* The types of what the streams and the connection consist of.
Typed ==
    /\ rx \in RxType
    /\ tx \in TxType
    /\ slots \in Nat
    /\ fed \in Seq(Nat)
    /\ hw \in HwType
    /\ net \in NetType
    /\ srv \in SrvType
    /\ flags \in FlagsType
    /\ op \in {"none", "connect", "read", "write", "closed", "crashed"}
    /\ wait \in {"none", "epoll", "batch", "poll", "cm"}
    /\ err \in {"none", "other", "io", "eof"}
-----------------------------------------------------------------------------
(* Messages *)

Lacks(q, kind) == \A i \in 1..Len(q) : q[i].kind # kind
HasOne(q, kind) ==
    \E k \in 1..Len(q) : q[k].kind = kind /\ \A i \in 1..Len(q) : i # k => q[i].kind # kind

\* How far a completion or a message moves the offset.
Adds(m) == IF m.kind = "imm" THEN m.n ELSE 0

Rising(f, n) == \A i, j \in 1..n : i <= j => f[i] <= f[j]

\* f[i] is where the i-th completion or message to the client begins in the buffer,
\* the completions c first and then the messages t; they lead from lo to hi.
Flow(f, c, t, lo, hi) ==
    /\ f[1] = lo /\ f[Len(c) + Len(t) + 1] = hi
    /\ Rising(f, Len(c) + Len(t) + 1)
    /\ \A i \in 1..Len(c) : f[i + 1] = f[i] + Adds(c[i])
    /\ \A j \in 1..Len(t) : f[Len(c) + j + 1] = f[Len(c) + j] + Adds(t[j])

\* The bytes behind position base of the stream are where f says: in the buffer for
\* a completion, in the message otherwise.
Placed(f, c, t, buf, base) ==
    /\ \A i \in 1..f[Len(c) + 1] : buf[i] = base + i
    /\ \A j \in 1..Len(t) : t[j].kind = "imm" =>
         /\ t[j].off = f[Len(c) + j]
         /\ t[j].n > 0 /\ Len(t[j].bytes) = t[j].n
         /\ \A i \in 1..t[j].n : t[j].bytes[i] = base + t[j].off + i

\* A command slot is taken by a registration that was sent and not completed; it is
\* completed before anything that it brings.
Taken(f, c, spare) ==
    \/ spare = Slots /\ Lacks(c, "send")
    \/ /\ spare = Slots - 1 /\ HasOne(c, "send")
       /\ \A i \in 1..Len(c) : c[i].kind = "send" => f[i] = 0

\* What is between the server's offset hi and the client's offset lo.
InFlight(c, t, buf, base, lo, hi, spare) ==
    /\ \A i \in 1..Len(c) : c[i].kind = "imm" => c[i].n > 0
    /\ \E f \in [1..(Len(c) + Len(t) + 1) -> Nat] :
         Flow(f, c, t, lo, hi) /\ Placed(f, c, t, buf, base) /\ Taken(f, c, spare)

\* The same for the messages to the server.
TxFlow(g, q, lo, hi, base) ==
    /\ g[1] = lo /\ g[Len(q) + 1] = hi
    /\ Rising(g, Len(q) + 1)
    /\ \A i \in 1..Len(q) : q[i].kind = "reg" => g[i + 1] = g[i]
    /\ \A i \in 1..Len(q) : q[i].kind = "imm" =>
         /\ q[i].off = g[i] /\ Len(q[i].bytes) > 0
         /\ g[i + 1] = g[i] + Len(q[i].bytes)
         /\ \A k \in 1..Len(q[i].bytes) : q[i].bytes[k] = base + q[i].off + k

OnTheWay(q, lo, hi, base) == \E g \in [1..(Len(q) + 1) -> Nat] : TxFlow(g, q, lo, hi, base)
-----------------------------------------------------------------------------
(* The client's buffer *)

NothingToRead ==
    /\ rx.rxo = 0 /\ rx.reco = 0
    /\ srv.sent = Len(fed) /\ srv.off = srv.win
    /\ Lacks(hw.cq, "imm") /\ Lacks(net.toClient, "imm") /\ Lacks(hw.cq, "send")

RxIdle ==
    /\ NothingToRead
    /\ fed = <<>> /\ srv.win = 0 /\ slots = Slots
    /\ Lacks(net.toServer, "reg")

RxAsked ==
    /\ NothingToRead
    /\ slots = Slots - 1
    /\ HasOne(net.toServer, "reg")

RxOpen ==
    /\ Lacks(net.toServer, "reg")
    /\ srv.win = RxLen /\ srv.off <= RxLen
    /\ rx.reco <= rx.rxo
    /\ rx.reco <= Len(fed)
    /\ srv.sent = Len(fed) - rx.reco + srv.off
    /\ InFlight(hw.cq, net.toClient, rx.buf, Len(fed) - rx.reco, rx.rxo, srv.off, slots)

RxInv ==
    /\ \A i \in 1..Len(fed) : fed[i] = i
    /\ RxIdle \/ RxAsked \/ RxOpen
-----------------------------------------------------------------------------
(* The server's buffer *)

AllArrived ==
    /\ tx.off = tx.len /\ tx.len \in {0, TxLen}
    /\ Len(srv.got) = tx.total
    /\ Lacks(net.toServer, "imm")

\* The server has its buffer, or the connection is not up yet.
TxWithheld ==
    /\ AllArrived
    /\ Lacks(hw.cq, "reg") /\ Lacks(net.toClient, "reg")
    /\ ~ srv.mustRegister => tx.len = 0

TxGranted ==
    /\ AllArrived
    /\ ~ srv.mustRegister
    /\ \/ HasOne(hw.cq, "reg") /\ Lacks(net.toClient, "reg")
       \/ Lacks(hw.cq, "reg") /\ HasOne(net.toClient, "reg")

TxOpen ==
    /\ ~ srv.mustRegister
    /\ Lacks(hw.cq, "reg") /\ Lacks(net.toClient, "reg")
    /\ tx.len = TxLen /\ tx.off <= TxLen /\ tx.off <= tx.total
    /\ \E lo \in 0..(TxLen - 1) :
         /\ Len(srv.got) = tx.total - tx.off + lo
         /\ OnTheWay(net.toServer, lo, tx.off, tx.total - tx.off)

TxInv ==
    /\ \A i \in 1..Len(srv.got) : srv.got[i] = i
    /\ \A i \in 1..Len(hw.cq) : hw.cq[i].kind = "reg" => hw.cq[i].n = TxLen
    /\ \A i \in 1..Len(net.toClient) : net.toClient[i].kind = "reg" =>
          net.toClient[i].n = TxLen /\ net.toClient[i].bytes = <<>>
    /\ TxWithheld \/ TxGranted \/ TxOpen
-----------------------------------------------------------------------------
(* The connection *)

\* A notification is outstanding, or its event is in the channel, never both.
NotifiedOnce == hw.chan \in 0..1 /\ (hw.armed => hw.chan = 0)

\* What the connection manager has reported and was not looked at yet.
Reported ==
    CASE hw.fabric \in {"none", "addr", "route", "conn"} -> hw.cmq = <<>>
      [] hw.fabric = "asked" ->
            hw.cmq \in {<<>>, <<"addr_resolved">>, <<"route_resolved">>, <<"rejected">>}
      [] hw.fabric = "up" -> hw.cmq \in {<<>>, <<"established">>}
      [] hw.fabric = "down" ->
            hw.cmq \in {<<>>, <<"rejected">>, <<"removed">>, <<"disconnected">>,
                        <<"established", "disconnected">>}

\* Before a connection is up no message is under way, and nothing but the CM
\* channel has become ready.
NothingBefore ==
    /\ hw.fabric \in Before =>
         /\ net.toClient = <<>> /\ net.toServer = <<>> /\ hw.cq = <<>>
         /\ RxIdle /\ TxWithheld /\ ~ srv.mustRegister /\ ~ srv.up
         /\ hw.chan = 0 /\ ~ flags.connected
         /\ hw.ready \in {<<>>, <<"cm">>}
    /\ hw.cmq # <<>> /\ Head(hw.cmq) = "established" => RxIdle
    /\ hw.fabric = "down" => ~ srv.up

\* Which calls can be under way, and what they know of the connection.
CallFits ==
    /\ op \in {"none", "closed", "crashed"} => wait = "none"
    /\ op = "crashed" => flags.failed
    /\ op = "connect" => wait \in {"none", "epoll", "cm"}
    /\ op = "connect" /\ wait = "none" => hw.fabric = "none"
    /\ op = "connect" /\ flags.connected =>
         wait = "cm" /\ ~ flags.failed /\ hw.cmq \in {<<>>, <<"disconnected">>}
    /\ op = "connect" /\ hw.fabric = "up" =>
         \/ /\ hw.cmq = <<"established">>
            /\ wait = "cm" \/ (hw.ready # <<>> /\ Head(hw.ready) = "cm")
         \/ hw.cmq = <<>> /\ flags.connected
    /\ op = "write" => tx.todo > 0
    /\ op \in {"read", "write"} \/ (op \in {"none", "closed"} /\ ~ flags.failed) =>
         /\ hw.fabric \in {"up", "down"} /\ hw.cmq \in {<<>>, <<"disconnected">>}
         /\ ~ flags.failed

\* The inductive invariant.
IInv ==
    /\ Typed
    /\ RxInv
    /\ TxInv
    /\ NotifiedOnce
    /\ Reported
    /\ NothingBefore
    /\ CallFits
-----------------------------------------------------------------------------
(* Lemmas on messages *)

\* One message more at the end of a queue.
LEMMA LacksAppend ==
    ASSUME NEW S, NEW q \in Seq(S), NEW e \in S, NEW k
    PROVE  Lacks(Append(q, e), k) <=> Lacks(q, k) /\ e.kind # k
<1> DEFINE p == Append(q, e)
<1>1. /\ Len(p) = Len(q) + 1 /\ p[Len(q) + 1] = e /\ Len(q) \in Nat
      /\ \A i \in 1..Len(q) : p[i] = q[i]
  OBVIOUS
<1> HIDE DEF p
<1>2. ASSUME Lacks(p, k) PROVE Lacks(q, k) /\ e.kind # k
  BY <1>1, <1>2 DEF Lacks
<1>3. ASSUME Lacks(q, k), e.kind # k PROVE Lacks(p, k)
  BY <1>1, <1>3 DEF Lacks
<1> QED
  BY <1>2, <1>3 DEF p

\* One message less at its front.
LEMMA LacksTail ==
    ASSUME NEW S, NEW q \in Seq(S), q # <<>>, NEW k
    PROVE  Lacks(q, k) <=> Lacks(Tail(q), k) /\ Head(q).kind # k
<1> DEFINE p == Tail(q)
<1>1. /\ Len(p) = Len(q) - 1 /\ Head(q) = q[1] /\ Len(q) \in Nat \ {0}
      /\ \A i \in 1..Len(p) : p[i] = q[i + 1]
  OBVIOUS
<1> HIDE DEF p
<1>2. ASSUME Lacks(q, k) PROVE Lacks(p, k) /\ Head(q).kind # k
  BY <1>1, <1>2 DEF Lacks
<1>3. ASSUME Lacks(p, k), Head(q).kind # k PROVE Lacks(q, k)
  <2>1. SUFFICES ASSUME NEW i \in 1..Len(q) PROVE q[i].kind # k
    BY DEF Lacks
  <2>2. CASE i = 1
    BY <1>1, <1>3, <2>2
  <2>3. CASE i # 1
    <3>1. i - 1 \in 1..Len(p) /\ p[i - 1] = q[i]
      BY <1>1, <2>3
    <3> QED
      BY <1>3, <3>1 DEF Lacks
  <2> QED
    BY <2>2, <2>3
<1> QED
  BY <1>2, <1>3 DEF p

\* A message of another kind does not count.
LEMMA HasOneAppend ==
    ASSUME NEW S, NEW q \in Seq(S), NEW e \in S, NEW k, e.kind # k
    PROVE  HasOne(Append(q, e), k) <=> HasOne(q, k)
<1> DEFINE p == Append(q, e)
<1>1. /\ Len(p) = Len(q) + 1 /\ p[Len(q) + 1] = e /\ Len(q) \in Nat
      /\ \A i \in 1..Len(q) : p[i] = q[i]
  OBVIOUS
<1> HIDE DEF p
<1>2. ASSUME HasOne(p, k) PROVE HasOne(q, k)
  <2>1. PICK m \in 1..Len(p) : p[m].kind = k /\ \A i \in 1..Len(p) : i # m => p[i].kind # k
    BY <1>2 DEF HasOne
  <2>2. m \in 1..Len(q)
    BY <1>1, <2>1
  <2> QED
    BY <1>1, <2>1, <2>2 DEF HasOne
<1>3. ASSUME HasOne(q, k) PROVE HasOne(p, k)
  <2>1. PICK m \in 1..Len(q) : q[m].kind = k /\ \A i \in 1..Len(q) : i # m => q[i].kind # k
    BY <1>3 DEF HasOne
  <2>2. m \in 1..Len(p) /\ p[m].kind = k
    BY <1>1, <2>1
  <2>3. ASSUME NEW i \in 1..Len(p), i # m PROVE p[i].kind # k
    BY <1>1, <2>1, <2>3
  <2> QED
    BY <2>2, <2>3 DEF HasOne
<1> QED
  BY <1>2, <1>3 DEF p

\* The first of its kind is the only one.
LEMMA HasOneAdded ==
    ASSUME NEW S, NEW q \in Seq(S), NEW e \in S, NEW k, e.kind = k, Lacks(q, k)
    PROVE  HasOne(Append(q, e), k)
<1> DEFINE p == Append(q, e)
<1>1. /\ Len(p) = Len(q) + 1 /\ p[Len(q) + 1] = e /\ Len(q) \in Nat
      /\ \A i \in 1..Len(q) : p[i] = q[i]
  OBVIOUS
<1> HIDE DEF p
<1>2. Len(q) + 1 \in 1..Len(p)
  BY <1>1
<1>3. ASSUME NEW i \in 1..Len(p), i # Len(q) + 1 PROVE p[i].kind # k
  BY <1>1, <1>3 DEF Lacks
<1>4. HasOne(p, k)
  BY <1>1, <1>2, <1>3 DEF HasOne
<1> QED
  BY <1>4 DEF p

\* The only one of its kind leaves the queue, or another message does.
LEMMA HasOneTail ==
    ASSUME NEW S, NEW q \in Seq(S), q # <<>>, NEW k
    PROVE  /\ HasOne(q, k) /\ Head(q).kind = k => Lacks(Tail(q), k)
           /\ Head(q).kind # k => (HasOne(q, k) <=> HasOne(Tail(q), k))
<1> DEFINE p == Tail(q)
<1>1. /\ Len(p) = Len(q) - 1 /\ Head(q) = q[1] /\ Len(q) \in Nat \ {0}
      /\ \A i \in 1..Len(p) : p[i] = q[i + 1]
  OBVIOUS
<1> HIDE DEF p
<1>2. ASSUME HasOne(q, k), Head(q).kind = k PROVE Lacks(p, k)
  <2>1. PICK m \in 1..Len(q) : q[m].kind = k /\ \A i \in 1..Len(q) : i # m => q[i].kind # k
    BY <1>2 DEF HasOne
  <2>2. m = 1
    BY <1>1, <1>2, <2>1
  <2>3. ASSUME NEW i \in 1..Len(p) PROVE p[i].kind # k
    BY <1>1, <2>1, <2>2
  <2> QED
    BY <2>3 DEF Lacks
<1>3. ASSUME HasOne(q, k), Head(q).kind # k PROVE HasOne(p, k)
  <2>1. PICK m \in 1..Len(q) : q[m].kind = k /\ \A i \in 1..Len(q) : i # m => q[i].kind # k
    BY <1>3 DEF HasOne
  <2>2. m - 1 \in 1..Len(p) /\ p[m - 1].kind = k
    BY <1>1, <1>3, <2>1
  <2>3. ASSUME NEW i \in 1..Len(p), i # m - 1 PROVE p[i].kind # k
    BY <1>1, <2>1, <2>3
  <2> QED
    BY <2>2, <2>3 DEF HasOne
<1>4. ASSUME HasOne(p, k), Head(q).kind # k PROVE HasOne(q, k)
  <2>1. PICK m \in 1..Len(p) : p[m].kind = k /\ \A i \in 1..Len(p) : i # m => p[i].kind # k
    BY <1>4 DEF HasOne
  <2>2. m + 1 \in 1..Len(q) /\ q[m + 1].kind = k
    BY <1>1, <2>1
  <2>3. ASSUME NEW i \in 1..Len(q), i # m + 1 PROVE q[i].kind # k
    <3>1. CASE i = 1
      BY <1>1, <1>4, <3>1
    <3>2. CASE i # 1
      <4>1. i - 1 \in 1..Len(p) /\ i - 1 # m /\ p[i - 1] = q[i]
        BY <1>1, <2>3, <3>2
      <4> QED
        BY <2>1, <4>1
    <3> QED
      BY <3>1, <3>2
  <2> QED
    BY <2>2, <2>3 DEF HasOne
<1> QED
  BY <1>2, <1>3, <1>4 DEF p

-----------------------------------------------------------------------------
(* Lemmas on the stream to the client *)

\* The bytes up to the client's offset are in the buffer.
LEMMA FlightFacts ==
    ASSUME NEW c \in Seq(WcType), NEW t \in Seq(ToClientType), NEW buf, NEW base,
           NEW lo, NEW hi, NEW spare, InFlight(c, t, buf, base, lo, hi, spare)
    PROVE  /\ lo \in Nat /\ hi \in Nat /\ lo <= hi
           /\ \A i \in 1..lo : buf[i] = base + i
           /\ spare \in {Slots - 1, Slots}
<1>1. PICK f \in [1..(Len(c) + Len(t) + 1) -> Nat] :
        Flow(f, c, t, lo, hi) /\ Placed(f, c, t, buf, base) /\ Taken(f, c, spare)
  BY DEF InFlight
<1>2. Len(c) \in Nat /\ Len(t) \in Nat
  OBVIOUS
<1>3. /\ 1 \in 1..(Len(c) + Len(t) + 1) /\ Len(c) + 1 \in 1..(Len(c) + Len(t) + 1)
      /\ Len(c) + Len(t) + 1 \in 1..(Len(c) + Len(t) + 1)
  BY <1>2
<1>4. f[1] \in Nat /\ f[Len(c) + 1] \in Nat /\ f[Len(c) + Len(t) + 1] \in Nat
  BY <1>3
<1>5. f[1] <= f[Len(c) + 1] /\ f[1] <= f[Len(c) + Len(t) + 1]
  BY <1>1, <1>2, <1>3 DEF Flow, Rising
<1>6. \A i \in 1..lo : buf[i] = base + i
  BY <1>1, <1>4, <1>5 DEF Flow, Placed
<1>7. spare \in {Slots - 1, Slots}
  BY <1>1 DEF Taken
<1> QED
  BY <1>1, <1>4, <1>5, <1>6, <1>7 DEF Flow

\* PollCq takes the first completion.
LEMMA FlightPolled ==
    ASSUME NEW c \in Seq(WcType), c # <<>>, NEW t \in Seq(ToClientType), NEW buf, NEW base,
           NEW lo, NEW hi, NEW spare, InFlight(c, t, buf, base, lo, hi, spare),
           NEW to, to = lo + Adds(Head(c)),
           NEW left, left = IF Head(c).kind = "send" THEN spare + 1 ELSE spare
    PROVE  InFlight(Tail(c), t, buf, base, to, hi, left)
<1> DEFINE d == Tail(c)
           n == Len(d) + Len(t) + 1
<1>1. PICK f \in [1..(Len(c) + Len(t) + 1) -> Nat] :
        Flow(f, c, t, lo, hi) /\ Placed(f, c, t, buf, base) /\ Taken(f, c, spare)
  BY DEF InFlight
<1>2. /\ Len(d) \in Nat /\ Len(c) = Len(d) + 1 /\ Len(t) \in Nat
      /\ Head(c) = c[1] /\ d \in Seq(WcType)
      /\ \A i \in 1..Len(d) : d[i] = c[i + 1]
  OBVIOUS
<1> DEFINE g == [i \in 1..n |-> f[i + 1]]
<1>3. n \in Nat /\ n + 1 = Len(c) + Len(t) + 1
  BY <1>2
<1>4. /\ g \in [1..n -> Nat]
      /\ \A i \in 1..n : g[i] = f[i + 1] /\ i + 1 \in 1..(Len(c) + Len(t) + 1)
  BY <1>3
<1> HIDE DEF g
<1>5. Flow(g, d, t, to, hi)
  <2>1. g[1] = to /\ g[n] = hi
    BY <1>1, <1>2, <1>3, <1>4 DEF Flow
  <2>2. Rising(g, n)
    <3>1. SUFFICES ASSUME NEW i \in 1..n, NEW j \in 1..n, i <= j PROVE g[i] <= g[j]
      BY DEF Rising
    <3>2. /\ i + 1 \in 1..(Len(c) + Len(t) + 1) /\ j + 1 \in 1..(Len(c) + Len(t) + 1)
          /\ i + 1 <= j + 1
      BY <1>3, <3>1
    <3> QED
      BY <1>1, <1>4, <3>1, <3>2 DEF Flow, Rising
  <2>3. \A i \in 1..Len(d) : g[i + 1] = g[i] + Adds(d[i])
    BY <1>1, <1>2, <1>3, <1>4 DEF Flow
  <2>4. ASSUME NEW j \in 1..Len(t) PROVE g[Len(d) + j + 1] = g[Len(d) + j] + Adds(t[j])
    <3>1. /\ Len(d) + j \in 1..n /\ Len(d) + j + 1 \in 1..n
          /\ Len(d) + j + 1 = Len(c) + j /\ Len(d) + j + 1 + 1 = Len(c) + j + 1
      BY <1>2
    <3>2. g[Len(d) + j] = f[Len(c) + j] /\ g[Len(d) + j + 1] = f[Len(c) + j + 1]
      BY <1>4, <3>1
    <3> QED
      BY <1>1, <3>2 DEF Flow
  <2> QED
    BY <2>1, <2>2, <2>3, <2>4 DEF Flow
<1>6. Placed(g, d, t, buf, base)
  <2>1. Len(d) + 1 \in 1..n /\ g[Len(d) + 1] = f[Len(c) + 1]
    BY <1>2, <1>4
  <2>2. ASSUME NEW j \in 1..Len(t) PROVE g[Len(d) + j] = f[Len(c) + j]
    BY <1>2, <1>4
  <2> QED
    BY <1>1, <2>1, <2>2 DEF Placed
<1>7. Taken(g, d, left)
  <2>1. CASE spare = Slots /\ Lacks(c, "send")
    BY <1>2, <2>1, LacksTail DEF Taken
  <2>2. CASE /\ spare = Slots - 1 /\ HasOne(c, "send")
             /\ \A i \in 1..Len(c) : c[i].kind = "send" => f[i] = 0
    <3>1. CASE Head(c).kind = "send"
      <4>1. Lacks(d, "send")
        BY <2>2, <3>1, HasOneTail
      <4>2. left = Slots
        BY <2>2, <3>1, RdmaAssumption
      <4> QED
        BY <4>1, <4>2 DEF Taken
    <3>2. CASE Head(c).kind # "send"
      <4>1. HasOne(d, "send") /\ left = spare
        BY <2>2, <3>2, HasOneTail
      <4>2. ASSUME NEW i \in 1..Len(d), d[i].kind = "send" PROVE g[i] = 0
        BY <1>2, <1>4, <2>2, <4>2
      <4> QED
        BY <2>2, <4>1, <4>2 DEF Taken
    <3> QED
      BY <3>1, <3>2
  <2> QED
    BY <1>1, <2>1, <2>2 DEF Taken
<1>8. \A i \in 1..Len(d) : d[i].kind = "imm" => d[i].n > 0
  BY <1>2 DEF InFlight
<1> QED
  BY <1>4, <1>5, <1>6, <1>7, <1>8 DEF InFlight

\* A message arrives: its bytes are written where they belong, then its completion
\* is queued (DeliverToClient).
LEMMA FlightDelivered ==
    ASSUME NEW c \in Seq(WcType), NEW t \in Seq(ToClientType), t # <<>>,
           NEW buf \in [1..RxLen -> Nat], NEW base \in Nat,
           NEW lo, NEW hi, hi <= RxLen, NEW spare, InFlight(c, t, buf, base, lo, hi, spare),
           NEW wc \in WcType, wc.kind = Head(t).kind, wc.n = Head(t).n,
           NEW new, Head(t).kind = "reg" => new = buf,
           Head(t).kind = "imm" =>
              new = [i \in 1..RxLen |->
                        IF i \in (Head(t).off + 1)..(Head(t).off + Len(Head(t).bytes))
                        THEN Head(t).bytes[i - Head(t).off] ELSE buf[i]]
    PROVE  InFlight(Append(c, wc), Tail(t), new, base, lo, hi, spare)
<1> DEFINE d == Append(c, wc)
           u == Tail(t)
           m == Head(t)
           n == Len(c) + Len(t) + 1
<1>1. PICK f \in [1..(Len(c) + Len(t) + 1) -> Nat] :
        Flow(f, c, t, lo, hi) /\ Placed(f, c, t, buf, base) /\ Taken(f, c, spare)
  BY DEF InFlight
<1>2. /\ Len(c) \in Nat /\ Len(d) = Len(c) + 1 /\ d[Len(c) + 1] = wc /\ d \in Seq(WcType)
      /\ \A i \in 1..Len(c) : d[i] = c[i]
  OBVIOUS
<1>3. /\ Len(u) \in Nat /\ Len(t) = Len(u) + 1 /\ m = t[1]
      /\ \A i \in 1..Len(u) : u[i] = t[i + 1]
  OBVIOUS
<1>4. m.kind \in {"reg", "imm"} /\ m.n \in Nat /\ m.off \in Nat
  <2>1. m \in ToClientType
    BY <1>3
  <2> HIDE DEF m
  <2> QED
    BY <2>1 DEF ToClientType
<1> HIDE DEF d, u, m
<1>5. Len(d) + Len(u) + 1 = n /\ n \in Nat
  BY <1>2, <1>3
<1>6. Adds(wc) = Adds(m)
  BY DEF Adds, m
<1>7. Flow(f, d, u, lo, hi)
  <2>1. f[Len(c) + 1 + 1] = f[Len(c) + 1] + Adds(m)
    BY <1>1, <1>3 DEF Flow
  <2>2. ASSUME NEW i \in 1..Len(d) PROVE f[i + 1] = f[i] + Adds(d[i])
    <3>1. CASE i \in 1..Len(c)
      BY <1>1, <1>2, <3>1 DEF Flow
    <3>2. CASE i = Len(c) + 1
      BY <1>2, <1>6, <2>1, <3>2
    <3> QED
      BY <1>2, <3>1, <3>2
  <2>3. ASSUME NEW j \in 1..Len(u) PROVE f[Len(d) + j + 1] = f[Len(d) + j] + Adds(u[j])
    <3>1. j + 1 \in 1..Len(t) /\ u[j] = t[j + 1]
      BY <1>3
    <3>2. f[Len(c) + (j + 1) + 1] = f[Len(c) + (j + 1)] + Adds(t[j + 1])
      BY <1>1, <3>1 DEF Flow
    <3>3. Len(c) + (j + 1) + 1 = Len(d) + j + 1 /\ Len(c) + (j + 1) = Len(d) + j
      BY <1>2, <1>3
    <3> QED
      BY <3>1, <3>2, <3>3
  <2> QED
    BY <1>1, <1>5, <2>2, <2>3 DEF Flow
<1>8. Placed(f, d, u, new, base)
  <2>0. Len(c) + 1 \in 1..n /\ Len(c) + 1 + 1 \in 1..n /\ n \in 1..n
    BY <1>2, <1>3
  <2>1. /\ Len(c) + 1 \in 1..n /\ Len(c) + 1 + 1 \in 1..n /\ n \in 1..n
        /\ f[Len(c) + 1] \in Nat /\ f[Len(c) + 1 + 1] \in Nat
    BY <2>0
  <2>2. f[Len(c) + 1 + 1] = f[Len(c) + 1] + Adds(m) /\ f[Len(c) + 1 + 1] <= RxLen
    <3>1. f[Len(c) + 1 + 1] = f[Len(c) + 1] + Adds(m)
      BY <1>1, <1>3 DEF Flow
    <3>2. f[Len(c) + 1 + 1] <= f[n]
      BY <1>1, <2>1 DEF Flow, Rising
    <3>3. f[n] = hi /\ f[n] \in Nat
      BY <1>1, <2>1 DEF Flow
    <3> QED
      BY <2>1, <3>1, <3>2, <3>3, RdmaAssumption
  <2>3. \A i \in 1..f[Len(c) + 1] : buf[i] = base + i
    BY <1>1 DEF Placed
  <2>4. ASSUME NEW i \in 1..f[Len(d) + 1] PROVE new[i] = base + i
    <3>1. CASE m.kind = "reg"
      <4>1. new = buf
        BY <3>1 DEF m
      <4>2. f[Len(d) + 1] = f[Len(c) + 1]
        BY <1>2, <2>1, <2>2, <3>1 DEF Adds
      <4> QED
        BY <2>3, <2>4, <4>1, <4>2
    <3>2. CASE m.kind = "imm"
      <4>1. /\ m.off = f[Len(c) + 1] /\ Len(m.bytes) = m.n
            /\ \A k \in 1..m.n : m.bytes[k] = base + m.off + k
        BY <1>1, <1>3, <3>2, SMTT(30) DEF Placed
      <4>2. f[Len(d) + 1] = m.off + m.n /\ i \in 1..(m.off + m.n) /\ i \in 1..RxLen
        BY <1>2, <1>4, <2>1, <2>2, <3>2, <4>1, RdmaAssumption DEF Adds
      <4>3. new[i] = IF i \in (m.off + 1)..(m.off + Len(m.bytes))
                     THEN m.bytes[i - m.off] ELSE buf[i]
        BY <3>2, <4>2 DEF m
      <4>4. CASE i \in (m.off + 1)..(m.off + m.n)
        <5>1. i - m.off \in 1..m.n /\ base + m.off + (i - m.off) = base + i
          BY <1>4, <4>4, SMTT(30)
        <5>2. m.bytes[i - m.off] = base + m.off + (i - m.off)
          BY <4>1, <5>1
        <5> QED
          BY <4>1, <4>3, <4>4, <5>1, <5>2
      <4>5. CASE i \notin (m.off + 1)..(m.off + m.n)
        <5>1. i \in 1..f[Len(c) + 1]
          BY <1>4, <4>1, <4>2, <4>5
        <5> QED
          BY <2>3, <4>1, <4>3, <4>5, <5>1
      <4> QED
        BY <4>4, <4>5
    <3> QED
      BY <1>4, <3>1, <3>2
  <2>5. ASSUME NEW j \in 1..Len(u), u[j].kind = "imm"
        PROVE  /\ u[j].off = f[Len(d) + j]
               /\ u[j].n > 0 /\ Len(u[j].bytes) = u[j].n
               /\ \A i \in 1..u[j].n : u[j].bytes[i] = base + u[j].off + i
    <3>1. j + 1 \in 1..Len(t) /\ u[j] = t[j + 1] /\ Len(c) + (j + 1) = Len(d) + j
      BY <1>2, <1>3
    <3> QED
      BY <1>1, <2>5, <3>1 DEF Placed
  <2> QED
    BY <2>4, <2>5 DEF Placed
<1>9. Taken(f, d, spare)
  <2>1. wc.kind # "send"
    BY <1>4 DEF m
  <2>2. Lacks(c, "send") => Lacks(d, "send")
    BY <2>1, LacksAppend DEF d
  <2>3. HasOne(c, "send") => HasOne(d, "send")
    BY <2>1, HasOneAppend DEF d
  <2>4. (\A i \in 1..Len(c) : c[i].kind = "send" => f[i] = 0) =>
        (\A i \in 1..Len(d) : d[i].kind = "send" => f[i] = 0)
    <3>1. \A i \in 1..Len(d) : i \in 1..Len(c) \/ d[i].kind # "send"
      BY <1>2, <2>1
    <3> QED
      BY <1>2, <3>1
  <2> QED
    BY <1>1, <2>2, <2>3, <2>4 DEF Taken
<1>10. ASSUME NEW i \in 1..Len(d), d[i].kind = "imm" PROVE d[i].n > 0
  <2>1. CASE i \in 1..Len(c)
    BY <1>2, <1>10, <2>1 DEF InFlight
  <2>2. CASE i = Len(c) + 1
    <3>1. m.kind = "imm" /\ wc.n = m.n
      BY <1>2, <1>10, <2>2 DEF m
    <3> QED
      BY <1>1, <1>2, <1>3, <2>2, <3>1 DEF Placed
  <2> QED
    BY <1>2, <2>1, <2>2
<1>11. f \in [1..(Len(d) + Len(u) + 1) -> Nat]
  BY <1>5
<1>12. InFlight(d, u, new, base, lo, hi, spare)
  BY <1>7, <1>8, <1>9, <1>10, <1>11 DEF InFlight
<1> QED
  BY <1>12 DEF d, u

\* The server sends a registration, or n bytes from its offset on (ServerRegisters,
\* ServerSends).
LEMMA FlightSent ==
    ASSUME NEW c \in Seq(WcType), NEW t \in Seq(ToClientType), NEW buf, NEW base \in Nat,
           NEW lo, NEW hi, NEW spare, InFlight(c, t, buf, base, lo, hi, spare),
           NEW m \in ToClientType, NEW to, to = hi + Adds(m),
           m.kind = "imm" => /\ m.off = hi /\ m.n > 0 /\ Len(m.bytes) = m.n
                             /\ \A i \in 1..m.n : m.bytes[i] = base + m.off + i
    PROVE  InFlight(c, Append(t, m), buf, base, lo, to, spare)
<1> DEFINE u == Append(t, m)
<1>0. PICK n \in Nat : n = Len(c) + Len(t) + 1
  OBVIOUS
<1>1. PICK f \in [1..n -> Nat] :
        Flow(f, c, t, lo, hi) /\ Placed(f, c, t, buf, base) /\ Taken(f, c, spare)
  BY <1>0 DEF InFlight
<1>2. /\ Len(t) \in Nat /\ Len(u) = Len(t) + 1 /\ u[Len(t) + 1] = m
      /\ \A i \in 1..Len(t) : u[i] = t[i]
  OBVIOUS
<1>3. Len(c) \in Nat
  OBVIOUS
<1> HIDE DEF u
<1>4. n \in Nat /\ n \in 1..n /\ 1 \in 1..n /\ Len(c) + Len(u) + 1 = n + 1
  BY <1>0, <1>2, <1>3
<1>5. hi \in Nat /\ f[n] = hi
  BY <1>0, <1>1, <1>4 DEF Flow
<1>6. Adds(m) \in Nat /\ to \in Nat
  BY <1>5 DEF Adds, ToClientType
<1> DEFINE g == [i \in 1..(n + 1) |-> IF i = n + 1 THEN to ELSE f[i]]
<1>7. /\ g \in [1..(n + 1) -> Nat] /\ g[n + 1] = to
      /\ \A i \in 1..n : g[i] = f[i]
  <2>1. \A i \in 1..(n + 1) : i = n + 1 \/ i \in 1..n
    OBVIOUS
  <2>2. \A i \in 1..n : i \in 1..(n + 1) /\ i # n + 1
    OBVIOUS
  <2> QED
    BY <1>4, <1>6, <2>1, <2>2
<1> HIDE DEF g
<1>8. \A i \in 1..Len(c) : i \in 1..n /\ i + 1 \in 1..n
  BY <1>0, <1>2, <1>3
<1>9. \A j \in 1..Len(t) : Len(c) + j \in 1..n /\ Len(c) + j + 1 \in 1..n
  BY <1>0, <1>2, <1>3
<1>10. Flow(g, c, u, lo, to)
  <2>1. 1 \in 1..n /\ g[1] = lo /\ g[Len(c) + Len(u) + 1] = to
    BY <1>1, <1>4, <1>7 DEF Flow
  <2>2. ASSUME NEW i \in 1..(n + 1), NEW j \in 1..(n + 1), i <= j PROVE g[i] <= g[j]
    <3>1. CASE j \in 1..n
      <4>1. i \in 1..n
        BY <1>4, <2>2, <3>1
      <4> QED
        BY <1>0, <1>1, <1>7, <2>2, <3>1, <4>1 DEF Flow, Rising
    <3>2. CASE j = n + 1 /\ i \in 1..n
      <4>1. f[i] <= f[n] /\ f[i] \in Nat
        BY <1>0, <1>1, <1>4, <3>2, SMTT(30) DEF Flow, Rising
      <4> QED
        BY <1>5, <1>6, <1>7, <3>2, <4>1
    <3>3. CASE j = n + 1 /\ i = n + 1
      BY <1>6, <1>7, <3>3
    <3> QED
      BY <1>4, <3>1, <3>2, <3>3
  <2>3. \A i \in 1..Len(c) : g[i + 1] = g[i] + Adds(c[i])
    BY <1>1, <1>7, <1>8 DEF Flow
  <2>4. ASSUME NEW j \in 1..Len(u) PROVE g[Len(c) + j + 1] = g[Len(c) + j] + Adds(u[j])
    <3>1. CASE j \in 1..Len(t)
      BY <1>1, <1>2, <1>7, <1>9, <3>1 DEF Flow
    <3>2. CASE j = Len(t) + 1
      <4>1. Len(c) + j + 1 = n + 1 /\ Len(c) + j = n
        BY <1>0, <1>2, <1>3, <3>2
      <4> QED
        BY <1>2, <1>4, <1>5, <1>7, <3>2, <4>1
    <3> QED
      BY <1>2, <3>1, <3>2
  <2> QED
    BY <1>4, <2>1, <2>2, <2>3, <2>4 DEF Flow, Rising
<1>11. Placed(g, c, u, buf, base)
  <2>1. Len(c) + 1 \in 1..n /\ g[Len(c) + 1] = f[Len(c) + 1]
    BY <1>0, <1>2, <1>3, <1>7
  <2>2. \A i \in 1..g[Len(c) + 1] : buf[i] = base + i
    BY <1>1, <2>1 DEF Placed
  <2>3. ASSUME NEW j \in 1..Len(u), u[j].kind = "imm"
        PROVE  /\ u[j].off = g[Len(c) + j]
               /\ u[j].n > 0 /\ Len(u[j].bytes) = u[j].n
               /\ \A i \in 1..u[j].n : u[j].bytes[i] = base + u[j].off + i
    <3>1. CASE j \in 1..Len(t)
      <4>1. u[j] = t[j] /\ g[Len(c) + j] = f[Len(c) + j]
        BY <1>2, <1>7, <1>9, <3>1
      <4> QED
        BY <1>1, <2>3, <3>1, <4>1 DEF Placed
    <3>2. CASE j = Len(t) + 1
      <4>1. u[j] = m /\ g[Len(c) + j] = hi
        BY <1>0, <1>2, <1>3, <1>4, <1>5, <1>7, <3>2
      <4> QED
        BY <2>3, <4>1
    <3> QED
      BY <1>2, <3>1, <3>2, SMTT(30)
  <2> QED
    BY <2>2, <2>3 DEF Placed
<1>12. Taken(g, c, spare)
  BY <1>1, <1>7, <1>8 DEF Taken
<1>13. g \in [1..(Len(c) + Len(u) + 1) -> Nat]
  BY <1>4, <1>7
<1>14. InFlight(c, u, buf, base, lo, to, spare)
  BY <1>10, <1>11, <1>12, <1>13 DEF InFlight
<1> QED
  BY <1>14 DEF u

\* When the client's offset has reached the server's, at the end of the buffer, all
\* completions were seen, the one of the registration among them.
LEMMA FlightDrained ==
    ASSUME NEW c \in Seq(WcType), NEW t \in Seq(ToClientType), NEW buf, NEW base,
           NEW lo, lo > 0, NEW spare, InFlight(c, t, buf, base, lo, lo, spare)
    PROVE  /\ Lacks(c, "imm") /\ Lacks(t, "imm") /\ Lacks(c, "send")
           /\ spare = Slots
<1>0. PICK n \in Nat : n = Len(c) + Len(t) + 1
  OBVIOUS
<1>1. PICK f \in [1..n -> Nat] :
        Flow(f, c, t, lo, lo) /\ Placed(f, c, t, buf, base) /\ Taken(f, c, spare)
  BY <1>0 DEF InFlight
<1>2. /\ Len(c) \in Nat /\ Len(t) \in Nat /\ n = Len(c) + Len(t) + 1
      /\ 1 \in 1..n /\ n \in 1..n
  BY <1>0
<1>3. lo \in Nat
  BY <1>1, <1>2 DEF Flow
<1>4. ASSUME NEW i \in 1..n PROVE f[i] = lo
  <2>1. Rising(f, n) /\ f[1] = lo /\ f[n] = lo
    BY <1>1, <1>2 DEF Flow
  <2>2. f[i] \in Nat /\ 1 <= i /\ i <= n
    BY <1>4
  <2>3. f[1] <= f[i] /\ f[i] <= f[n]
    BY <1>2, <1>4, <2>1, <2>2 DEF Rising
  <2> QED
    BY <1>3, <2>1, <2>2, <2>3
<1>5. Lacks(c, "imm")
  <2>1. SUFFICES ASSUME NEW i \in 1..Len(c), c[i].kind = "imm" PROVE FALSE
    BY DEF Lacks
  <2>2. c[i].n \in Nat
    <3>1. PICK w \in WcType : w = c[i]
      BY <2>1
    <3> QED
      BY <3>1 DEF WcType
  <2>3. i \in 1..n /\ i + 1 \in 1..n
    BY <1>2
  <2>4. f[i + 1] = f[i] + c[i].n /\ c[i].n > 0
    <3>1. f[i + 1] = f[i] + Adds(c[i])
      BY <1>1 DEF Flow
    <3>2. Adds(c[i]) = c[i].n
      BY <2>1 DEF Adds
    <3>3. c[i].n > 0
      BY <2>1 DEF InFlight
    <3> QED
      BY <3>1, <3>2, <3>3
  <2> QED
    BY <1>3, <1>4, <2>2, <2>3, <2>4
<1>6. Lacks(t, "imm")
  <2>1. SUFFICES ASSUME NEW j \in 1..Len(t), t[j].kind = "imm" PROVE FALSE
    BY DEF Lacks
  <2>2. t[j].n \in Nat
    <3>1. PICK w \in ToClientType : w = t[j]
      BY <2>1
    <3> QED
      BY <3>1 DEF ToClientType
  <2>3. Len(c) + j \in 1..n /\ Len(c) + j + 1 \in 1..n
    BY <1>2
  <2>4. f[Len(c) + j + 1] = f[Len(c) + j] + t[j].n /\ t[j].n > 0
    <3>1. f[Len(c) + j + 1] = f[Len(c) + j] + Adds(t[j])
      BY <1>1 DEF Flow
    <3>2. Adds(t[j]) = t[j].n
      BY <2>1 DEF Adds
    <3>3. t[j].n > 0
      BY <1>1, <2>1 DEF Placed
    <3> QED
      BY <3>1, <3>2, <3>3
  <2> QED
    BY <1>3, <1>4, <2>2, <2>3, <2>4
<1>7. Lacks(c, "send") /\ spare = Slots
  <2>1. SUFFICES ASSUME HasOne(c, "send"),
                        \A i \in 1..Len(c) : c[i].kind = "send" => f[i] = 0
                 PROVE  FALSE
    BY <1>1 DEF Taken
  <2>2. PICK k \in 1..Len(c) : c[k].kind = "send"
    BY <2>1 DEF HasOne
  <2>3. k \in 1..n /\ f[k] = 0
    BY <1>2, <2>1, <2>2
  <2> QED
    BY <1>3, <1>4, <2>3
<1> QED
  BY <1>5, <1>6, <1>7

\* The server has got the registration: it may fill the buffer from its start.
LEMMA FlightOpened ==
    ASSUME NEW c \in Seq(WcType), NEW t \in Seq(ToClientType), NEW buf, NEW base,
           Lacks(c, "imm"), Lacks(t, "imm"), Lacks(c, "send"),
           NEW wc \in WcType, wc.kind = "send"
    PROVE  InFlight(Append(c, wc), t, buf, base, 0, 0, Slots - 1)
<1> DEFINE d == Append(c, wc)
           n == Len(d) + Len(t) + 1
           f == [i \in 1..n |-> 0]
<1>1. /\ Len(c) \in Nat /\ Len(d) = Len(c) + 1 /\ d \in Seq(WcType)
      /\ Len(t) \in Nat
  OBVIOUS
<1>2. Lacks(d, "imm") /\ HasOne(d, "send")
  BY LacksAppend, HasOneAdded
<1> HIDE DEF d
<1>3. n \in Nat /\ f \in [1..n -> Nat] /\ \A i \in 1..n : f[i] = 0
  BY <1>1
<1> HIDE DEF f
<1>4. \A i \in 1..Len(d) : Adds(d[i]) = 0 /\ i \in 1..n /\ i + 1 \in 1..n
  BY <1>1, <1>2 DEF Lacks, Adds
<1>5. \A j \in 1..Len(t) : Adds(t[j]) = 0 /\ Len(d) + j \in 1..n /\ Len(d) + j + 1 \in 1..n
  BY <1>1 DEF Lacks, Adds
<1>6. Flow(f, d, t, 0, 0)
  <2>1. f[1] = 0 /\ f[n] = 0 /\ f[Len(d) + 1] = 0
    BY <1>1, <1>3
  <2>2. Rising(f, n)
    BY <1>3 DEF Rising
  <2> QED
    <3>1. \A i \in 1..Len(d) : f[i + 1] = f[i] + Adds(d[i])
      BY <1>3, <1>4
    <3>2. \A j \in 1..Len(t) : f[Len(d) + j + 1] = f[Len(d) + j] + Adds(t[j])
      BY <1>3, <1>5
    <3> QED
      BY <2>1, <2>2, <3>1, <3>2 DEF Flow
<1>7. Placed(f, d, t, buf, base)
  <2>1. Len(d) + 1 \in 1..n
    BY <1>1
  <2> QED
    BY <1>3, <2>1 DEF Placed, Lacks
<1>8. Taken(f, d, Slots - 1)
  BY <1>2, <1>3, <1>4 DEF Taken
<1>9. InFlight(d, t, buf, base, 0, 0, Slots - 1)
  BY <1>2, <1>3, <1>6, <1>7, <1>8 DEF InFlight, Lacks
<1> QED
  BY <1>9 DEF d

-----------------------------------------------------------------------------
(* Lemmas on the stream to the server *)

\* The two kinds of messages.
LEMMA ToServerKinds ==
    ASSUME NEW m \in ToServerType
    PROVE  /\ m.kind \in {"reg", "imm"}
           /\ m.kind = "imm" => m.off \in Nat /\ m.bytes \in Seq(Nat)
<1>1. CASE m = RegMsg
  BY <1>1 DEF RegMsg
<1>2. CASE m \in [kind : {"imm"}, off : Nat, bytes : Seq(Nat)]
  BY <1>2
<1> QED
  BY <1>1, <1>2 DEF ToServerType

\* What is on its way fits between the offsets.
LEMMA OnTheWayFacts ==
    ASSUME NEW q \in Seq(ToServerType), NEW lo, NEW hi, NEW base, OnTheWay(q, lo, hi, base)
    PROVE  /\ lo \in Nat /\ hi \in Nat /\ lo <= hi
           /\ \A i \in 1..Len(q) : q[i].kind = "imm" => q[i].off + Len(q[i].bytes) <= hi
           /\ lo = hi => Lacks(q, "imm")
<1>0. PICK n \in Nat : n = Len(q) + 1
  OBVIOUS
<1>1. PICK g \in [1..n -> Nat] : TxFlow(g, q, lo, hi, base)
  BY <1>0 DEF OnTheWay
<1>2. Len(q) \in Nat /\ 1 \in 1..n /\ n \in 1..n
  BY <1>0
<1>3. g[1] = lo /\ g[n] = hi /\ lo \in Nat /\ hi \in Nat
  BY <1>0, <1>1, <1>2 DEF TxFlow
<1>4. Rising(g, n)
  BY <1>0, <1>1 DEF TxFlow
<1>5. lo <= hi
  BY <1>2, <1>3, <1>4 DEF Rising
<1>6. ASSUME NEW i \in 1..Len(q), q[i].kind = "imm"
      PROVE  /\ q[i].off + Len(q[i].bytes) <= hi
             /\ lo # hi
  <2>1. /\ q[i].off = g[i] /\ Len(q[i].bytes) > 0
        /\ g[i + 1] = g[i] + Len(q[i].bytes)
    BY <1>1, <1>6 DEF TxFlow
  <2>2. PICK m \in ToServerType : m = q[i]
    BY <1>6
  <2>3. Len(q[i].bytes) \in Nat
    BY <1>6, <2>2, ToServerKinds
  <2>4. i \in 1..n /\ i + 1 \in 1..n /\ 1 <= i /\ i + 1 <= n
    BY <1>0, <1>2
  <2>5. g[1] <= g[i] /\ g[i + 1] <= g[n] /\ g[i] \in Nat /\ g[i + 1] \in Nat
    BY <1>2, <1>4, <2>4 DEF Rising
  <2> QED
    BY <1>3, <2>1, <2>3, <2>5
<1>7. lo = hi => Lacks(q, "imm")
  BY <1>6 DEF Lacks
<1> QED
  BY <1>3, <1>5, <1>6, <1>7

\* One more message: a registration, or n bytes from the client's offset on
\* (connRdmaRegisterRx, connRdmaSend).
LEMMA OnTheWaySent ==
    ASSUME NEW q \in Seq(ToServerType), NEW lo, NEW hi, NEW base, OnTheWay(q, lo, hi, base),
           NEW m \in ToServerType, NEW to,
           m.kind = "reg" => to = hi,
           m.kind = "imm" => /\ to = hi + Len(m.bytes) /\ m.off = hi /\ Len(m.bytes) > 0
                             /\ \A i \in 1..Len(m.bytes) : m.bytes[i] = base + m.off + i
    PROVE  OnTheWay(Append(q, m), lo, to, base)
<1> DEFINE p == Append(q, m)
<1>0. PICK n \in Nat : n = Len(q) + 1
  OBVIOUS
<1>1. PICK g \in [1..n -> Nat] : TxFlow(g, q, lo, hi, base)
  BY <1>0 DEF OnTheWay
<1>2. /\ Len(q) \in Nat /\ Len(p) = Len(q) + 1 /\ p[Len(q) + 1] = m
      /\ \A i \in 1..Len(q) : p[i] = q[i]
  OBVIOUS
<1> HIDE DEF p
<1>3. /\ n \in 1..n /\ 1 \in 1..n /\ g[n] = hi /\ g[1] = lo /\ hi \in Nat
      /\ Len(p) + 1 = n + 1 /\ Len(p) = n
  BY <1>0, <1>1, <1>2 DEF TxFlow
<1>4. to \in Nat /\ to >= hi /\ m.kind \in {"reg", "imm"}
  <2>1. m.kind = "imm" => Len(m.bytes) \in Nat
    BY ToServerKinds
  <2> QED
    BY <1>3, <2>1, ToServerKinds
<1> DEFINE h == [i \in 1..(n + 1) |-> IF i = n + 1 THEN to ELSE g[i]]
<1>5. /\ h \in [1..(n + 1) -> Nat] /\ h[n + 1] = to
      /\ \A i \in 1..n : h[i] = g[i]
  <2>1. \A i \in 1..(n + 1) : i = n + 1 \/ i \in 1..n
    OBVIOUS
  <2>2. \A i \in 1..n : i \in 1..(n + 1) /\ i # n + 1
    OBVIOUS
  <2> QED
    BY <1>3, <1>4, <2>1, <2>2
<1> HIDE DEF h
<1>6. ASSUME NEW i \in 1..(n + 1), NEW j \in 1..(n + 1), i <= j PROVE h[i] <= h[j]
  <2>1. Rising(g, n)
    BY <1>0, <1>1 DEF TxFlow
  <2>2. CASE j \in 1..n
    <3>1. i \in 1..n
      BY <1>6, <2>2
    <3> QED
      BY <1>5, <1>6, <2>1, <2>2, <3>1 DEF Rising
  <2>3. CASE j = n + 1 /\ i \in 1..n
    <3>1. g[i] <= g[n] /\ g[i] \in Nat
      BY <1>3, <2>1, <2>3 DEF Rising
    <3> QED
      BY <1>3, <1>4, <1>5, <2>3, <3>1
  <2>4. CASE j = n + 1 /\ i = n + 1
    BY <1>4, <1>5, <2>4
  <2> QED
    BY <2>2, <2>3, <2>4
<1>7. \A i \in 1..Len(q) : i \in 1..n /\ i + 1 \in 1..n /\ h[i] = g[i] /\ h[i + 1] = g[i + 1]
  BY <1>0, <1>2, <1>5
<1>8. ASSUME NEW i \in 1..Len(p), p[i].kind = "reg" PROVE h[i + 1] = h[i]
  <2>1. CASE i \in 1..Len(q)
    BY <1>1, <1>2, <1>7, <1>8, <2>1 DEF TxFlow
  <2>2. CASE i = n
    BY <1>0, <1>2, <1>3, <1>5, <1>8, <2>2
  <2> QED
    BY <1>0, <1>2, <2>1, <2>2
<1>9. ASSUME NEW i \in 1..Len(p), p[i].kind = "imm"
      PROVE  /\ p[i].off = h[i] /\ Len(p[i].bytes) > 0
             /\ h[i + 1] = h[i] + Len(p[i].bytes)
             /\ \A k \in 1..Len(p[i].bytes) : p[i].bytes[k] = base + p[i].off + k
  <2>1. CASE i \in 1..Len(q)
    <3>1. p[i] = q[i] /\ h[i] = g[i] /\ h[i + 1] = g[i + 1]
      BY <1>2, <1>7, <2>1
    <3> QED
      BY <1>1, <1>9, <2>1, <3>1 DEF TxFlow
  <2>2. CASE i = n
    <3>1. p[i] = m /\ h[i] = hi /\ h[i + 1] = to
      BY <1>0, <1>2, <1>3, <1>5, <2>2
    <3> QED
      BY <1>9, <3>1
  <2> QED
    BY <1>0, <1>2, <2>1, <2>2
<1>10. TxFlow(h, p, lo, to, base)
  BY <1>3, <1>5, <1>6, <1>8, <1>9 DEF TxFlow, Rising
<1>11. OnTheWay(p, lo, to, base)
  BY <1>3, <1>5, <1>10 DEF OnTheWay
<1> QED
  BY <1>11 DEF p

\* The first message arrives (DeliverToServer).
LEMMA OnTheWayTaken ==
    ASSUME NEW q \in Seq(ToServerType), q # <<>>, NEW lo, NEW hi, NEW base,
           OnTheWay(q, lo, hi, base)
    PROVE  /\ Head(q).kind = "reg" => OnTheWay(Tail(q), lo, hi, base)
           /\ Head(q).kind = "imm" =>
                /\ Head(q).off = lo
                /\ Len(Head(q).bytes) > 0
                /\ \A k \in 1..Len(Head(q).bytes) : Head(q).bytes[k] = base + lo + k
                /\ OnTheWay(Tail(q), lo + Len(Head(q).bytes), hi, base)
<1> DEFINE p == Tail(q)
           m == Head(q)
<1>0. PICK n \in Nat : n = Len(q)
  OBVIOUS
<1>1. PICK g \in [1..(n + 1) -> Nat] : TxFlow(g, q, lo, hi, base)
  BY <1>0 DEF OnTheWay
<1>2. /\ n \in Nat \ {0} /\ Len(p) + 1 = n /\ m = q[1] /\ Len(p) \in Nat
      /\ \A i \in 1..Len(p) : p[i] = q[i + 1]
  BY <1>0
<1> HIDE DEF p, m
<1>3. 1 \in 1..Len(q) /\ 1 \in 1..n /\ n \in 1..n /\ g[1] = lo /\ g[n + 1] = hi
  BY <1>0, <1>1, <1>2 DEF TxFlow
<1> DEFINE h == [i \in 1..n |-> g[i + 1]]
<1>4. /\ h \in [1..n -> Nat]
      /\ \A i \in 1..n : h[i] = g[i + 1]
  OBVIOUS
<1> HIDE DEF h
<1>5. ASSUME NEW i \in 1..n, NEW j \in 1..n, i <= j PROVE h[i] <= h[j]
  <2>1. i + 1 \in 1..(n + 1) /\ j + 1 \in 1..(n + 1) /\ i + 1 <= j + 1
    BY <1>5
  <2>2. Rising(g, n + 1)
    BY <1>0, <1>1 DEF TxFlow
  <2> QED
    BY <1>4, <1>5, <2>1, <2>2 DEF Rising
<1>6. \A i \in 1..Len(p) : /\ i + 1 \in 1..Len(q) /\ h[i] = g[i + 1] /\ h[i + 1] = g[i + 1 + 1]
                           /\ p[i] = q[i + 1]
  BY <1>0, <1>2, <1>4
<1>7. ASSUME NEW to, g[2] = to
      PROVE  OnTheWay(p, to, hi, base)
  <2>1. h[1] = to /\ h[Len(p) + 1] = hi
    BY <1>2, <1>3, <1>4, <1>7
  <2>2. \A i \in 1..Len(p) : p[i].kind = "reg" => h[i + 1] = h[i]
    BY <1>1, <1>6 DEF TxFlow
  <2>3. ASSUME NEW i \in 1..Len(p), p[i].kind = "imm"
        PROVE  /\ p[i].off = h[i] /\ Len(p[i].bytes) > 0
               /\ h[i + 1] = h[i] + Len(p[i].bytes)
               /\ \A k \in 1..Len(p[i].bytes) : p[i].bytes[k] = base + p[i].off + k
    <3>1. PICK j \in 1..Len(q) : j = i + 1
      BY <1>6
    <3>2. p[i] = q[j] /\ h[i] = g[j] /\ h[i + 1] = g[j + 1]
      BY <1>6, <3>1
    <3> QED
      BY <1>1, <2>3, <3>2 DEF TxFlow
  <2>4. TxFlow(h, p, to, hi, base)
    BY <1>2, <1>5, <2>1, <2>2, <2>3 DEF TxFlow, Rising
  <2> QED
    BY <1>2, <1>4, <2>4 DEF OnTheWay
<1>8. ASSUME m.kind = "reg" PROVE OnTheWay(p, lo, hi, base)
  <2>1. g[2] = lo
    BY <1>1, <1>2, <1>3, <1>8 DEF TxFlow
  <2> QED
    BY <1>7, <2>1
<1>9. ASSUME m.kind = "imm"
      PROVE  /\ m.off = lo
             /\ Len(m.bytes) > 0
             /\ \A k \in 1..Len(m.bytes) : m.bytes[k] = base + lo + k
             /\ OnTheWay(p, lo + Len(m.bytes), hi, base)
  <2>1. /\ m.off = g[1] /\ Len(m.bytes) > 0
        /\ g[1 + 1] = g[1] + Len(m.bytes)
        /\ \A k \in 1..Len(m.bytes) : m.bytes[k] = base + m.off + k
    BY <1>1, <1>2, <1>3, <1>9 DEF TxFlow
  <2>2. g[2] = lo + Len(m.bytes)
    BY <1>3, <2>1
  <2>3. OnTheWay(p, lo + Len(m.bytes), hi, base)
    BY <1>7, <2>2
  <2> QED
    BY <1>3, <2>1, <2>3
<1> QED
  BY <1>8, <1>9 DEF p, m

\* The client has got the server's buffer; nothing was written to it yet.
LEMMA OnTheWayOpened ==
    ASSUME NEW q \in Seq(ToServerType), Lacks(q, "imm"), NEW base
    PROVE  OnTheWay(q, 0, 0, base)
<1>0. PICK n \in Nat : n = Len(q) + 1
  OBVIOUS
<1> DEFINE g == [i \in 1..n |-> 0]
<1>1. g \in [1..n -> Nat] /\ \A i \in 1..n : g[i] = 0
  OBVIOUS
<1> HIDE DEF g
<1>2. 1 \in 1..n /\ n \in 1..n /\ \A i \in 1..Len(q) : i \in 1..n /\ i + 1 \in 1..n
  BY <1>0
<1>3. Rising(g, n)
  BY <1>1 DEF Rising
<1>4. TxFlow(g, q, 0, 0, base)
  BY <1>0, <1>1, <1>2, <1>3 DEF TxFlow, Lacks
<1> QED
  BY <1>0, <1>1, <1>4 DEF OnTheWay

-----------------------------------------------------------------------------
(* Lemmas on the state *)

\* The types of the parts.
LEMMA TypeFacts ==
    ASSUME Typed
    PROVE  /\ rx.rxo \in Nat /\ rx.reco \in Nat /\ rx.buf \in [1..RxLen -> Nat]
           /\ tx.len \in Nat /\ tx.off \in Nat /\ tx.total \in Nat /\ tx.todo \in Nat
           /\ hw.cq \in Seq(WcType) /\ hw.armed \in BOOLEAN /\ hw.chan \in Nat
           /\ hw.ready \in Seq({"cm", "comp", "ev"}) /\ hw.cmq \in Seq(CmEvents)
           /\ hw.fabric \in Before \cup {"up", "down"}
           /\ net.toClient \in Seq(ToClientType) /\ net.toServer \in Seq(ToServerType)
           /\ srv.up \in BOOLEAN /\ srv.mustRegister \in BOOLEAN
           /\ srv.win \in Nat /\ srv.off \in Nat /\ srv.sent \in Nat
           /\ srv.got \in Seq(Nat) /\ srv.end \in Nat
           /\ flags.connected \in BOOLEAN /\ flags.failed \in BOOLEAN
<1>1. rx.rxo \in Nat /\ rx.reco \in Nat /\ rx.buf \in [1..RxLen -> Nat]
  BY DEF Typed, RxType
<1>2. tx.len \in Nat /\ tx.off \in Nat /\ tx.total \in Nat /\ tx.todo \in Nat
  BY DEF Typed, TxType
<1>3. /\ hw.cq \in Seq(WcType) /\ hw.armed \in BOOLEAN /\ hw.chan \in Nat
      /\ hw.ready \in Seq({"cm", "comp", "ev"}) /\ hw.cmq \in Seq(CmEvents)
      /\ hw.fabric \in Before \cup {"up", "down"}
  BY DEF Typed, HwType
<1>4. net.toClient \in Seq(ToClientType) /\ net.toServer \in Seq(ToServerType)
  BY DEF Typed, NetType
<1>5. /\ srv.up \in BOOLEAN /\ srv.mustRegister \in BOOLEAN
      /\ srv.win \in Nat /\ srv.off \in Nat /\ srv.sent \in Nat
      /\ srv.got \in Seq(Nat) /\ srv.end \in Nat
  BY DEF Typed, SrvType
<1>6. flags.connected \in BOOLEAN /\ flags.failed \in BOOLEAN
  BY DEF Typed, FlagsType
<1> QED
  BY <1>1, <1>2, <1>3, <1>4, <1>5, <1>6

\* The queue of the connection manager holds at most two events.
LEMMA CmQueues ==
    /\ \A e \in CmEvents : /\ <<e>> # <<>> /\ Head(<<e>>) = e /\ Tail(<<e>>) = <<>>
                           /\ Append(<<>>, e) = <<e>>
    /\ \A e, d \in CmEvents : /\ <<e, d>> # <<>> /\ Head(<<e, d>>) = e
                              /\ Tail(<<e, d>>) = <<d>> /\ Append(<<e>>, d) = <<e, d>>
                              /\ <<e, d>> # <<e>> /\ <<e, d>> # <<d>>
                              /\ e # d => <<e>> # <<d>>
<1>1. ASSUME NEW e \in CmEvents
      PROVE  <<e>> # <<>> /\ Head(<<e>>) = e /\ Tail(<<e>>) = <<>> /\ Append(<<>>, e) = <<e>>
  OBVIOUS
<1>2. ASSUME NEW e \in CmEvents, NEW d \in CmEvents
      PROVE  /\ <<e, d>> # <<>> /\ Head(<<e, d>>) = e
             /\ Tail(<<e, d>>) = <<d>> /\ Append(<<e>>, d) = <<e, d>>
             /\ <<e, d>> # <<e>> /\ <<e, d>> # <<d>>
             /\ e # d => <<e>> # <<d>>
  <2>1. Len(<<e, d>>) = 2 /\ Len(<<e>>) = 1 /\ Len(<<d>>) = 1
    OBVIOUS
  <2>2. <<e, d>> # <<>> /\ Head(<<e, d>>) = e
    OBVIOUS
  <2>3. Tail(<<e, d>>) = <<d>>
    OBVIOUS
  <2>4. Append(<<e>>, d) = <<e, d>>
    <3> DEFINE s == Append(<<e>>, d)
               t == <<e, d>>
    <3>1. s \in Seq(CmEvents) /\ Len(s) = 2 /\ s[1] = e /\ s[2] = d
      OBVIOUS
    <3>2. t \in Seq(CmEvents) /\ Len(t) = 2 /\ t[1] = e /\ t[2] = d
      OBVIOUS
    <3> HIDE DEF s, t
    <3>3. \A i \in 1..Len(s) : i = 1 \/ i = 2
      BY <3>1
    <3>4. s = t
      BY <3>1, <3>2, <3>3, SeqEqual
    <3> QED
      BY <3>4 DEF s, t
  <2>5. e # d => <<e>> # <<d>>
    OBVIOUS
  <2> QED
    BY <2>1, <2>2, <2>3, <2>4, <2>5
<1> QED
  BY <1>1, <1>2

\* A step that moves no byte and no token.
LEMMA StreamsStill ==
    ASSUME rx' = rx, slots' = slots, fed' = fed, net' = net, hw'.cq = hw.cq,
           tx'.len = tx.len, tx'.off = tx.off, tx'.total = tx.total,
           srv'.win = srv.win, srv'.off = srv.off, srv'.sent = srv.sent,
           srv'.got = srv.got, srv'.mustRegister = srv.mustRegister
    PROVE  /\ RxInv => RxInv'
           /\ TxInv => TxInv'
           /\ RxIdle => RxIdle'
           /\ TxWithheld => TxWithheld'
<1>1. NothingToRead' = NothingToRead
  BY DEF NothingToRead
<1>2. RxIdle' = RxIdle
  BY <1>1 DEF RxIdle
<1>3. RxAsked' = RxAsked
  BY <1>1 DEF RxAsked
<1>4. RxOpen' = RxOpen
  BY DEF RxOpen
<1>5. AllArrived' = AllArrived
  BY DEF AllArrived
<1>6. TxWithheld' = TxWithheld
  BY <1>5 DEF TxWithheld
<1>7. TxGranted' = TxGranted
  BY <1>5 DEF TxGranted
<1>8. TxOpen' = TxOpen
  BY DEF TxOpen
<1>9. RxInv => RxInv'
  BY <1>2, <1>3, <1>4 DEF RxInv
<1>10. TxInv => TxInv'
  BY <1>6, <1>7, <1>8 DEF TxInv
<1> QED
  BY <1>2, <1>6, <1>9, <1>10

\* A step of the library that leaves buffers, hardware and messages alone.
LEMMA HandlerKeeps ==
    ASSUME IInv, UNCHANGED <<rx, tx, slots, fed, hw, net, srv>>,
           flags' \in FlagsType, flags'.connected => flags.connected,
           op' \in {"none", "connect", "read", "write", "closed", "crashed"},
           wait' \in {"none", "epoll", "batch", "poll", "cm"},
           err' \in {"none", "other", "io", "eof"},
           CallFits'
    PROVE  IInv'
<1>0. /\ rx' = rx /\ tx' = tx /\ slots' = slots /\ fed' = fed /\ hw' = hw /\ net' = net
      /\ srv' = srv
  OBVIOUS
<1>1. Typed'
  BY <1>0 DEF IInv, Typed
<1>2. RxInv' /\ TxInv' /\ (RxIdle => RxIdle') /\ (TxWithheld => TxWithheld')
  BY <1>0, StreamsStill DEF IInv
<1>3. NotifiedOnce' /\ Reported'
  BY <1>0 DEF IInv, NotifiedOnce, Reported
<1>4. NothingBefore'
  BY <1>0, <1>2 DEF IInv, NothingBefore
<1> QED
  BY <1>1, <1>2, <1>3, <1>4 DEF IInv

-----------------------------------------------------------------------------
(* Waiting, and the calls: no byte moves *)

\* The connect call fails and gives back what it owns itself.
LEMMA FailConnectFits ==
    ASSUME IInv, NEW e \in {"none", "other", "io", "eof"}, FailConnect(e), hw' = hw, tx' = tx
    PROVE  /\ CallFits'
           /\ op' \in {"none", "connect", "read", "write", "closed", "crashed"}
           /\ wait' \in {"none", "epoll", "batch", "poll", "cm"}
           /\ err' \in {"none", "other", "io", "eof"}
           /\ flags' \in FlagsType /\ ~ flags'.connected
<1>1. /\ op' = "none" /\ wait' = "none" /\ err' = e
      /\ flags' = [connected |-> FALSE, failed |-> TRUE]
  BY DEF FailConnect
<1>2. flags' \in FlagsType /\ flags'.connected = FALSE /\ flags'.failed = TRUE
  BY <1>1 DEF FlagsType
<1>3. CallFits'
  BY <1>1, <1>2 DEF CallFits
<1> QED
  BY <1>1, <1>2, <1>3

\* The deadline of the connect.
LEMMA WaitConnTimeoutKeeps ==
    ASSUME IInv, WaitConnTimeout
    PROVE  IInv'
<1>1. FailConnect(err) /\ UNCHANGED <<rx, tx, slots, fed, hw, net, srv>>
  BY DEF WaitConnTimeout
<1>2. err \in {"none", "other", "io", "eof"}
  BY DEF IInv, Typed
<1>3. /\ CallFits'
      /\ op' \in {"none", "connect", "read", "write", "closed", "crashed"}
      /\ wait' \in {"none", "epoll", "batch", "poll", "cm"}
      /\ err' \in {"none", "other", "io", "eof"}
      /\ flags' \in FlagsType /\ ~ flags'.connected
  BY <1>1, <1>2, FailConnectFits
<1> QED
  BY <1>1, <1>3, HandlerKeeps

\* CmDoneConnecting fails, succeeds or goes on waiting.
LEMMA CmDoneConnectingKeeps ==
    ASSUME IInv, CmDoneConnecting
    PROVE  IInv'
<1>1. /\ op = "connect" /\ wait = "cm" /\ hw.cmq = <<>>
      /\ UNCHANGED <<rx, tx, slots, fed, hw, net, srv>>
  BY DEF CmDoneConnecting
<1>2. /\ err \in {"none", "other", "io", "eof"} /\ flags \in FlagsType
      /\ flags.connected \in BOOLEAN /\ flags.failed \in BOOLEAN
      /\ hw.fabric \in Before \cup {"up", "down"}
  BY TypeFacts DEF IInv, Typed
<1>3. CASE flags.failed /\ FailConnect(err)
  <2>1. /\ CallFits'
        /\ op' \in {"none", "connect", "read", "write", "closed", "crashed"}
        /\ wait' \in {"none", "epoll", "batch", "poll", "cm"}
        /\ err' \in {"none", "other", "io", "eof"}
        /\ flags' \in FlagsType /\ ~ flags'.connected
    BY <1>1, <1>2, <1>3, FailConnectFits
  <2> QED
    BY <1>1, <2>1, HandlerKeeps
<1>4. CASE /\ ~ flags.failed /\ flags.connected
           /\ op' = "none" /\ wait' = "none"
           /\ UNCHANGED <<err, flags, res>>
  <2>1. hw.fabric \notin Before
    BY <1>4 DEF IInv, NothingBefore
  <2>2. CallFits'
    BY <1>1, <1>2, <1>4, <2>1 DEF CallFits
  <2> QED
    BY <1>1, <1>2, <1>4, <2>2, HandlerKeeps
<1>5. CASE /\ ~ flags.failed /\ ~ flags.connected
           /\ wait' = "epoll"
           /\ UNCHANGED <<op, err, flags, res>>
  <2>1. CallFits
    BY DEF IInv
  <2>2. hw.fabric # "up"
    BY <1>1, <1>5, <2>1, CmQueues DEF CallFits, CmEvents
  <2>3. CallFits'
    BY <1>1, <1>5, <2>2 DEF CallFits
  <2> QED
    BY <1>1, <1>2, <1>5, <2>3, HandlerKeeps
<1> QED
  BY <1>3, <1>4, <1>5 DEF CmDoneConnecting

\* A step inside of a read or a write that goes on, or ends it.
LEMMA TransferKeeps ==
    ASSUME IInv, op \in {"read", "write"}, op' = op \/ (op' = "none" /\ wait' = "none"),
           wait' \in {"none", "epoll", "batch", "poll", "cm"},
           err' \in {"none", "other", "io", "eof"},
           UNCHANGED <<flags, rx, tx, slots, fed, hw, net, srv>>
    PROVE  IInv'
<1>0. /\ hw' = hw /\ flags' = flags /\ tx' = tx
      /\ UNCHANGED <<rx, tx, slots, fed, hw, net, srv>>
  OBVIOUS
<1>1. CallFits /\ flags \in FlagsType
  BY DEF IInv, Typed
<1>2. /\ hw.fabric \in {"up", "down"} /\ hw.cmq \in {<<>>, <<"disconnected">>}
      /\ ~ flags.failed
  BY <1>1 DEF CallFits
<1>3. op = "write" => tx.todo > 0
  BY <1>1 DEF CallFits
<1>4. CallFits'
  BY <1>0, <1>2, <1>3 DEF CallFits
<1> QED
  BY <1>0, <1>1, <1>4, HandlerKeeps

\* Steps of valkeyRdmaWaitEvent that leave the queues alone.
LEMMA WaitEventKeeps ==
    ASSUME IInv,
           \/ EpollNothing \/ EventAck \/ PollCqEmpty \/ HandleCqFails \/ HandleCM
           \/ CmDoneIO \/ BatchDone \/ SendFails
    PROVE  IInv'
<1>0. err \in {"none", "other", "io", "eof"} /\ wait \in {"none", "epoll", "batch", "poll", "cm"}
      /\ op \in {"none", "connect", "read", "write", "closed", "crashed"}
  BY DEF IInv, Typed
<1>1. wait \in {"batch", "poll"} => op \in {"read", "write"}
  BY <1>0 DEF IInv, CallFits
<1>2. CASE EpollNothing
  BY <1>0, <1>2, TransferKeeps DEF EpollNothing, Abort
<1>3. CASE EventAck
  BY <1>0, <1>1, <1>3, TransferKeeps DEF EventAck
<1>4. CASE PollCqEmpty
  BY <1>0, <1>1, <1>4, TransferKeeps DEF PollCqEmpty
<1>5. CASE HandleCqFails
  BY <1>0, <1>1, <1>5, TransferKeeps DEF HandleCqFails, Abort
<1>6. CASE HandleCM
  BY <1>0, <1>1, <1>6, TransferKeeps DEF HandleCM
<1>7. CASE CmDoneIO
  BY <1>0, <1>7, TransferKeeps DEF CmDoneIO, Abort
<1>8. CASE BatchDone
  BY <1>0, <1>1, <1>8, TransferKeeps DEF BatchDone
<1>9. CASE SendFails
  BY <1>0, <1>9, TransferKeeps DEF SendFails
<1> QED
  BY <1>2, <1>3, <1>4, <1>5, <1>6, <1>7, <1>8, <1>9

\* A read begins, the context is closed, or it is used without a connection.
LEMMA CallKeeps ==
    ASSUME IInv, BeginRead \/ valkeyRdmaClose \/ WriteUnconnected \/ ReadUnconnected
    PROVE  IInv'
<1>0. err \in {"none", "other", "io", "eof"} /\ wait \in {"none", "epoll", "batch", "poll", "cm"}
      /\ flags \in FlagsType /\ CallFits
  BY DEF IInv, Typed
<1>1. CASE BeginRead
  <2>1. /\ op = "none" /\ ~ flags.failed /\ op' = "read" /\ wait' = "epoll" /\ err' = err
        /\ flags' = flags /\ hw' = hw /\ tx' = tx
        /\ UNCHANGED <<rx, tx, slots, fed, hw, net, srv>>
    BY <1>1 DEF BeginRead, Usable, Callable
  <2>2. CallFits'
    BY <1>0, <2>1 DEF CallFits
  <2> QED
    BY <1>0, <2>1, <2>2, HandlerKeeps
<1>2. CASE valkeyRdmaClose
  <2>1. /\ op = "none" /\ op' = "closed" /\ wait' = wait /\ err' = err
        /\ flags' = flags /\ hw' = hw /\ tx' = tx
        /\ UNCHANGED <<rx, tx, slots, fed, hw, net, srv>>
    BY <1>2 DEF valkeyRdmaClose
  <2>2. CallFits'
    BY <1>0, <2>1 DEF CallFits
  <2> QED
    BY <1>0, <2>1, <2>2, HandlerKeeps
<1>3. CASE WriteUnconnected
  <2>1. /\ flags.failed /\ op = "none" /\ op' = "crashed" /\ wait' = wait /\ err' = err
        /\ flags' = flags /\ hw' = hw /\ tx' = tx
        /\ UNCHANGED <<rx, tx, slots, fed, hw, net, srv>>
    BY <1>3 DEF WriteUnconnected, Callable
  <2>2. CallFits'
    BY <1>0, <2>1 DEF CallFits
  <2> QED
    BY <1>0, <2>1, <2>2, HandlerKeeps
<1>4. CASE ReadUnconnected
  <2>1. /\ op = "none" /\ op' = op /\ wait' = wait /\ err' = "io"
        /\ flags' = flags /\ hw' = hw /\ tx' = tx
        /\ UNCHANGED <<rx, tx, slots, fed, hw, net, srv>>
    BY <1>4 DEF ReadUnconnected, Callable
  <2>2. CallFits'
    BY <1>0, <2>1 DEF CallFits
  <2> QED
    BY <1>0, <2>1, <2>2, HandlerKeeps
<1> QED
  BY <1>1, <1>2, <1>3, <1>4

\* A write begins.
LEMMA BeginWriteKeeps ==
    ASSUME IInv, NEW n \in 1..MaxTx, BeginWrite(n)
    PROVE  IInv'
<1>0. /\ op = "none" /\ ~ flags.failed /\ op' = "write" /\ wait' = "epoll" /\ err' = err
      /\ flags' = flags /\ rx' = rx /\ slots' = slots /\ fed' = fed /\ hw' = hw /\ net' = net
      /\ srv' = srv /\ tx' = [tx EXCEPT !.todo = n]
  BY DEF BeginWrite, Usable, Callable
<1>1. /\ err \in {"none", "other", "io", "eof"} /\ flags \in FlagsType /\ CallFits
      /\ tx \in TxType /\ n \in Nat /\ n > 0
  BY RdmaAssumption DEF IInv, Typed
<1>2. /\ tx' \in TxType /\ tx'.todo = n
      /\ tx'.len = tx.len /\ tx'.off = tx.off /\ tx'.total = tx.total
  BY <1>0, <1>1 DEF TxType
<1>3. Typed'
  BY <1>0, <1>1, <1>2 DEF IInv, Typed
<1>4. RxInv' /\ TxInv' /\ (RxIdle => RxIdle') /\ (TxWithheld => TxWithheld')
  BY <1>0, <1>2, StreamsStill DEF IInv
<1>5. NotifiedOnce' /\ Reported'
  BY <1>0 DEF IInv, NotifiedOnce, Reported
<1>6. NothingBefore'
  BY <1>0, <1>4 DEF IInv, NothingBefore
<1>7. CallFits'
  BY <1>0, <1>1, <1>2 DEF CallFits
<1> QED
  BY <1>3, <1>4, <1>5, <1>6, <1>7 DEF IInv

\* A step that changes of the hardware only the ready list, the notification and the
\* fabric.
LEMMA HardwareKeeps ==
    ASSUME IInv, UNCHANGED <<rx, tx, slots, fed, net, srv>>,
           hw' \in HwType, hw'.cq = hw.cq,
           hw'.cmq = hw.cmq \/ hw'.cmq \in {<<>>, <<"disconnected">>},
           flags' \in FlagsType, flags'.connected => flags.connected,
           op' \in {"none", "connect", "read", "write", "closed", "crashed"},
           wait' \in {"none", "epoll", "batch", "poll", "cm"},
           err' \in {"none", "other", "io", "eof"},
           NotifiedOnce', Reported', CallFits',
           hw'.fabric \in Before => /\ hw.fabric \in Before /\ hw'.chan = hw.chan
                                    /\ hw'.ready \in {<<>>, <<"cm">>},
           hw'.fabric = "down" => hw.fabric = "down"
    PROVE  IInv'
<1>0. /\ rx' = rx /\ tx' = tx /\ slots' = slots /\ fed' = fed /\ net' = net /\ srv' = srv
  OBVIOUS
<1>1. Typed'
  BY <1>0 DEF IInv, Typed
<1>2. RxInv' /\ TxInv' /\ (RxIdle => RxIdle') /\ (TxWithheld => TxWithheld')
  BY <1>0, StreamsStill DEF IInv
<1>3. hw'.cmq # <<>> /\ Head(hw'.cmq) = "established" => RxIdle
  <2>1. CASE hw'.cmq = hw.cmq
    BY <2>1 DEF IInv, NothingBefore
  <2>2. CASE hw'.cmq \in {<<>>, <<"disconnected">>}
    BY <2>2, CmQueues DEF CmEvents
  <2> QED
    BY <2>1, <2>2
<1>4. NothingBefore'
  BY <1>0, <1>2, <1>3 DEF IInv, NothingBefore
<1> QED
  BY <1>1, <1>2, <1>4 DEF IInv

\* valkeyContextConnectRdma asks for the address, or fails.
LEMMA ConnectKeeps ==
    ASSUME IInv, valkeyContextConnectRdma
    PROVE  IInv'
<1>0. /\ op = "connect" /\ wait = "none"
      /\ rx' = rx /\ tx' = tx /\ slots' = slots /\ fed' = fed /\ net' = net /\ srv' = srv
      /\ UNCHANGED <<rx, tx, slots, fed, net, srv>>
  BY DEF valkeyContextConnectRdma
<1>1. hw.fabric = "none"
  BY <1>0 DEF IInv, CallFits
<1>2. CASE /\ wait' = "epoll" /\ res' = CmResources
           /\ hw' = [hw EXCEPT !.fabric = "addr"]
           /\ UNCHANGED <<op, err, flags>>
  <2>1. hw \in HwType
    BY DEF IInv, Typed
  <2>2. /\ hw' \in HwType /\ hw'.cq = hw.cq /\ hw'.cmq = hw.cmq /\ hw'.fabric = "addr"
        /\ hw'.chan = hw.chan /\ hw'.armed = hw.armed /\ hw'.ready = hw.ready
    BY <1>2, <2>1 DEF HwType, Before
  <2>3. hw.ready \in {<<>>, <<"cm">>} /\ hw.fabric \in Before /\ ~ flags.connected
    BY <1>1 DEF IInv, NothingBefore, Before
  <2>4. NotifiedOnce'
    BY <2>2 DEF IInv, NotifiedOnce
  <2>5. Reported'
    BY <1>1, <2>2 DEF IInv, Reported
  <2>6. CallFits'
    BY <1>0, <1>2, <2>2, <2>3 DEF CallFits
  <2>7. /\ err' \in {"none", "other", "io", "eof"} /\ flags' \in FlagsType /\ flags' = flags
        /\ op' \in {"none", "connect", "read", "write", "closed", "crashed"}
    BY <1>2 DEF IInv, Typed
  <2> QED
    BY <1>0, <1>2, <2>2, <2>3, <2>4, <2>5, <2>6, <2>7, HardwareKeeps
<1>3. CASE FailConnect("other") /\ UNCHANGED hw
  BY <1>0, <1>3, FailConnectFits, HandlerKeeps
<1> QED
  BY <1>2, <1>3 DEF valkeyContextConnectRdma

\* valkeyRdmaWaitConn takes a descriptor from the ready list.
LEMMA WaitConnKeeps ==
    ASSUME IInv, WaitConn
    PROVE  IInv'
<1>0. /\ op = "connect" /\ wait = "epoll" /\ hw.ready # <<>>
      /\ hw' = [hw EXCEPT !.ready = Tail(@)] /\ wait' = "cm"
      /\ flags' = [flags EXCEPT !.failed = TRUE]
      /\ op' = op /\ err' = err /\ res' = res /\ tx' = tx
      /\ UNCHANGED <<rx, tx, slots, fed, net, srv>>
  BY DEF WaitConn
<1>1. hw \in HwType /\ flags \in FlagsType /\ err \in {"none", "other", "io", "eof"}
  BY DEF IInv, Typed
<1>2. Tail(hw.ready) \in Seq({"cm", "comp", "ev"})
  BY <1>0, TypeFacts, SMTT(30) DEF IInv
<1>3. /\ hw' \in HwType /\ hw'.cq = hw.cq /\ hw'.cmq = hw.cmq /\ hw'.fabric = hw.fabric
      /\ hw'.chan = hw.chan /\ hw'.armed = hw.armed /\ hw'.ready = Tail(hw.ready)
  BY <1>0, <1>1, <1>2 DEF HwType
<1>4. flags' \in FlagsType /\ flags'.connected = flags.connected
  BY <1>0, <1>1 DEF FlagsType
<1>5. CallFits /\ ~ flags.connected
  BY <1>0 DEF IInv, CallFits
<1>6. NotifiedOnce' /\ Reported'
  BY <1>3 DEF IInv, NotifiedOnce, Reported
<1>7. CallFits'
  BY <1>0, <1>3, <1>4, <1>5 DEF CallFits
<1>8. hw.fabric \in Before => hw'.ready \in {<<>>, <<"cm">>}
  <2>1. Tail(<<"cm">>) = <<>>
    OBVIOUS
  <2>2. hw.fabric \in Before => hw.ready \in {<<>>, <<"cm">>}
    BY DEF IInv, NothingBefore
  <2> QED
    BY <1>0, <1>3, <2>1, <2>2
<1> QED
  BY <1>0, <1>1, <1>3, <1>4, <1>6, <1>7, <1>8, HardwareKeeps

\* epoll_wait takes every edge, connRdmaHandleCq an event of the channel.
LEMMA EdgesKeep ==
    ASSUME IInv, EpollWait \/ HandleCq
    PROVE  IInv'
<1>0. /\ op' = op /\ err' = err /\ flags' = flags /\ res' = res /\ tx' = tx
      /\ UNCHANGED <<rx, tx, slots, fed, net, srv>>
  BY DEF EpollWait, HandleCq
<1>1. /\ hw \in HwType /\ flags \in FlagsType /\ err \in {"none", "other", "io", "eof"}
      /\ op \in {"none", "connect", "read", "write", "closed", "crashed"}
      /\ wait \in {"none", "epoll", "batch", "poll", "cm"}
      /\ hw.chan \in Nat /\ hw.ready \in Seq({"cm", "comp", "ev"})
  BY TypeFacts DEF IInv, Typed
<1>2. op \in {"read", "write"}
  BY <1>1 DEF IInv, CallFits, EpollWait, HandleCq
<1>3. CallFits /\ hw.fabric \in {"up", "down"}
  BY <1>2 DEF IInv, CallFits
<1>4. /\ hw' \in HwType /\ hw'.cq = hw.cq /\ hw'.cmq = hw.cmq /\ hw'.fabric = hw.fabric
      /\ wait' \in {"none", "epoll", "batch", "poll", "cm"}
      /\ NotifiedOnce'
  <2>1. CASE EpollWait
    <3>1. /\ <<>> \in Seq({"cm", "comp", "ev"}) /\ hw' = [hw EXCEPT !.ready = <<>>]
          /\ wait' = "batch"
      BY <2>1 DEF EpollWait
    <3> QED
      BY <1>1, <3>1 DEF HwType, IInv, NotifiedOnce
  <2>2. CASE HandleCq
    <3>1. CASE hw.chan = 0
      <4>1. hw' = hw /\ wait' = wait
        BY <2>2, <3>1 DEF HandleCq
      <4> QED
        BY <1>1, <4>1 DEF IInv, NotifiedOnce
    <3>2. CASE hw.chan # 0
      <4>1. hw' = [hw EXCEPT !.chan = @ - 1, !.armed = TRUE] /\ wait' = "poll"
        BY <2>2, <3>2 DEF HandleCq
      <4>2. hw.chan - 1 = 0
        BY <3>2 DEF IInv, NotifiedOnce
      <4>3. hw' = [hw EXCEPT !.chan = 0, !.armed = TRUE]
        BY <4>1, <4>2
      <4>4. /\ hw' \in HwType /\ hw'.cq = hw.cq /\ hw'.cmq = hw.cmq /\ hw'.fabric = hw.fabric
            /\ hw'.chan = 0
        BY <1>1, <4>3 DEF HwType
      <4> QED
        BY <4>1, <4>4 DEF NotifiedOnce
    <3> QED
      BY <3>1, <3>2
  <2> QED
    BY <2>1, <2>2
<1>5. Reported'
  BY <1>4 DEF IInv, Reported
<1>6. CallFits'
  BY <1>0, <1>2, <1>3, <1>4 DEF CallFits
<1>7. hw'.fabric \notin Before
  BY <1>3, <1>4 DEF Before
<1> QED
  BY <1>0, <1>1, <1>3, <1>4, <1>5, <1>6, <1>7, HardwareKeeps

-----------------------------------------------------------------------------
(* Events of the connection manager *)

\* What valkeyRdmaCM can find, and in which state of the connection.
LEMMA CmHead ==
    ASSUME IInv, wait = "cm", hw.cmq # <<>>, NEW e, e = Head(hw.cmq)
    PROVE  /\ e \in {"addr_resolved", "route_resolved"} =>
                op = "connect" /\ hw.fabric = "asked" /\ Tail(hw.cmq) = <<>>
           /\ e = "established" =>
                /\ op = "connect"
                /\ \/ hw.fabric = "up" /\ Tail(hw.cmq) = <<>>
                   \/ hw.fabric = "down" /\ Tail(hw.cmq) = <<"disconnected">>
           /\ e \in {"rejected", "disconnected"} =>
                hw.fabric \in {"asked", "down"} /\ Tail(hw.cmq) = <<>>
           /\ e = "removed" =>
                op = "connect" /\ hw.fabric = "down" /\ Tail(hw.cmq) = <<>>
           /\ op \in {"connect", "read", "write"}
<1>1. op \in {"connect", "read", "write"}
  BY DEF IInv, Typed, CallFits
<1>2. op # "connect" => hw.cmq = <<"disconnected">>
  BY <1>1 DEF IInv, CallFits
<1>3. hw.fabric \in {"none", "addr", "asked", "route", "conn", "up", "down"}
  BY TypeFacts DEF IInv, Before
<1>4. /\ hw.fabric \notin {"none", "addr", "route", "conn"}
      /\ hw.fabric = "asked" =>
            hw.cmq \in {<<"addr_resolved">>, <<"route_resolved">>, <<"rejected">>}
      /\ hw.fabric = "up" => hw.cmq = <<"established">>
      /\ hw.fabric = "down" =>
            hw.cmq \in {<<"rejected">>, <<"removed">>, <<"disconnected">>,
                        <<"established", "disconnected">>}
  BY <1>3 DEF IInv, Reported
<1>5. /\ Head(<<"addr_resolved">>) = "addr_resolved" /\ Tail(<<"addr_resolved">>) = <<>>
      /\ Head(<<"route_resolved">>) = "route_resolved" /\ Tail(<<"route_resolved">>) = <<>>
      /\ Head(<<"rejected">>) = "rejected" /\ Tail(<<"rejected">>) = <<>>
      /\ Head(<<"removed">>) = "removed" /\ Tail(<<"removed">>) = <<>>
      /\ Head(<<"established">>) = "established" /\ Tail(<<"established">>) = <<>>
      /\ Head(<<"disconnected">>) = "disconnected" /\ Tail(<<"disconnected">>) = <<>>
      /\ Head(<<"established", "disconnected">>) = "established"
      /\ Tail(<<"established", "disconnected">>) = <<"disconnected">>
  BY CmQueues DEF CmEvents
<1>6. op # "connect" => e = "disconnected"
  BY <1>2, <1>5
<1>7. CASE hw.fabric = "asked"
  BY <1>1, <1>4, <1>5, <1>6, <1>7
<1>8. CASE hw.fabric = "up"
  BY <1>1, <1>4, <1>5, <1>6, <1>8
<1>9. CASE hw.fabric = "down"
  BY <1>1, <1>4, <1>5, <1>6, <1>9
<1> QED
  BY <1>3, <1>4, <1>7, <1>8, <1>9

\* The address or the route was found, or could not be used.
LEMMA CmResolvedKeeps ==
    ASSUME IInv, wait = "cm", hw.cmq # <<>>, hw.fabric = "asked", op = "connect",
           Tail(hw.cmq) = <<>>, UNCHANGED <<op, wait, rx, tx, slots, fed, net, srv>>,
           err' \in {err, "other"}, NEW b \in BOOLEAN, flags' = [flags EXCEPT !.failed = b],
           \/ hw' = [hw EXCEPT !.cmq = Tail(@)]
           \/ hw' = [hw EXCEPT !.cmq = Tail(@), !.fabric = "route"]
           \/ hw' = [hw EXCEPT !.cmq = Tail(@), !.fabric = "conn", !.armed = TRUE]
    PROVE  IInv'
<1>0. /\ op' = op /\ wait' = wait /\ tx' = tx
      /\ UNCHANGED <<rx, tx, slots, fed, net, srv>>
  OBVIOUS
<1>1. hw \in HwType /\ flags \in FlagsType /\ err' \in {"none", "other", "io", "eof"}
  BY DEF IInv, Typed
<1>2. <<>> \in Seq(CmEvents)
  OBVIOUS
<1>3. /\ hw' \in HwType /\ hw'.cq = hw.cq /\ hw'.cmq = <<>> /\ hw'.chan = hw.chan
      /\ hw'.ready = hw.ready /\ hw'.fabric \in {"asked", "route", "conn"}
  <2>1. CASE hw' = [hw EXCEPT !.cmq = Tail(@)]
    BY <1>1, <1>2, <2>1 DEF HwType
  <2>2. CASE hw' = [hw EXCEPT !.cmq = Tail(@), !.fabric = "route"]
    BY <1>1, <1>2, <2>2 DEF HwType, Before
  <2>3. CASE hw' = [hw EXCEPT !.cmq = Tail(@), !.fabric = "conn", !.armed = TRUE]
    BY <1>1, <1>2, <2>3 DEF HwType, Before
  <2> QED
    BY <2>1, <2>2, <2>3
<1>4. flags' \in FlagsType /\ flags'.connected = flags.connected
  BY <1>1 DEF FlagsType
<1>5. /\ hw.chan = 0 /\ ~ flags.connected /\ hw.ready \in {<<>>, <<"cm">>}
      /\ hw.fabric \in Before
  BY DEF IInv, NothingBefore, Before
<1>6. NotifiedOnce'
  BY <1>3, <1>5 DEF NotifiedOnce
<1>7. Reported'
  BY <1>3 DEF Reported
<1>8. CallFits'
  BY <1>0, <1>3, <1>4, <1>5 DEF CallFits
<1> QED
  BY <1>0, <1>1, <1>3, <1>4, <1>5, <1>6, <1>7, <1>8, HardwareKeeps

\* The connection was refused, lost or removed.
LEMMA CmLostKeeps ==
    ASSUME IInv, wait = "cm", hw.cmq # <<>>, hw.fabric \in {"asked", "down"},
           op \in {"connect", "read", "write"},
           Tail(hw.cmq) = <<>>, UNCHANGED <<op, wait, res, rx, tx, slots, fed, net, srv>>,
           err' \in {err, "other"}, flags' \in FlagsType,
           flags'.connected => flags.connected,
           \/ flags'.failed = flags.failed /\ ~ flags'.connected
           \/ op = "connect" /\ flags'.failed = TRUE /\ ~ flags.connected,
           hw' = [hw EXCEPT !.cmq = Tail(@)]
    PROVE  IInv'
<1>0. /\ op' = op /\ wait' = wait /\ tx' = tx /\ res' = res
      /\ UNCHANGED <<rx, tx, slots, fed, net, srv>>
  OBVIOUS
<1>1. hw \in HwType /\ err' \in {"none", "other", "io", "eof"} /\ CallFits
  BY DEF IInv, Typed
<1>2. <<>> \in Seq(CmEvents)
  OBVIOUS
<1>3. /\ hw' \in HwType /\ hw'.cq = hw.cq /\ hw'.cmq = <<>> /\ hw'.chan = hw.chan
      /\ hw'.ready = hw.ready /\ hw'.fabric = hw.fabric /\ hw'.armed = hw.armed
  BY <1>1, <1>2 DEF HwType
<1>4. NotifiedOnce'
  BY <1>3 DEF IInv, NotifiedOnce
<1>5. Reported'
  BY <1>3 DEF Reported
<1>6. CallFits'
  <2>1. CASE op = "connect"
    BY <1>0, <1>1, <1>3, <2>1 DEF CallFits
  <2>2. CASE op \in {"read", "write"}
    BY <1>0, <1>1, <1>3, <2>2 DEF CallFits
  <2> QED
    BY <2>1, <2>2
<1>7. hw.fabric \in Before => hw.ready \in {<<>>, <<"cm">>}
  BY DEF IInv, NothingBefore
<1> QED
  BY <1>0, <1>1, <1>3, <1>4, <1>5, <1>6, <1>7, HardwareKeeps

\* connRdmaRegisterRx with everything read: there is a command slot, and the token
\* goes to the server.
LEMMA RegisterRxKeeps ==
    ASSUME Typed, TxInv, slots = Slots, connRdmaRegisterRx, tx' = tx, srv' = srv,
           hw'.cq = hw.cq, fed' \in Seq(Nat), \A i \in 1..Len(fed') : fed'[i] = i,
           srv.sent = Len(fed'), srv.off = srv.win,
           Lacks(hw.cq, "imm"), Lacks(net.toClient, "imm"), Lacks(hw.cq, "send"),
           Lacks(net.toServer, "reg")
    PROVE  /\ RxInv' /\ TxInv'
           /\ rx' \in RxType /\ slots' \in Nat /\ net' \in NetType /\ err' = err
<1>0. Slots \in Nat /\ slots # 0 /\ slots - 1 \in Nat
  BY RdmaAssumption
<1>1. /\ slots' = slots - 1
      /\ rx' = [rx EXCEPT !.rxo = 0, !.reco = 0]
      /\ net' = [net EXCEPT !.toServer = Append(@, RegMsg)]
      /\ err' = err
  BY <1>0 DEF connRdmaRegisterRx, RegMsg
<1>2. rx' \in RxType /\ rx'.rxo = 0 /\ rx'.reco = 0
  BY <1>1 DEF Typed, RxType
<1>3. RegMsg \in ToServerType /\ RegMsg.kind = "reg"
  BY DEF ToServerType, RegMsg
<1>4. PICK q \in Seq(ToServerType) : q = net.toServer
  BY TypeFacts
<1>5. Append(q, RegMsg) \in Seq(ToServerType)
  BY <1>3
<1>6. /\ net' \in NetType /\ net'.toServer = Append(q, RegMsg)
      /\ net'.toClient = net.toClient
  BY <1>1, <1>4, <1>5 DEF Typed, NetType
<1>7. HasOne(net'.toServer, "reg")
  BY <1>3, <1>4, <1>6, HasOneAdded
<1>8. NothingToRead'
  BY <1>2, <1>6 DEF NothingToRead
<1>9. RxInv'
  BY <1>0, <1>1, <1>7, <1>8 DEF RxAsked, RxInv
<1>10. Lacks(q, "imm") => Lacks(net'.toServer, "imm")
  BY <1>3, <1>6, LacksAppend
<1>11. AllArrived => AllArrived'
  BY <1>4, <1>10 DEF AllArrived
<1>12. TxWithheld => TxWithheld'
  BY <1>6, <1>11 DEF TxWithheld
<1>13. TxGranted => TxGranted'
  BY <1>6, <1>11 DEF TxGranted
<1>14. ASSUME TxOpen PROVE TxOpen'
  <2>1. PICK lo \in 0..(TxLen - 1) :
            /\ Len(srv.got) = tx.total - tx.off + lo
            /\ OnTheWay(q, lo, tx.off, tx.total - tx.off)
    BY <1>4, <1>14 DEF TxOpen
  <2>2. OnTheWay(Append(q, RegMsg), lo, tx.off, tx.total - tx.off)
    BY <1>3, <2>1, OnTheWaySent
  <2> QED
    BY <1>6, <1>14, <2>1, <2>2 DEF TxOpen
<1>15. TxInv'
  BY <1>6, <1>12, <1>13, <1>14 DEF TxInv
<1> QED
  BY <1>0, <1>1, <1>2, <1>6, <1>9, <1>15

\* valkeyRdmaEstablished.
LEMMA CmEstablishedKeeps ==
    ASSUME IInv, wait = "cm", hw.cmq # <<>>, Head(hw.cmq) = "established",
           flags' = [connected |-> TRUE, failed |-> FALSE],
           hw' = [hw EXCEPT !.cmq = Tail(@)], connRdmaRegisterRx,
           UNCHANGED <<op, wait, tx, fed, srv>>
    PROVE  IInv'
<1>0. op' = op /\ wait' = wait /\ tx' = tx /\ fed' = fed /\ srv' = srv
  OBVIOUS
<1>1. /\ op = "connect"
      /\ \/ hw.fabric = "up" /\ Tail(hw.cmq) = <<>>
         \/ hw.fabric = "down" /\ Tail(hw.cmq) = <<"disconnected">>
  BY CmHead
<1>2. RxIdle
  BY DEF IInv, NothingBefore
<1>3. hw \in HwType /\ err \in {"none", "other", "io", "eof"} /\ fed \in Seq(Nat)
  BY DEF IInv, Typed
<1>4. <<>> \in Seq(CmEvents) /\ <<"disconnected">> \in Seq(CmEvents)
  BY DEF CmEvents
<1>5. /\ hw' \in HwType /\ hw'.cq = hw.cq /\ hw'.cmq = Tail(hw.cmq) /\ hw'.chan = hw.chan
      /\ hw'.ready = hw.ready /\ hw'.fabric = hw.fabric /\ hw'.armed = hw.armed
  <2>1. Tail(hw.cmq) \in Seq(CmEvents)
    BY <1>1, <1>4
  <2> QED
    BY <1>3, <2>1 DEF HwType
<1>6. /\ RxInv' /\ TxInv'
      /\ rx' \in RxType /\ slots' \in Nat /\ net' \in NetType /\ err' = err
  <2>1. /\ slots = Slots /\ fed' \in Seq(Nat) /\ \A i \in 1..Len(fed') : fed'[i] = i
        /\ srv.sent = Len(fed') /\ srv.off = srv.win
        /\ Lacks(hw.cq, "imm") /\ Lacks(net.toClient, "imm") /\ Lacks(hw.cq, "send")
        /\ Lacks(net.toServer, "reg")
    BY <1>0, <1>2, <1>3 DEF IInv, RxInv, RxIdle, NothingToRead
  <2> QED
    BY <1>0, <1>5, <2>1, RegisterRxKeeps DEF IInv
<1>7. flags' \in FlagsType /\ flags'.connected = TRUE /\ flags'.failed = FALSE
  BY DEF FlagsType
<1>8. Typed'
  BY <1>0, <1>3, <1>5, <1>6, <1>7 DEF IInv, Typed
<1>9. NotifiedOnce'
  BY <1>5 DEF IInv, NotifiedOnce
<1>10. Reported'
  BY <1>1, <1>5 DEF Reported
<1>11. NothingBefore'
  <2>1. hw'.fabric \notin Before
    BY <1>1, <1>5 DEF Before
  <2>2. ~ (hw'.cmq # <<>> /\ Head(hw'.cmq) = "established")
    BY <1>1, <1>5, CmQueues, ZenonT(40) DEF CmEvents
  <2>3. hw'.fabric = "down" => ~ srv'.up
    BY <1>0, <1>5 DEF IInv, NothingBefore
  <2> QED
    BY <2>1, <2>2, <2>3 DEF NothingBefore
<1>12. CallFits'
  BY <1>0, <1>1, <1>5, <1>7 DEF CallFits
<1> QED
  BY <1>6, <1>8, <1>9, <1>10, <1>11, <1>12 DEF IInv

\* One event inside of valkeyRdmaCM.
LEMMA CmEventKeeps ==
    ASSUME IInv, CmEvent
    PROVE  IInv'
<1>0. /\ wait = "cm" /\ hw.cmq # <<>>
      /\ op' = op /\ wait' = wait /\ tx' = tx /\ fed' = fed /\ srv' = srv
      /\ UNCHANGED <<op, wait, tx, fed, srv>>
  BY DEF CmEvent
<1> DEFINE e == Head(hw.cmq)
           h == [hw EXCEPT !.cmq = Tail(@)]
<1>1. hw \in HwType /\ flags \in FlagsType
  BY DEF IInv, Typed
<1>2. CASE /\ e = "addr_resolved"
           /\ \/ /\ flags' = [flags EXCEPT !.failed = FALSE]
                 /\ hw' = [h EXCEPT !.fabric = "route"]
                 /\ UNCHANGED err
              \/ err' = "other" /\ hw' = h /\ flags' = [flags EXCEPT !.failed = TRUE]
           /\ UNCHANGED <<res, rx, slots, net>>
  <2>1. op = "connect" /\ hw.fabric = "asked" /\ Tail(hw.cmq) = <<>>
    BY <1>0, <1>2, CmHead
  <2>2. [h EXCEPT !.fabric = "route"] = [hw EXCEPT !.cmq = Tail(@), !.fabric = "route"]
    BY <1>1 DEF HwType
  <2> QED
    BY <1>0, <1>2, <2>1, <2>2, CmResolvedKeeps
<1>3. CASE /\ e = "route_resolved"
           /\ \/ /\ flags' = [flags EXCEPT !.failed = FALSE]
                 /\ res' = res \cup VerbsResources
                 /\ hw' = [h EXCEPT !.fabric = "conn", !.armed = TRUE]
                 /\ UNCHANGED err
              \/ /\ err' = "other" /\ flags' = [flags EXCEPT !.failed = TRUE]
                 /\ hw' = h /\ UNCHANGED res
           /\ UNCHANGED <<rx, slots, net>>
  <2>1. op = "connect" /\ hw.fabric = "asked" /\ Tail(hw.cmq) = <<>>
    BY <1>0, <1>3, CmHead
  <2>2. [h EXCEPT !.fabric = "conn", !.armed = TRUE]
          = [hw EXCEPT !.cmq = Tail(@), !.fabric = "conn", !.armed = TRUE]
    BY <1>1 DEF HwType
  <2> QED
    BY <1>0, <1>3, <2>1, <2>2, CmResolvedKeeps
<1>4. CASE /\ e = "established"
           /\ flags' = [connected |-> TRUE, failed |-> FALSE]
           /\ hw' = h
           /\ connRdmaRegisterRx
           /\ UNCHANGED res
  BY <1>0, <1>4, CmEstablishedKeeps
<1>5. CASE /\ e \in {"rejected", "disconnected"}
           /\ flags' = [flags EXCEPT !.connected = FALSE]
           /\ hw' = h
           /\ UNCHANGED <<err, res, rx, slots, net>>
  <2>1. /\ hw.fabric \in {"asked", "down"} /\ Tail(hw.cmq) = <<>>
        /\ op \in {"connect", "read", "write"}
    BY <1>0, <1>5, CmHead
  <2>2. flags' \in FlagsType /\ flags'.failed = flags.failed /\ flags'.connected = FALSE
    BY <1>1, <1>5 DEF FlagsType
  <2> QED
    BY <1>0, <1>5, <2>1, <2>2, CmLostKeeps
<1>6. CASE /\ e = "removed"
           /\ err' = "other"
           /\ flags' = [flags EXCEPT !.failed = @ \/ op = "connect"]
           /\ hw' = h
           /\ UNCHANGED <<res, rx, slots, net>>
  <2>1. op = "connect" /\ hw.fabric = "down" /\ Tail(hw.cmq) = <<>>
    BY <1>0, <1>6, CmHead
  <2>2. flags' \in FlagsType /\ flags'.failed = TRUE /\ flags'.connected = flags.connected
    <3>1. flags' = [flags EXCEPT !.failed = TRUE]
      BY <1>1, <1>6, <2>1 DEF FlagsType
    <3> QED
      BY <1>1, <3>1 DEF FlagsType
  <2>3. ~ flags.connected
    <3>1. flags.connected => hw.cmq \in {<<>>, <<"disconnected">>}
      BY <2>1 DEF IInv, CallFits
    <3> QED
      BY <1>0, <1>6, <3>1, CmQueues DEF CmEvents
  <2> QED
    BY <1>0, <1>6, <2>1, <2>2, <2>3, CmLostKeeps
<1> QED
  BY <1>2, <1>3, <1>4, <1>5, <1>6 DEF CmEvent

\* The connection manager reports an event; the descriptor is ready then.
LEMMA CmRaised ==
    ASSUME hw \in HwType, NEW x \in Before \cup {"up", "down"}, NEW e \in CmEvents,
           hw' = CmEventRaised([hw EXCEPT !.fabric = x], e)
    PROVE  /\ hw' \in HwType /\ hw'.cq = hw.cq /\ hw'.cmq = Append(hw.cmq, e)
           /\ hw'.chan = hw.chan /\ hw'.armed = hw.armed /\ hw'.fabric = x
           /\ hw.ready \in {<<>>, <<"cm">>} => hw'.ready = <<"cm">>
<1> DEFINE h == [hw EXCEPT !.fabric = x]
           q == Append(hw.cmq, e)
           k == [h EXCEPT !.cmq = q]
<1>1. /\ h \in HwType /\ h.cq = hw.cq /\ h.cmq = hw.cmq /\ h.chan = hw.chan
      /\ h.armed = hw.armed /\ h.ready = hw.ready /\ h.fabric = x
  BY DEF HwType
<1>2. hw' = Raise([h EXCEPT !.cmq = Append(h.cmq, e)], "cm")
  BY DEF CmEventRaised
<1>3. hw' = Raise(k, "cm")
  BY <1>1, <1>2
<1> HIDE DEF h
<1>4. q \in Seq(CmEvents)
  BY <1>1 DEF HwType
<1> HIDE DEF q
<1>5. /\ k \in HwType /\ k.cq = hw.cq /\ k.cmq = q /\ k.chan = hw.chan
      /\ k.armed = hw.armed /\ k.ready = hw.ready /\ k.fabric = x
  BY <1>1, <1>4 DEF HwType
<1> HIDE DEF k
<1>6. CASE InSeq(k.ready, "cm")
  <2>1. hw' = k
    BY <1>3, <1>6 DEF Raise
  <2>2. hw.ready # <<>>
    BY <1>5, <1>6 DEF InSeq
  <2> QED
    BY <1>5, <2>1, <2>2 DEF q
<1>7. CASE ~ InSeq(k.ready, "cm")
  <2>1. hw' = [k EXCEPT !.ready = Append(@, "cm")]
    BY <1>3, <1>7 DEF Raise
  <2>2. k.ready \in Seq({"cm", "comp", "ev"})
    BY <1>5 DEF HwType
  <2>3. Append(k.ready, "cm") \in Seq({"cm", "comp", "ev"})
    BY <2>2
  <2>4. /\ hw' \in HwType /\ hw'.cq = hw.cq /\ hw'.cmq = q /\ hw'.chan = hw.chan
        /\ hw'.armed = hw.armed /\ hw'.fabric = x /\ hw'.ready = Append(k.ready, "cm")
    BY <1>5, <2>1, <2>3 DEF HwType
  <2>5. InSeq(<<"cm">>, "cm") /\ Append(<<>>, "cm") = <<"cm">>
    BY DEF InSeq
  <2>6. hw.ready # <<"cm">>
    BY <1>5, <1>7, <2>5
  <2> QED
    BY <1>5, <2>4, <2>5, <2>6 DEF q
<1> QED
  BY <1>6, <1>7

\* The connection manager goes on with connecting.
LEMMA FabricConnectingKeeps ==
    ASSUME IInv, hw.fabric \in {"addr", "route", "conn"},
           NEW x, NEW e \in CmEvents, hw' = CmEventRaised([hw EXCEPT !.fabric = x], e),
           \/ x = "asked" /\ hw.fabric = "addr" /\ e \in {"addr_resolved", "rejected"}
           \/ x = "asked" /\ hw.fabric = "route" /\ e \in {"route_resolved", "rejected"}
           \/ x = "down" /\ e \in {"rejected", "removed"},
           UNCHANGED <<ctl, rx, tx, slots, fed, net, srv>>
    PROVE  IInv'
<1>0. /\ op' = op /\ wait' = wait /\ err' = err /\ flags' = flags /\ res' = res
      /\ rx' = rx /\ tx' = tx /\ slots' = slots /\ fed' = fed /\ net' = net /\ srv' = srv
  BY DEF ctl
<1>1. hw \in HwType /\ x \in Before \cup {"up", "down"}
  BY DEF IInv, Typed, Before
<1>2. /\ hw' \in HwType /\ hw'.cq = hw.cq /\ hw'.cmq = Append(hw.cmq, e)
      /\ hw'.chan = hw.chan /\ hw'.armed = hw.armed /\ hw'.fabric = x
      /\ hw.ready \in {<<>>, <<"cm">>} => hw'.ready = <<"cm">>
  BY <1>1, CmRaised
<1>3. hw.cmq = <<>>
  BY DEF IInv, Reported
<1>4. hw'.cmq = <<e>> /\ Head(<<e>>) = e
  BY <1>2, <1>3, CmQueues
<1>5. /\ hw.fabric \in Before /\ hw.ready \in {<<>>, <<"cm">>} /\ ~ flags.connected
      /\ hw.chan = 0 /\ ~ srv.up
  BY DEF IInv, NothingBefore, Before
<1>6. Typed'
  BY <1>0, <1>2 DEF IInv, Typed
<1>7. RxInv' /\ TxInv' /\ (RxIdle => RxIdle') /\ (TxWithheld => TxWithheld')
  BY <1>0, <1>2, StreamsStill DEF IInv
<1>8. NotifiedOnce'
  BY <1>2 DEF IInv, NotifiedOnce
<1>9. Reported'
  BY <1>2, <1>4 DEF Reported
<1>10. NothingBefore'
  <2>1. e # "established"
    OBVIOUS
  <2>2. /\ hw'.ready \in {<<>>, <<"cm">>}
        /\ net'.toClient = <<>> /\ net'.toServer = <<>> /\ hw'.cq = <<>>
        /\ RxIdle' /\ TxWithheld' /\ ~ srv'.mustRegister /\ ~ srv'.up
        /\ hw'.chan = 0 /\ ~ flags'.connected
    BY <1>0, <1>2, <1>5, <1>7 DEF IInv, NothingBefore
  <2> QED
    BY <1>4, <2>1, <2>2 DEF NothingBefore
<1>11. CallFits'
  <2>1. /\ op \in {"none", "connect", "closed", "crashed"}
        /\ op \in {"none", "closed"} => flags.failed
        /\ ~ (op = "connect" /\ wait = "none")
    BY DEF IInv, Typed, CallFits
  <2>2. hw'.fabric # "up"
    BY <1>2
  <2> QED
    BY <1>0, <1>5, <2>1, <2>2 DEF IInv, CallFits
<1> QED
  BY <1>6, <1>7, <1>8, <1>9, <1>10, <1>11 DEF IInv

\* The connection comes up: the server holds both tokens' worth of nothing yet, and has
\* to register its buffer.
LEMMA FabricUpKeeps ==
    ASSUME IInv, hw.fabric = "conn",
           hw' = CmEventRaised([hw EXCEPT !.fabric = "up"], "established"),
           srv' = [srv EXCEPT !.up = TRUE, !.mustRegister = TRUE],
           UNCHANGED <<ctl, rx, tx, slots, fed, net>>
    PROVE  IInv'
<1>0. /\ op' = op /\ wait' = wait /\ err' = err /\ flags' = flags /\ res' = res
      /\ rx' = rx /\ tx' = tx /\ slots' = slots /\ fed' = fed /\ net' = net
  BY DEF ctl
<1>1. hw \in HwType /\ srv \in SrvType /\ "established" \in CmEvents
  BY DEF IInv, Typed, CmEvents
<1>2. /\ hw' \in HwType /\ hw'.cq = hw.cq /\ hw'.cmq = Append(hw.cmq, "established")
      /\ hw'.chan = hw.chan /\ hw'.armed = hw.armed /\ hw'.fabric = "up"
      /\ hw.ready \in {<<>>, <<"cm">>} => hw'.ready = <<"cm">>
  BY <1>1, CmRaised
<1>3. /\ srv' \in SrvType /\ srv'.up = TRUE /\ srv'.mustRegister = TRUE
      /\ srv'.win = srv.win /\ srv'.off = srv.off /\ srv'.sent = srv.sent
      /\ srv'.got = srv.got
  BY <1>1 DEF SrvType
<1>4. hw.cmq = <<>>
  BY DEF IInv, Reported
<1>5. hw'.cmq = <<"established">>
  BY <1>1, <1>2, <1>4, CmQueues
<1>6. /\ hw.ready \in {<<>>, <<"cm">>} /\ ~ flags.connected /\ RxIdle /\ TxWithheld
      /\ hw.chan = 0
  BY DEF IInv, NothingBefore, Before
<1>7. hw'.ready # <<>> /\ Head(hw'.ready) = "cm"
  <2>1. <<"cm">> # <<>> /\ Head(<<"cm">>) = "cm"
    OBVIOUS
  <2> QED
    BY <1>2, <1>6, <2>1
<1>8. Typed'
  BY <1>0, <1>2, <1>3 DEF IInv, Typed
<1>9. RxIdle'
  BY <1>0, <1>2, <1>3, <1>6 DEF RxIdle, NothingToRead
<1>10. RxInv'
  BY <1>0, <1>9 DEF IInv, RxInv
<1>11. TxWithheld'
  BY <1>0, <1>2, <1>3, <1>6 DEF TxWithheld, AllArrived
<1>12. TxInv'
  BY <1>0, <1>2, <1>3, <1>11 DEF IInv, TxInv
<1>13. NotifiedOnce'
  BY <1>2 DEF IInv, NotifiedOnce
<1>14. Reported'
  BY <1>2, <1>5 DEF Reported
<1>15. NothingBefore'
  BY <1>2, <1>9 DEF NothingBefore, Before
<1>16. CallFits'
  <2>1. /\ op \in {"none", "connect", "closed", "crashed"}
        /\ op \in {"none", "closed"} => flags.failed
        /\ ~ (op = "connect" /\ wait = "none")
    BY DEF IInv, Typed, CallFits
  <2> QED
    BY <1>0, <1>2, <1>5, <1>6, <1>7, <2>1 DEF IInv, CallFits
<1> QED
  BY <1>8, <1>10, <1>12, <1>13, <1>14, <1>15, <1>16 DEF IInv

\* The connection is lost.
LEMMA FabricDownKeeps ==
    ASSUME IInv, hw.fabric = "up",
           hw' = CmEventRaised([hw EXCEPT !.fabric = "down"], "disconnected"),
           srv' = [srv EXCEPT !.up = FALSE],
           UNCHANGED <<ctl, rx, tx, slots, fed, net>>
    PROVE  IInv'
<1>0. /\ op' = op /\ wait' = wait /\ err' = err /\ flags' = flags /\ res' = res
      /\ rx' = rx /\ tx' = tx /\ slots' = slots /\ fed' = fed /\ net' = net
  BY DEF ctl
<1>1. /\ hw \in HwType /\ srv \in SrvType
      /\ "established" \in CmEvents /\ "disconnected" \in CmEvents
  BY DEF IInv, Typed, CmEvents
<1>2. /\ hw' \in HwType /\ hw'.cq = hw.cq /\ hw'.cmq = Append(hw.cmq, "disconnected")
      /\ hw'.chan = hw.chan /\ hw'.armed = hw.armed /\ hw'.fabric = "down"
  BY <1>1, CmRaised
<1>3. /\ srv' \in SrvType /\ srv'.up = FALSE /\ srv'.mustRegister = srv.mustRegister
      /\ srv'.win = srv.win /\ srv'.off = srv.off /\ srv'.sent = srv.sent
      /\ srv'.got = srv.got
  BY <1>1 DEF SrvType
<1>4. hw.cmq = <<>> \/ hw.cmq = <<"established">>
  BY DEF IInv, Reported
<1>5. \/ hw.cmq = <<>> /\ hw'.cmq = <<"disconnected">>
      \/ hw.cmq = <<"established">> /\ hw'.cmq = <<"established", "disconnected">>
  BY <1>1, <1>2, <1>4, CmQueues
<1>6. Typed'
  BY <1>0, <1>2, <1>3 DEF IInv, Typed
<1>7. RxInv' /\ TxInv' /\ (RxIdle => RxIdle') /\ (TxWithheld => TxWithheld')
  BY <1>0, <1>2, <1>3, StreamsStill DEF IInv
<1>8. NotifiedOnce'
  BY <1>2 DEF IInv, NotifiedOnce
<1>9. Reported'
  BY <1>2, <1>5 DEF Reported
<1>10. NothingBefore'
  <2>1. hw'.cmq # <<>> /\ Head(hw'.cmq) = "established" => hw.cmq = <<"established">>
    BY <1>1, <1>5, CmQueues
  <2>2. hw.cmq = <<"established">> => RxIdle
    BY <1>1, CmQueues DEF IInv, NothingBefore
  <2> QED
    BY <1>2, <1>3, <1>7, <2>1, <2>2 DEF NothingBefore, Before
<1>11. CallFits'
  <2>1. CallFits
    BY DEF IInv
  <2>2. CASE hw.cmq = <<>>
    <3>1. hw'.cmq = <<"disconnected">>
      BY <1>1, <1>5, <2>2, CmQueues
    <3> QED
      BY <1>0, <1>2, <2>1, <3>1 DEF CallFits
  <2>3. CASE hw.cmq = <<"established">>
    <3>1. hw.cmq # <<>> /\ hw.cmq # <<"disconnected">>
      BY <1>1, <2>3, CmQueues
    <3> QED
      BY <1>0, <1>2, <2>1, <3>1 DEF CallFits
  <2> QED
    BY <1>4, <2>2, <2>3
<1> QED
  BY <1>6, <1>7, <1>8, <1>9, <1>10, <1>11 DEF IInv

\* FabricAnswers is one of these.
LEMMA FabricAnswersKeeps ==
    ASSUME IInv, FabricAnswers
    PROVE  IInv'
<1>0. UNCHANGED <<ctl, rx, tx, slots, fed, net>>
  BY DEF FabricAnswers
<1>1. CASE /\ hw.fabric = "addr"
           /\ \E e \in {"addr_resolved", "rejected"} :
                 hw' = CmEventRaised([hw EXCEPT !.fabric = "asked"], e)
           /\ UNCHANGED srv
  BY <1>0, <1>1, FabricConnectingKeeps DEF CmEvents
<1>2. CASE /\ hw.fabric = "route"
           /\ \E e \in {"route_resolved", "rejected"} :
                 hw' = CmEventRaised([hw EXCEPT !.fabric = "asked"], e)
           /\ UNCHANGED srv
  BY <1>0, <1>2, FabricConnectingKeeps DEF CmEvents
<1>3. CASE /\ hw.fabric = "conn"
           /\ \E e \in {"rejected", "removed"} :
                 hw' = CmEventRaised([hw EXCEPT !.fabric = "down"], e)
           /\ UNCHANGED srv
  BY <1>0, <1>3, FabricConnectingKeeps DEF CmEvents
<1>4. CASE /\ hw.fabric = "conn"
           /\ hw' = CmEventRaised([hw EXCEPT !.fabric = "up"], "established")
           /\ srv' = [srv EXCEPT !.up = TRUE, !.mustRegister = TRUE]
  BY <1>0, <1>4, FabricUpKeeps
<1>5. CASE /\ hw.fabric = "up"
           /\ hw' = CmEventRaised([hw EXCEPT !.fabric = "down"], "disconnected")
           /\ srv' = [srv EXCEPT !.up = FALSE]
  BY <1>0, <1>5, FabricDownKeeps
<1> QED
  BY <1>1, <1>2, <1>3, <1>4, <1>5 DEF FabricAnswers

-----------------------------------------------------------------------------
(* Bytes and tokens move *)

\* Once the connection is up, a step on the streams does not disturb the rest.
LEMMA ControlStill ==
    ASSUME IInv, Typed', RxInv', TxInv', NotifiedOnce',
           wait' = wait, flags' = flags, res' = res,
           op' = op \/ (op \in {"read", "write"} /\ wait = "none" /\ op' = "none"),
           op' = "write" => tx'.todo > 0,
           hw.fabric \notin Before, hw'.fabric = hw.fabric, hw'.cmq = hw.cmq,
           srv'.up = srv.up,
           hw.ready # <<>> => hw'.ready # <<>> /\ Head(hw'.ready) = Head(hw.ready),
           \/ op # "connect" /\ ~ flags.failed
           \/ RxIdle => RxIdle'
    PROVE  IInv'
<1>1. CallFits /\ Reported /\ NothingBefore
  BY DEF IInv
<1>2. Reported'
  BY <1>1 DEF Reported
<1>3. CallFits'
  <2>1. CASE op' = op
    BY <1>1, <2>1 DEF CallFits
  <2>2. CASE op \in {"read", "write"} /\ wait = "none" /\ op' = "none"
    <3>1. hw.fabric \in {"up", "down"} /\ hw.cmq \in {<<>>, <<"disconnected">>} /\ ~ flags.failed
      BY <1>1, <2>2 DEF CallFits
    <3> QED
      BY <2>2, <3>1 DEF CallFits
  <2> QED
    BY <2>1, <2>2
<1>4. hw.cmq # <<>> /\ Head(hw.cmq) = "established" => RxIdle'
  <2>1. CASE op # "connect" /\ ~ flags.failed
    <3>1. hw.cmq \in {<<>>, <<"disconnected">>}
      BY <1>1, <2>1 DEF IInv, Typed, CallFits
    <3> QED
      BY <3>1, CmQueues DEF CmEvents
  <2>2. CASE RxIdle => RxIdle'
    BY <1>1, <2>2 DEF NothingBefore
  <2> QED
    BY <2>1, <2>2
<1>5. NothingBefore'
  BY <1>1, <1>4 DEF NothingBefore
<1> QED
  BY <1>2, <1>3, <1>5 DEF IInv

\* The stream to the client does not see what else is sent to the server.
LEMMA RxSame ==
    ASSUME rx' = rx, slots' = slots, fed' = fed, hw'.cq = hw.cq,
           net'.toClient = net.toClient,
           srv'.win = srv.win, srv'.off = srv.off, srv'.sent = srv.sent,
           Lacks(net.toServer, "reg") => Lacks(net'.toServer, "reg"),
           HasOne(net.toServer, "reg") => HasOne(net'.toServer, "reg")
    PROVE  (RxInv => RxInv') /\ (RxIdle => RxIdle')
<1>1. NothingToRead => NothingToRead'
  BY DEF NothingToRead
<1>2. RxIdle => RxIdle'
  BY <1>1 DEF RxIdle
<1>3. RxAsked => RxAsked'
  BY <1>1 DEF RxAsked
<1>4. RxOpen => RxOpen'
  BY DEF RxOpen
<1> QED
  BY <1>2, <1>3, <1>4 DEF RxInv

\* The stream to the server does not see which other completions and messages there
\* are.
LEMMA TxSame ==
    ASSUME tx'.len = tx.len, tx'.off = tx.off, tx'.total = tx.total,
           net'.toServer = net.toServer, srv'.got = srv.got,
           srv'.mustRegister = srv.mustRegister,
           Lacks(hw.cq, "reg") /\ Lacks(net.toClient, "reg") =>
              Lacks(hw'.cq, "reg") /\ Lacks(net'.toClient, "reg"),
           HasOne(hw.cq, "reg") /\ Lacks(net.toClient, "reg") =>
              HasOne(hw'.cq, "reg") /\ Lacks(net'.toClient, "reg"),
           Lacks(hw.cq, "reg") /\ HasOne(net.toClient, "reg") =>
              \/ Lacks(hw'.cq, "reg") /\ HasOne(net'.toClient, "reg")
              \/ HasOne(hw'.cq, "reg") /\ Lacks(net'.toClient, "reg"),
           \A i \in 1..Len(hw'.cq) : hw'.cq[i].kind = "reg" => hw'.cq[i].n = TxLen,
           \A i \in 1..Len(net'.toClient) : net'.toClient[i].kind = "reg" =>
              net'.toClient[i].n = TxLen /\ net'.toClient[i].bytes = <<>>
    PROVE  TxInv => TxInv'
<1>1. AllArrived => AllArrived'
  BY DEF AllArrived
<1>2. TxWithheld => TxWithheld'
  BY <1>1 DEF TxWithheld
<1>3. TxGranted => TxGranted'
  BY <1>1 DEF TxGranted
<1>4. TxOpen => TxOpen'
  BY DEF TxOpen
<1> QED
  BY <1>2, <1>3, <1>4 DEF TxInv

\* PollCq on the stream to the client: the head of the queue is a grant, unless the
\* server holds the client's buffer.
LEMMA PollCqRx ==
    ASSUME IInv, hw.cq # <<>>, NEW wc, wc = Head(hw.cq), hw'.cq = Tail(hw.cq),
           rx'.rxo = rx.rxo + Adds(wc), rx'.reco = rx.reco, rx'.buf = rx.buf,
           slots' = IF wc.kind = "send" THEN slots + 1 ELSE slots,
           fed' = fed, net' = net, srv' = srv
    PROVE  RxInv'
<1>0. hw.cq \in Seq(WcType) /\ net.toClient \in Seq(ToClientType) /\ rx.rxo \in Nat
  BY TypeFacts DEF IInv
<1>1. PICK c \in Seq(WcType) : c = hw.cq
  BY <1>0
<1>2. wc \in WcType /\ wc.kind \in {"reg", "imm", "send"} /\ wc.n \in Nat
  <2>1. wc \in WcType
    BY <1>1
  <2> QED
    BY <2>1 DEF WcType
<1>3. ASSUME NothingToRead PROVE NothingToRead' /\ slots' = slots
  <2>1. /\ Lacks(c, "imm") /\ Lacks(c, "send")
    BY <1>1, <1>3 DEF NothingToRead
  <2>2. /\ Lacks(Tail(c), "imm") /\ Lacks(Tail(c), "send")
        /\ wc.kind # "imm" /\ wc.kind # "send"
    BY <1>1, <2>1, LacksTail
  <2> QED
    BY <1>0, <1>1, <1>3, <2>2 DEF NothingToRead, Adds
<1>4. RxIdle => RxIdle'
  BY <1>3 DEF RxIdle
<1>5. RxAsked => RxAsked'
  BY <1>3 DEF RxAsked
<1>6. ASSUME RxOpen PROVE RxOpen'
  <2>1. InFlight(c, net.toClient, rx.buf, Len(fed) - rx.reco, rx.rxo, srv.off, slots)
    BY <1>1, <1>6 DEF RxOpen
  <2>2. InFlight(Tail(c), net.toClient, rx.buf, Len(fed) - rx.reco, rx'.rxo, srv.off, slots')
    BY <1>0, <1>1, <2>1, FlightPolled
  <2>3. Adds(wc) \in Nat
    BY <1>2 DEF Adds
  <2>4. rx.reco <= rx'.rxo
    <3>1. rx.reco <= rx.rxo /\ rx.reco \in Nat /\ rx.rxo \in Nat
      BY <1>6, TypeFacts DEF RxOpen, IInv
    <3>2. PICK k \in Nat : k = Adds(wc)
      BY <2>3
    <3> QED
      BY <3>1, <3>2
  <2> QED
    BY <1>1, <1>6, <2>2, <2>4 DEF RxOpen
<1> QED
  BY <1>4, <1>5, <1>6 DEF IInv, RxInv

\* PollCq on the stream to the server: a grant opens the server's buffer.
LEMMA PollCqTx ==
    ASSUME IInv, hw.cq # <<>>, NEW wc, wc = Head(hw.cq), hw'.cq = Tail(hw.cq),
           wc.kind # "reg" => tx' = tx,
           wc.kind = "reg" => tx' = [tx EXCEPT !.len = wc.n, !.off = 0],
           net' = net, srv' = srv
    PROVE  TxInv' /\ tx' \in TxType
<1>0. /\ hw.cq \in Seq(WcType) /\ net.toServer \in Seq(ToServerType) /\ tx \in TxType
      /\ TxLen \in Nat /\ TxLen > 0 /\ tx.total \in Nat
  BY TypeFacts, RdmaAssumption DEF IInv, Typed
<1>1. PICK c \in Seq(WcType) : c = hw.cq
  BY <1>0
<1>2. /\ \A i \in 1..Len(Tail(c)) : i + 1 \in 1..Len(c) /\ Tail(c)[i] = c[i + 1]
      /\ Head(c) = c[1] /\ 1 \in 1..Len(c)
  BY <1>1
<1>3. \A i \in 1..Len(hw'.cq) : hw'.cq[i].kind = "reg" => hw'.cq[i].n = TxLen
  BY <1>1, <1>2 DEF IInv, TxInv
<1>4. \A i \in 1..Len(net'.toClient) : net'.toClient[i].kind = "reg" =>
          net'.toClient[i].n = TxLen /\ net'.toClient[i].bytes = <<>>
  BY DEF IInv, TxInv
<1>5. CASE wc.kind # "reg"
  <2>1. /\ Lacks(c, "reg") => Lacks(Tail(c), "reg")
        /\ HasOne(c, "reg") => HasOne(Tail(c), "reg")
    BY <1>1, <1>5, LacksTail, HasOneTail
  <2>2. TxInv'
    BY <1>1, <1>3, <1>4, <1>5, <2>1, TxSame DEF IInv
  <2> QED
    BY <1>0, <1>5, <2>2
<1>6. CASE wc.kind = "reg"
  <2>1. wc.n = TxLen
    BY <1>1, <1>2, <1>6 DEF IInv, TxInv
  <2>2. ~ Lacks(c, "reg")
    BY <1>1, <1>2, <1>6 DEF Lacks
  <2>3. TxGranted /\ HasOne(c, "reg") /\ Lacks(net.toClient, "reg")
    BY <1>1, <2>2 DEF IInv, TxInv, TxWithheld, TxGranted, TxOpen
  <2>4. Lacks(Tail(c), "reg")
    BY <1>1, <1>6, <2>3, HasOneTail
  <2>5. AllArrived /\ ~ srv.mustRegister
    BY <2>3 DEF TxGranted
  <2>6. tx' \in TxType /\ tx'.len = TxLen /\ tx'.off = 0 /\ tx'.total = tx.total
    <3>1. tx' = [tx EXCEPT !.len = TxLen, !.off = 0]
      BY <1>6, <2>1
    <3>2. tx \in TxType /\ TxLen \in Nat
      BY <1>0
    <3> QED
      BY <3>1, <3>2 DEF TxType
  <2>7. OnTheWay(net.toServer, 0, 0, tx.total)
    BY <1>0, <2>5, OnTheWayOpened DEF AllArrived
  <2>8. /\ tx'.total - tx'.off = tx.total /\ tx'.total - tx'.off + 0 = tx.total
        /\ 0 \in 0..(TxLen - 1)
    BY <1>0, <2>6
  <2>9. TxOpen'
    BY <1>0, <1>1, <2>3, <2>4, <2>5, <2>6, <2>7, <2>8 DEF TxOpen, AllArrived
  <2>10. TxInv'
    BY <1>3, <1>4, <2>9 DEF IInv, TxInv
  <2> QED
    BY <2>6, <2>10
<1> QED
  BY <1>5, <1>6

\* PollCq takes one completion.
LEMMA PollCqKeeps ==
    ASSUME IInv, PollCq
    PROVE  IInv'
<1> DEFINE wc == Head(hw.cq)
<1>0. /\ wait = "poll" /\ hw.cq # <<>> /\ hw' = [hw EXCEPT !.cq = Tail(@)]
      /\ op' = op /\ wait' = wait /\ err' = err /\ flags' = flags /\ res' = res
      /\ fed' = fed /\ net' = net /\ srv' = srv
  BY DEF PollCq, ctl
<1>1. /\ hw \in HwType /\ rx \in RxType /\ tx \in TxType /\ slots \in Nat
      /\ hw.cq \in Seq(WcType) /\ rx.rxo \in Nat
  BY TypeFacts DEF IInv, Typed
<1>2. wc.kind \in {"reg", "imm", "send"} /\ wc.n \in Nat
  <2>1. wc \in WcType
    BY <1>0, <1>1
  <2> HIDE DEF wc
  <2> QED
    BY <2>1 DEF WcType
<1>3. Tail(hw.cq) \in Seq(WcType)
  BY <1>0, <1>1
<1>4. /\ hw' \in HwType /\ hw'.cq = Tail(hw.cq) /\ hw'.cmq = hw.cmq /\ hw'.chan = hw.chan
      /\ hw'.ready = hw.ready /\ hw'.fabric = hw.fabric /\ hw'.armed = hw.armed
  BY <1>0, <1>1, <1>3 DEF HwType
<1>5. \/ /\ wc.kind = "reg" /\ tx' = [tx EXCEPT !.len = wc.n, !.off = 0]
         /\ rx' = rx /\ slots' = slots
      \/ /\ wc.kind = "imm" /\ rx' = [rx EXCEPT !.rxo = @ + wc.n]
         /\ tx' = tx /\ slots' = slots
      \/ wc.kind = "send" /\ slots' = slots + 1 /\ rx' = rx /\ tx' = tx
  BY DEF PollCq, connRdmaHandleSend
<1> HIDE DEF wc
<1>6. /\ rx' \in RxType /\ slots' \in Nat
      /\ rx'.rxo = rx.rxo + Adds(wc) /\ rx'.reco = rx.reco /\ rx'.buf = rx.buf
      /\ slots' = IF wc.kind = "send" THEN slots + 1 ELSE slots
      /\ tx'.todo = tx.todo
  <2>1. CASE wc.kind = "imm"
    <3>1. rx' = [rx EXCEPT !.rxo = rx.rxo + wc.n] /\ tx' = tx /\ slots' = slots
      BY <1>5, <2>1
    <3>2. rx.rxo + wc.n \in Nat
      BY <1>1, <1>2
    <3>3. rx' \in RxType /\ rx'.rxo = rx.rxo + wc.n /\ rx'.reco = rx.reco /\ rx'.buf = rx.buf
      BY <1>1, <3>1, <3>2 DEF RxType
    <3> QED
      BY <1>1, <2>1, <3>1, <3>3 DEF Adds
  <2>2. CASE wc.kind = "reg"
    <3>1. tx'.todo = tx.todo /\ rx' = rx /\ slots' = slots
      BY <1>1, <1>5, <2>2 DEF TxType
    <3> QED
      BY <1>1, <2>2, <3>1 DEF Adds
  <2>3. CASE wc.kind = "send"
    BY <1>1, <1>5, <2>3 DEF Adds
  <2> QED
    BY <1>2, <2>1, <2>2, <2>3
<1>7. RxInv'
  BY <1>0, <1>4, <1>6, PollCqRx DEF wc
<1>8. TxInv' /\ tx' \in TxType
  BY <1>0, <1>4, <1>5, PollCqTx DEF wc
<1>9. Typed'
  BY <1>0, <1>4, <1>6, <1>8 DEF IInv, Typed
<1>10. NotifiedOnce'
  BY <1>4 DEF IInv, NotifiedOnce
<1>11. op \in {"read", "write"} /\ CallFits
  BY <1>0 DEF IInv, Typed, CallFits
<1>12. /\ hw.fabric \notin Before /\ ~ flags.failed
       /\ op = "write" => tx.todo > 0
  BY <1>11 DEF CallFits, Before
<1> QED
  BY <1>0, <1>4, <1>6, <1>7, <1>8, <1>9, <1>10, <1>11, <1>12, ControlStill

\* Numbers that go on where a sequence of numbers stopped.
LEMMA Continued ==
    ASSUME NEW g \in Seq(Nat), \A i \in 1..Len(g) : g[i] = i,
           NEW x \in Seq(Nat), \A i \in 1..Len(x) : x[i] = Len(g) + i
    PROVE  /\ g \o x \in Seq(Nat) /\ Len(g \o x) = Len(g) + Len(x)
           /\ \A i \in 1..Len(g \o x) : (g \o x)[i] = i
<1> DEFINE h == g \o x
<1>1. /\ h \in Seq(Nat) /\ Len(h) = Len(g) + Len(x) /\ Len(g) \in Nat /\ Len(x) \in Nat
      /\ \A i \in 1..Len(g) : h[i] = g[i]
      /\ \A i \in 1..Len(h) : i > Len(g) => h[i] = x[i - Len(g)]
  OBVIOUS
<1> HIDE DEF h
<1>2. ASSUME NEW i \in 1..Len(h) PROVE h[i] = i
  <2>1. CASE i <= Len(g)
    <3>1. i \in 1..Len(g)
      BY <1>1, <2>1
    <3> QED
      BY <1>1, <3>1
  <2>2. CASE i > Len(g)
    <3>1. PICK j \in 1..Len(x) : j = i - Len(g)
      BY <1>1, <2>2
    <3>2. h[i] = x[j] /\ x[j] = Len(g) + j
      BY <1>1, <2>2, <3>1
    <3> QED
      BY <1>1, <3>1, <3>2
  <2> QED
    BY <1>1, <2>1, <2>2
<1> QED
  BY <1>1, <1>2 DEF h

\* What a read takes from the buffer.
LEMMA Unread ==
    ASSUME NEW g \in Seq(Nat), \A i \in 1..Len(g) : g[i] = i,
           NEW lo \in Nat, NEW hi \in Nat, lo < hi, lo <= Len(g),
           NEW buf, \A i \in 1..hi : buf[i] = Len(g) - lo + i,
           NEW h, h = g \o [i \in 1..(hi - lo) |-> buf[lo + i]]
    PROVE  /\ h \in Seq(Nat) /\ Len(h) = Len(g) + (hi - lo)
           /\ \A i \in 1..Len(h) : h[i] = i
<1> DEFINE x == [i \in 1..(hi - lo) |-> buf[lo + i]]
<1>1. Len(g) \in Nat /\ hi - lo \in Nat
  OBVIOUS
<1>2. \A i \in 1..(hi - lo) : x[i] = Len(g) + i /\ x[i] \in Nat
  <2>1. SUFFICES ASSUME NEW i \in 1..(hi - lo) PROVE x[i] = Len(g) + i /\ x[i] \in Nat
    OBVIOUS
  <2>2. PICK j \in 1..hi : j = lo + i
    BY <1>1
  <2>3. x[i] = buf[j] /\ buf[j] = Len(g) - lo + j
    BY <2>2
  <2> QED
    BY <1>1, <2>2, <2>3
<1>3. x = [i \in 1..(hi - lo) |-> x[i]]
  OBVIOUS
<1>4. h = g \o x
  OBVIOUS
<1> HIDE DEF x
<1>5. x \in Seq(Nat) /\ Len(x) = hi - lo
  BY <1>1, <1>2, <1>3, SMTT(30)
<1> QED
  BY <1>1, <1>2, <1>4, <1>5, Continued

\* valkeyRdmaReadZC: the bytes up to rx_offset are the next ones of the stream; when
\* the buffer is used up the token goes back to the server.
LEMMA ReadKeeps ==
    ASSUME IInv, valkeyRdmaReadZC
    PROVE  IInv'
<1>0. /\ op = "read" /\ wait = "none" /\ flags' = flags /\ res' = res /\ tx' = tx /\ hw' = hw
      /\ srv' = srv /\ batch' = batch
  BY DEF valkeyRdmaReadZC
<1>1. /\ Typed /\ RxInv /\ TxInv /\ NotifiedOnce /\ CallFits
      /\ rx \in RxType /\ slots \in Nat /\ fed \in Seq(Nat) /\ Len(fed) \in Nat
      /\ net \in NetType /\ err \in {"none", "other", "io", "eof"}
  BY DEF IInv, Typed
<1>2. /\ rx.rxo \in Nat /\ rx.reco \in Nat /\ rx.buf \in [1..RxLen -> Nat]
      /\ hw.cq \in Seq(WcType) /\ net.toClient \in Seq(ToClientType)
      /\ srv.off \in Nat /\ srv.sent \in Nat
  BY <1>1, TypeFacts
<1>3. ~ flags.failed /\ hw.fabric \notin Before
  BY <1>0, <1>1 DEF CallFits, Before
<1>4. NotifiedOnce'
  BY <1>0, <1>1 DEF NotifiedOnce
<1>5. CASE rx.reco = rx.rxo /\ WaitAgain /\ UNCHANGED <<op, batch, err, rx, fed, slots, net>>
  <2>1. /\ UNCHANGED <<flags, rx, tx, slots, fed, hw, net, srv>> /\ op' = op /\ wait' = "epoll"
        /\ err' \in {"none", "other", "io", "eof"}
    BY <1>0, <1>1, <1>5 DEF WaitAgain
  <2> QED
    BY <1>0, <2>1, TransferKeeps
<1>6. CASE /\ rx.reco < rx.rxo
           /\ fed' = fed \o [i \in 1..(rx.rxo - rx.reco) |-> rx.buf[rx.reco + i]]
           /\ op' = "none"
           /\ IF Exhausted(rx) THEN connRdmaRegisterRx
              ELSE rx' = [rx EXCEPT !.reco = rx.rxo] /\ UNCHANGED <<err, slots, net>>
           /\ UNCHANGED <<wait, timed, batch>>
  <2>1. RxOpen
    BY <1>1, <1>2, <1>6 DEF RxInv, RxIdle, RxAsked, NothingToRead
  <2>2. PICK base : base = Len(fed) - rx.reco
    OBVIOUS
  <2>3. /\ InFlight(hw.cq, net.toClient, rx.buf, base, rx.rxo, srv.off, slots)
        /\ Lacks(net.toServer, "reg") /\ srv.win = RxLen /\ srv.off <= RxLen
        /\ rx.reco <= Len(fed) /\ srv.sent = Len(fed) - rx.reco + srv.off
    BY <2>1, <2>2 DEF RxOpen
  <2>4. /\ rx.rxo <= srv.off
        /\ \A i \in 1..rx.rxo : rx.buf[i] = base + i
    BY <1>2, <2>3, FlightFacts
  <2>5. \A i \in 1..Len(fed) : fed[i] = i
    BY <1>1 DEF RxInv
  <2>6. PICK lo \in Nat : lo = rx.reco
    BY <1>2
  <2>7. PICK hi \in Nat : hi = rx.rxo
    BY <1>2
  <2>8. PICK buf : buf = rx.buf
    OBVIOUS
  <2>9. PICK g \in Seq(Nat) : g = fed
    BY <1>1
  <2>10. PICK h : h = g \o [i \in 1..(hi - lo) |-> buf[lo + i]]
    OBVIOUS
  <2>11. fed' = h
    BY <1>6, <2>6, <2>7, <2>8, <2>9, <2>10
  <2>12. /\ lo < hi /\ lo <= Len(g)
         /\ \A i \in 1..hi : buf[i] = Len(g) - lo + i
         /\ \A i \in 1..Len(g) : g[i] = i
    BY <1>6, <2>2, <2>3, <2>4, <2>5, <2>6, <2>7, <2>8, <2>9
  <2>13. /\ h \in Seq(Nat) /\ Len(h) = Len(g) + (hi - lo)
         /\ \A i \in 1..Len(h) : h[i] = i
    BY <2>10, <2>12, Unread, SMTT(30)
  <2>14. /\ fed' \in Seq(Nat) /\ Len(fed') = Len(fed) + (rx.rxo - rx.reco)
         /\ \A i \in 1..Len(fed') : fed'[i] = i
    BY <2>6, <2>7, <2>9, <2>11, <2>13
  <2>15. CASE Exhausted(rx)
    <3>1. connRdmaRegisterRx /\ rx.rxo = RxLen
      BY <1>6, <2>15 DEF Exhausted
    <3>2. rx.rxo = srv.off /\ rx.rxo > 0
      BY <1>2, <1>6, <2>3, <2>4, <3>1, RdmaAssumption
    <3>3. /\ Lacks(hw.cq, "imm") /\ Lacks(net.toClient, "imm") /\ Lacks(hw.cq, "send")
          /\ slots = Slots
      <4>1. InFlight(hw.cq, net.toClient, rx.buf, base, rx.rxo, rx.rxo, slots)
        BY <2>3, <3>2
      <4> QED
        BY <1>2, <3>2, <4>1, FlightDrained
    <3>4. srv.sent = Len(fed') /\ srv.off = srv.win
      BY <1>1, <1>2, <2>3, <2>14, <3>1, <3>2
    <3>5. /\ RxInv' /\ TxInv'
          /\ rx' \in RxType /\ slots' \in Nat /\ net' \in NetType /\ err' = err
      BY <1>0, <1>1, <2>3, <2>14, <3>1, <3>3, <3>4, RegisterRxKeeps
    <3>6. Typed'
      BY <1>0, <1>1, <1>6, <2>14, <3>5 DEF Typed
    <3> QED
      BY <1>0, <1>3, <1>4, <1>6, <3>5, <3>6, ControlStill
  <2>16. CASE ~ Exhausted(rx)
    <3>1. rx' = [rx EXCEPT !.reco = rx.rxo] /\ err' = err /\ slots' = slots /\ net' = net
      BY <1>6, <2>16
    <3>2. rx' \in RxType /\ rx'.rxo = rx.rxo /\ rx'.reco = rx.rxo /\ rx'.buf = rx.buf
      BY <1>1, <1>2, <3>1 DEF RxType
    <3>3. Len(fed') - rx'.reco = base /\ rx'.reco <= Len(fed') /\ rx'.reco <= rx'.rxo
      BY <1>1, <1>2, <2>2, <2>3, <2>14, <3>2, SMTT(30)
    <3>4. RxOpen'
      BY <1>0, <2>2, <2>3, <3>1, <3>2, <3>3 DEF RxOpen
    <3>5. RxInv'
      BY <2>14, <3>4 DEF RxInv
    <3>6. TxInv'
      BY <1>0, <1>1, <3>1 DEF TxInv, TxWithheld, TxGranted, TxOpen, AllArrived
    <3>7. Typed'
      BY <1>0, <1>1, <1>6, <2>14, <3>1, <3>2 DEF Typed
    <3> QED
      BY <1>0, <1>3, <1>4, <1>6, <3>5, <3>6, <3>7, ControlStill
  <2> QED
    BY <2>15, <2>16
<1> QED
  BY <1>5, <1>6 DEF valkeyRdmaReadZC

\* A descriptor that becomes ready queues behind the ones that are.
SameButReady(k, h) ==
    /\ k \in HwType /\ k.cq = h.cq /\ k.cmq = h.cmq /\ k.chan = h.chan /\ k.armed = h.armed
    /\ k.fabric = h.fabric
    /\ h.ready # <<>> => k.ready # <<>> /\ Head(k.ready) = Head(h.ready)

\* Raise does that.
LEMMA RaiseKeeps ==
    ASSUME NEW h \in HwType, NEW fd \in {"cm", "comp", "ev"}, NEW k, k = Raise(h, fd)
    PROVE  SameButReady(k, h)
<1>1. CASE InSeq(h.ready, fd)
  <2>1. k = h
    BY <1>1 DEF Raise
  <2> QED
    BY <2>1 DEF SameButReady
<1>2. CASE ~ InSeq(h.ready, fd)
  <2>1. PICK r \in Seq({"cm", "comp", "ev"}) : r = h.ready
    BY DEF HwType
  <2>2. /\ Append(r, fd) \in Seq({"cm", "comp", "ev"})
        /\ r # <<>> => Append(r, fd) # <<>> /\ Head(Append(r, fd)) = Head(r)
    OBVIOUS
  <2>3. k = [h EXCEPT !.ready = Append(r, fd)]
    BY <1>2, <2>1 DEF Raise
  <2>4. PICK a \in Seq({"cm", "comp", "ev"}) : a = Append(r, fd)
    BY <2>2
  <2>5. k = [h EXCEPT !.ready = a]
    BY <2>3, <2>4
  <2>6. /\ k \in HwType /\ k.cq = h.cq /\ k.cmq = h.cmq /\ k.chan = h.chan /\ k.armed = h.armed
        /\ k.fabric = h.fabric /\ k.ready = a
    BY <2>5 DEF HwType
  <2> QED
    BY <2>1, <2>2, <2>4, <2>6 DEF SameButReady
<1> QED
  BY <1>1, <1>2

\* A completion is queued; the channel gets its event at most once.
LEMMA CompleteKeeps ==
    ASSUME hw \in HwType, NotifiedOnce, NEW wc \in WcType, hw' = Complete(hw, wc)
    PROVE  /\ hw' \in HwType /\ hw'.cq = Append(hw.cq, wc) /\ hw'.cmq = hw.cmq
           /\ hw'.fabric = hw.fabric /\ NotifiedOnce'
           /\ hw.ready # <<>> => hw'.ready # <<>> /\ Head(hw'.ready) = Head(hw.ready)
<1>1. PICK c \in Seq(WcType) : c = hw.cq
  BY DEF HwType
<1>2. PICK d \in Seq(WcType) : d = Append(c, wc)
  <2>1. Append(c, wc) \in Seq(WcType)
    OBVIOUS
  <2> QED
    BY <2>1
<1>3. PICK q : q = [hw EXCEPT !.cq = d]
  OBVIOUS
<1>4. /\ q \in HwType /\ q.cq = d /\ q.cmq = hw.cmq /\ q.chan = hw.chan /\ q.armed = hw.armed
      /\ q.fabric = hw.fabric /\ q.ready = hw.ready
  BY <1>3 DEF HwType
<1>5. hw' = IF hw.armed THEN Raise([q EXCEPT !.armed = FALSE, !.chan = @ + 1], "comp") ELSE q
  BY <1>1, <1>2, <1>3 DEF Complete
<1>6. CASE hw.armed
  <2>1. q.chan = 0
    BY <1>4, <1>6 DEF NotifiedOnce
  <2>2. PICK h : h = [q EXCEPT !.armed = FALSE, !.chan = 1]
    OBVIOUS
  <2>3. /\ h \in HwType /\ h.cq = d /\ h.cmq = hw.cmq /\ h.chan = 1 /\ h.armed = FALSE
        /\ h.fabric = hw.fabric /\ h.ready = hw.ready
    BY <1>4, <2>2 DEF HwType
  <2>4. hw' = Raise(h, "comp")
    <3>1. q.chan + 1 = 1
      BY <2>1
    <3>2. [q EXCEPT !.armed = FALSE, !.chan = @ + 1] = h
      BY <1>4, <2>2, <3>1 DEF HwType
    <3> QED
      BY <1>5, <1>6, <3>2
  <2>5. SameButReady(hw', h)
    BY <2>3, <2>4, RaiseKeeps
  <2> QED
    BY <1>1, <1>2, <2>3, <2>5 DEF SameButReady, NotifiedOnce
<1>7. CASE ~ hw.armed
  <2>1. hw' = q
    BY <1>5, <1>7
  <2> QED
    BY <1>1, <1>2, <1>4, <1>7, <2>1 DEF NotifiedOnce
<1> QED
  BY <1>6, <1>7

\* valkeyRdmaWrite: what fits goes behind what was written before.
LEMMA WriteKeeps ==
    ASSUME IInv, valkeyRdmaWrite
    PROVE  IInv'
<1>0. /\ op = "write" /\ wait = "none" /\ err' = err /\ flags' = flags /\ res' = res
      /\ rx' = rx /\ slots' = slots /\ fed' = fed /\ srv' = srv
  BY DEF valkeyRdmaWrite
<1>1. /\ Typed /\ RxInv /\ TxInv /\ NotifiedOnce /\ CallFits
      /\ hw \in HwType /\ net \in NetType /\ tx \in TxType
      /\ err \in {"none", "other", "io", "eof"}
  BY DEF IInv, Typed
<1>2. /\ tx.len \in Nat /\ tx.off \in Nat /\ tx.total \in Nat /\ tx.todo \in Nat
      /\ net.toServer \in Seq(ToServerType)
  BY <1>1, TypeFacts
<1>3. ~ flags.failed /\ hw.fabric \notin Before /\ tx.todo > 0
  BY <1>0, <1>1 DEF CallFits, Before
<1>4. CASE tx.off = tx.len /\ WaitAgain /\ UNCHANGED <<op, tx, net, hw>>
  <2>1. /\ UNCHANGED <<flags, rx, tx, slots, fed, hw, net, srv>> /\ op' = op /\ wait' = "epoll"
        /\ err' \in {"none", "other", "io", "eof"}
    BY <1>0, <1>1, <1>4 DEF WaitAgain
  <2> QED
    BY <1>0, <2>1, TransferKeeps
<1>5. CASE tx.off < tx.len /\ ~ (tx.off = tx.len)
  <2> DEFINE m0 == [kind |-> "imm", off |-> tx.off, bytes |-> [i \in 1..Chunk |-> tx.total + i]]
  <2>1. /\ net' = [net EXCEPT !.toServer = Append(@, m0)]
        /\ tx' = [tx EXCEPT !.off = @ + Chunk, !.total = @ + Chunk, !.todo = @ - Chunk]
        /\ op' = IF tx.todo = Chunk THEN "none" ELSE "write"
        /\ hw' = IF tx.todo = Chunk THEN Kick(hw) ELSE hw
        /\ wait' = wait
    BY <1>5 DEF valkeyRdmaWrite
  <2>2. PICK n \in Nat : n = Chunk /\ n > 0 /\ n <= tx.todo /\ tx.off + n <= tx.len
    BY <1>2, <1>3, <1>5 DEF Chunk, Least
  <2>3. PICK b : b = [i \in 1..n |-> tx.total + i]
    OBVIOUS
  <2>4. /\ b \in Seq(Nat) /\ Len(b) = n /\ \A i \in 1..n : b[i] = tx.total + i
    BY <1>2, <2>3
  <2>5. PICK m : m = [kind |-> "imm", off |-> tx.off, bytes |-> b]
    OBVIOUS
  <2>6. m \in ToServerType /\ m.kind = "imm" /\ m.off = tx.off /\ m.bytes = b
    BY <1>2, <2>4, <2>5 DEF ToServerType
  <2>7. m0 = m
    BY <2>2, <2>3, <2>5
  <2> HIDE DEF m0
  <2>8. PICK q \in Seq(ToServerType) : q = net.toServer
    BY <1>2
  <2>9. Append(q, m) \in Seq(ToServerType)
    BY <2>6
  <2>10. net' \in NetType /\ net'.toServer = Append(q, m) /\ net'.toClient = net.toClient
    BY <1>1, <2>1, <2>7, <2>8, <2>9 DEF NetType
  <2>11. /\ tx' \in TxType /\ tx'.len = tx.len /\ tx'.off = tx.off + n
         /\ tx'.total = tx.total + n /\ tx'.todo = tx.todo - n
    <3>1. /\ tx.off + n \in Nat /\ tx.total + n \in Nat /\ tx.todo - n \in Nat
      BY <1>2, <2>2
    <3>2. tx' = [tx EXCEPT !.off = tx.off + n, !.total = tx.total + n, !.todo = tx.todo - n]
      BY <1>1, <2>1, <2>2 DEF TxType
    <3> QED
      BY <1>1, <3>1, <3>2 DEF TxType
  <2>12. SameButReady(hw', hw)
    <3>1. CASE hw' = hw
      BY <1>1, <3>1 DEF SameButReady
    <3>2. CASE hw' = Raise(hw, "ev")
      BY <1>1, <3>2, RaiseKeeps
    <3> QED
      BY <2>1, <3>1, <3>2 DEF Kick
  <2>13. RxInv'
    <3>1. /\ Lacks(q, "reg") => Lacks(Append(q, m), "reg")
          /\ HasOne(q, "reg") => HasOne(Append(q, m), "reg")
      BY <2>6, LacksAppend, HasOneAppend
    <3> QED
      BY <1>0, <1>1, <2>8, <2>10, <2>12, <3>1, RxSame DEF SameButReady
  <2>14. TxOpen
    BY <1>1, <1>2, <1>5 DEF TxInv, TxWithheld, TxGranted, AllArrived
  <2>15. PICK lo \in 0..(TxLen - 1) :
            /\ Len(srv.got) = tx.total - tx.off + lo
            /\ OnTheWay(q, lo, tx.off, tx.total - tx.off)
    BY <2>8, <2>14 DEF TxOpen
  <2>16. PICK base : base = tx.total - tx.off
    OBVIOUS
  <2>17. PICK hi \in Nat : hi = tx.off
    BY <1>2
  <2>18. PICK to \in Nat : to = tx.off + n
    BY <1>2
  <2>19. \A i \in 1..Len(m.bytes) : m.bytes[i] = base + m.off + i
    BY <1>2, <2>4, <2>6, <2>16, SMTT(30)
  <2>20. /\ to = hi + Len(m.bytes) /\ m.off = hi /\ Len(m.bytes) > 0
    BY <2>2, <2>4, <2>6, <2>17, <2>18
  <2>21. OnTheWay(Append(q, m), lo, to, base)
    BY <2>6, <2>15, <2>16, <2>17, <2>19, <2>20, OnTheWaySent
  <2>22. tx'.total - tx'.off = base /\ tx'.off = to
    BY <1>2, <2>11, <2>16, <2>18
  <2>23. /\ Len(srv.got) = base + lo /\ tx'.off <= TxLen /\ tx'.off <= tx'.total
         /\ tx'.len = TxLen
    BY <1>2, <2>2, <2>11, <2>14, <2>15, <2>16 DEF TxOpen
  <2>24. TxOpen'
    BY <1>0, <2>10, <2>12, <2>14, <2>21, <2>22, <2>23 DEF TxOpen, SameButReady
  <2>25. TxInv'
    BY <1>0, <1>1, <2>10, <2>12, <2>24 DEF TxInv, SameButReady
  <2>26. op' \in {"none", "write"} /\ (op' = "write" => tx'.todo > 0)
    BY <1>2, <2>1, <2>2, <2>11
  <2>27. Typed'
    BY <1>0, <1>1, <2>1, <2>10, <2>11, <2>12, <2>26 DEF Typed, SameButReady
  <2>28. NotifiedOnce'
    BY <1>1, <2>12 DEF NotifiedOnce, SameButReady
  <2> QED
    BY <1>0, <1>3, <2>1, <2>12, <2>13, <2>25, <2>26, <2>27, <2>28, ControlStill DEF SameButReady
<1> QED
  BY <1>2, <1>4, <1>5 DEF valkeyRdmaWrite

\* The memory of the client after an RDMA write.
LEMMA BufferWritten ==
    ASSUME NEW buf \in [1..RxLen -> Nat], NEW m \in ToClientType, NEW new,
           new = [i \in 1..RxLen |-> IF i \in (m.off + 1)..(m.off + Len(m.bytes))
                                     THEN m.bytes[i - m.off] ELSE buf[i]]
    PROVE  new \in [1..RxLen -> Nat] /\ (m.bytes = <<>> => new = buf)
<1>1. PICK o \in Nat : o = m.off
  BY DEF ToClientType
<1>2. PICK b \in Seq(Nat) : b = m.bytes
  BY DEF ToClientType
<1>3. new = [i \in 1..RxLen |-> IF i \in (o + 1)..(o + Len(b)) THEN b[i - o] ELSE buf[i]]
  BY <1>1, <1>2
<1>4. ASSUME NEW i \in 1..RxLen, i \in (o + 1)..(o + Len(b)) PROVE b[i - o] \in Nat
  <2>1. i - o \in 1..Len(b)
    BY <1>4
  <2> QED
    BY <2>1
<1>5. new \in [1..RxLen -> Nat]
  BY <1>3, <1>4
<1>6. ASSUME b = <<>> PROVE new = buf
  <2>1. \A i \in 1..RxLen : i \notin (o + 1)..(o + Len(b))
    BY <1>6
  <2>2. new = [i \in 1..RxLen |-> buf[i]]
    BY <1>3, <2>1
  <2> QED
    BY <2>2
<1> QED
  BY <1>2, <1>5, <1>6

\* A message to the client arrives.
LEMMA ToClientKeeps ==
    ASSUME IInv, DeliverToClient
    PROVE  IInv'
<1>0. /\ net.toClient # <<>> /\ hw.fabric = "up"
      /\ hw' = Complete(hw, [kind |-> Head(net.toClient).kind, n |-> Head(net.toClient).n])
      /\ net' = [net EXCEPT !.toClient = Tail(@)]
      /\ op' = op /\ wait' = wait /\ err' = err /\ flags' = flags /\ res' = res
      /\ tx' = tx /\ slots' = slots /\ fed' = fed /\ srv' = srv
  BY DEF DeliverToClient, ctl
<1>1. /\ Typed /\ RxInv /\ TxInv /\ NotifiedOnce /\ CallFits
      /\ hw \in HwType /\ net \in NetType /\ rx \in RxType
  BY DEF IInv, Typed
<1>2. /\ hw.cq \in Seq(WcType) /\ net.toClient \in Seq(ToClientType)
      /\ rx.buf \in [1..RxLen -> Nat] /\ fed \in Seq(Nat)
      /\ rx.rxo \in Nat /\ rx.reco \in Nat
  BY <1>1, TypeFacts DEF Typed
<1>3. PICK t \in Seq(ToClientType) : t = net.toClient
  BY <1>2
<1>4. PICK c \in Seq(WcType) : c = hw.cq
  BY <1>2
<1>5. PICK m \in ToClientType : m = Head(t)
  BY <1>0, <1>3
<1>6. m.kind \in {"reg", "imm"} /\ m.n \in Nat
  BY DEF ToClientType
<1>7. PICK wc : wc = [kind |-> m.kind, n |-> m.n]
  OBVIOUS
<1>8. wc \in WcType /\ wc.kind = m.kind /\ wc.n = m.n
  BY <1>6, <1>7 DEF WcType
<1>9. /\ hw' \in HwType /\ hw'.cq = Append(c, wc) /\ hw'.cmq = hw.cmq
      /\ hw'.fabric = hw.fabric /\ NotifiedOnce'
      /\ hw.ready # <<>> => hw'.ready # <<>> /\ Head(hw'.ready) = Head(hw.ready)
  <2>1. hw' = Complete(hw, wc)
    BY <1>0, <1>3, <1>5, <1>7
  <2> QED
    BY <1>1, <1>4, <1>8, <2>1, CompleteKeeps
<1>10. PICK buf \in [1..RxLen -> Nat] : buf = rx.buf
  BY <1>2
<1>11. PICK new : new = [i \in 1..RxLen |-> IF i \in (m.off + 1)..(m.off + Len(m.bytes))
                                            THEN m.bytes[i - m.off] ELSE buf[i]]
  OBVIOUS
<1>12. new \in [1..RxLen -> Nat] /\ (m.bytes = <<>> => new = buf)
  BY <1>11, BufferWritten
<1>13. rx' \in RxType /\ rx'.rxo = rx.rxo /\ rx'.reco = rx.reco /\ rx'.buf = new
  <2>1. DOMAIN rx.buf = 1..RxLen
    BY <1>2
  <2>2. rx' = [rx EXCEPT !.buf = [i \in DOMAIN rx.buf |->
                  IF i \in (m.off + 1)..(m.off + Len(m.bytes))
                  THEN m.bytes[i - m.off] ELSE rx.buf[i]]]
    BY <1>1, <1>3, <1>5 DEF DeliverToClient, RxType
  <2>3. rx' = [rx EXCEPT !.buf = new]
    BY <1>10, <1>11, <2>1, <2>2
  <2> QED
    BY <1>1, <1>12, <2>3 DEF RxType
<1>14. Tail(t) \in Seq(ToClientType)
  BY <1>0, <1>3
<1>15. net' \in NetType /\ net'.toClient = Tail(t) /\ net'.toServer = net.toServer
  BY <1>0, <1>1, <1>3, <1>14 DEF NetType
<1>16. \A i \in 1..Len(t) : t[i].kind = "reg" => t[i].n = TxLen /\ t[i].bytes = <<>>
  BY <1>1, <1>3 DEF TxInv
<1>17. m.kind = "reg" => m.n = TxLen /\ new = buf
  <2>1. m = t[1] /\ 1 \in 1..Len(t)
    BY <1>0, <1>3, <1>5
  <2> QED
    BY <1>12, <1>16, <2>1
<1>18. ASSUME NothingToRead PROVE NothingToRead'
  <2>1. Lacks(c, "imm") /\ Lacks(c, "send") /\ Lacks(t, "imm")
    BY <1>3, <1>4, <1>18 DEF NothingToRead
  <2>2. Lacks(Tail(t), "imm") /\ m.kind # "imm"
    BY <1>0, <1>3, <1>5, <2>1, LacksTail
  <2>3. m.kind = "reg"
    BY <1>6, <2>2
  <2>4. Lacks(Append(c, wc), "imm") /\ Lacks(Append(c, wc), "send")
    BY <1>8, <2>1, <2>3, LacksAppend
  <2> QED
    BY <1>0, <1>9, <1>13, <1>15, <1>18, <2>2, <2>4 DEF NothingToRead
<1>19. RxIdle => RxIdle'
  BY <1>0, <1>15, <1>18 DEF RxIdle
<1>20. RxAsked => RxAsked'
  BY <1>0, <1>15, <1>18 DEF RxAsked
<1>21. ASSUME RxOpen PROVE RxOpen'
  <2>1. PICK base \in Nat : base = Len(fed) - rx.reco
    BY <1>2, <1>21 DEF RxOpen
  <2>2. PICK lo : lo = rx.rxo
    OBVIOUS
  <2>3. PICK hi : hi = srv.off
    OBVIOUS
  <2>4. PICK spare : spare = slots
    OBVIOUS
  <2>5. InFlight(c, t, buf, base, lo, hi, spare) /\ hi <= RxLen
    BY <1>3, <1>4, <1>10, <1>21, <2>1, <2>2, <2>3, <2>4 DEF RxOpen
  <2>6. InFlight(Append(c, wc), Tail(t), new, base, lo, hi, spare)
    BY <1>0, <1>3, <1>5, <1>6, <1>8, <1>11, <1>17, <2>5, FlightDelivered
  <2> QED
    BY <1>0, <1>9, <1>13, <1>15, <1>21, <2>1, <2>2, <2>3, <2>4, <2>6 DEF RxOpen
<1>22. RxInv'
  BY <1>0, <1>1, <1>19, <1>20, <1>21 DEF RxInv
<1>23. \A i \in 1..Len(hw'.cq) : hw'.cq[i].kind = "reg" => hw'.cq[i].n = TxLen
  <2>1. SUFFICES ASSUME NEW i \in 1..Len(Append(c, wc)), Append(c, wc)[i].kind = "reg"
                 PROVE  Append(c, wc)[i].n = TxLen
    BY <1>9
  <2>2. CASE i \in 1..Len(c)
    <3>1. Append(c, wc)[i] = c[i]
      BY <2>2
    <3> QED
      BY <1>1, <1>4, <2>1, <2>2, <3>1 DEF TxInv
  <2>3. CASE i \notin 1..Len(c)
    <3>1. i = Len(c) + 1 /\ Append(c, wc)[i] = wc
      BY <2>3
    <3> QED
      BY <1>8, <1>17, <2>1, <3>1
  <2> QED
    BY <2>2, <2>3
<1>24. \A i \in 1..Len(net'.toClient) : net'.toClient[i].kind = "reg" =>
          net'.toClient[i].n = TxLen /\ net'.toClient[i].bytes = <<>>
  <2>1. \A i \in 1..Len(Tail(t)) : i + 1 \in 1..Len(t) /\ Tail(t)[i] = t[i + 1]
    BY <1>0, <1>3
  <2> QED
    BY <1>15, <1>16, <2>1
<1>25. /\ Lacks(c, "reg") /\ Lacks(t, "reg") =>
             Lacks(Append(c, wc), "reg") /\ Lacks(Tail(t), "reg")
       /\ HasOne(c, "reg") /\ Lacks(t, "reg") =>
             HasOne(Append(c, wc), "reg") /\ Lacks(Tail(t), "reg")
       /\ Lacks(c, "reg") /\ HasOne(t, "reg") =>
             \/ Lacks(Append(c, wc), "reg") /\ HasOne(Tail(t), "reg")
             \/ HasOne(Append(c, wc), "reg") /\ Lacks(Tail(t), "reg")
  <2>1. Lacks(t, "reg") => Lacks(Tail(t), "reg") /\ wc.kind # "reg"
    BY <1>0, <1>3, <1>5, <1>8, LacksTail
  <2>2. wc.kind # "reg" => /\ Lacks(c, "reg") => Lacks(Append(c, wc), "reg")
                           /\ HasOne(c, "reg") => HasOne(Append(c, wc), "reg")
    BY <1>8, LacksAppend, HasOneAppend
  <2>3. wc.kind # "reg" /\ HasOne(t, "reg") => HasOne(Tail(t), "reg")
    BY <1>0, <1>3, <1>5, <1>8, HasOneTail
  <2>4. wc.kind = "reg" /\ HasOne(t, "reg") => Lacks(Tail(t), "reg")
    BY <1>0, <1>3, <1>5, <1>8, HasOneTail, SMTT(30)
  <2>5. wc.kind = "reg" /\ Lacks(c, "reg") => HasOne(Append(c, wc), "reg")
    BY <1>8, HasOneAdded
  <2> QED
    BY <2>1, <2>2, <2>3, <2>4, <2>5
<1>26. TxInv'
  BY <1>0, <1>1, <1>3, <1>4, <1>9, <1>15, <1>23, <1>24, <1>25, TxSame
<1>27. Typed'
  BY <1>0, <1>1, <1>9, <1>13, <1>15 DEF Typed
<1>28. hw.fabric \notin Before /\ (op = "write" => tx.todo > 0)
  BY <1>0, <1>1 DEF Before, CallFits
<1> QED
  BY <1>0, <1>9, <1>19, <1>22, <1>26, <1>27, <1>28, ControlStill

\* The server takes a registration: the token for the client's buffer has arrived.
LEMMA RegistrationKeeps ==
    ASSUME IInv, net.toServer # <<>>, hw.fabric = "up", Head(net.toServer).kind = "reg",
           srv' = [srv EXCEPT !.win = RxLen, !.off = 0],
           hw' = Complete(hw, [kind |-> "send", n |-> 0]),
           net' = [net EXCEPT !.toServer = Tail(@)],
           UNCHANGED <<op, wait, err, flags, res, rx, tx, slots, fed>>
    PROVE  IInv'
<1>0. /\ op' = op /\ wait' = wait /\ err' = err /\ flags' = flags /\ res' = res
      /\ rx' = rx /\ tx' = tx /\ slots' = slots /\ fed' = fed
  OBVIOUS
<1>1. /\ Typed /\ RxInv /\ TxInv /\ NotifiedOnce /\ CallFits
      /\ hw \in HwType /\ net \in NetType /\ srv \in SrvType /\ RxLen \in Nat
  BY RdmaAssumption DEF IInv, Typed
<1>2. /\ hw.cq \in Seq(WcType) /\ net.toServer \in Seq(ToServerType)
      /\ net.toClient \in Seq(ToClientType) /\ fed \in Seq(Nat) /\ Len(fed) \in Nat
  BY <1>1, TypeFacts DEF Typed
<1>3. PICK q \in Seq(ToServerType) : q = net.toServer
  BY <1>2
<1>4. PICK c \in Seq(WcType) : c = hw.cq
  BY <1>2
<1>5. PICK wc : wc = [kind |-> "send", n |-> 0]
  OBVIOUS
<1>6. wc \in WcType /\ wc.kind = "send"
  BY <1>5 DEF WcType
<1>7. /\ hw' \in HwType /\ hw'.cq = Append(c, wc) /\ hw'.cmq = hw.cmq
      /\ hw'.fabric = hw.fabric /\ NotifiedOnce'
      /\ hw.ready # <<>> => hw'.ready # <<>> /\ Head(hw'.ready) = Head(hw.ready)
  <2>1. hw' = Complete(hw, wc)
    BY <1>5
  <2> QED
    BY <1>1, <1>4, <1>6, <2>1, CompleteKeeps
<1>8. Tail(q) \in Seq(ToServerType)
  BY <1>3
<1>9. net' \in NetType /\ net'.toServer = Tail(q) /\ net'.toClient = net.toClient
  BY <1>1, <1>3, <1>8 DEF NetType
<1>10. /\ srv' \in SrvType /\ srv'.win = RxLen /\ srv'.off = 0 /\ srv'.sent = srv.sent
       /\ srv'.got = srv.got /\ srv'.mustRegister = srv.mustRegister /\ srv'.up = srv.up
  BY <1>1 DEF SrvType
<1>11. ~ Lacks(q, "reg")
  BY <1>3, LacksTail
<1>12. RxAsked
  BY <1>1, <1>3, <1>11 DEF RxInv, RxIdle, RxOpen
<1>13. /\ NothingToRead /\ slots = Slots - 1 /\ HasOne(q, "reg")
  BY <1>3, <1>12 DEF RxAsked
<1>14. Lacks(Tail(q), "reg")
  BY <1>3, <1>13, HasOneTail
<1>15. PICK t \in Seq(ToClientType) : t = net.toClient
  BY <1>2
<1>16. Lacks(c, "imm") /\ Lacks(t, "imm") /\ Lacks(c, "send")
  BY <1>4, <1>13, <1>15 DEF NothingToRead
<1>17. PICK buf : buf = rx.buf
  OBVIOUS
<1>18. PICK base \in Nat : base = Len(fed)
  BY <1>2
<1>19. InFlight(Append(c, wc), t, buf, base, 0, 0, Slots - 1)
  BY <1>6, <1>16, FlightOpened
<1>20. rx.rxo = 0 /\ rx.reco = 0 /\ srv.sent = Len(fed) /\ Len(fed) - rx.reco = base
  BY <1>13, <1>18 DEF NothingToRead
<1>21. RxOpen'
  <2>1. InFlight(hw'.cq, net'.toClient, rx'.buf, Len(fed') - rx'.reco, rx'.rxo, srv'.off, slots')
    BY <1>0, <1>7, <1>9, <1>10, <1>13, <1>15, <1>17, <1>19, <1>20
  <2>2. /\ srv'.win = RxLen /\ srv'.off <= RxLen /\ rx'.reco <= rx'.rxo
        /\ rx'.reco <= Len(fed') /\ srv'.sent = Len(fed') - rx'.reco + srv'.off
    BY <1>0, <1>1, <1>2, <1>10, <1>20
  <2> QED
    BY <1>9, <1>14, <2>1, <2>2 DEF RxOpen
<1>22. RxInv'
  BY <1>0, <1>1, <1>21 DEF RxInv
<1>23. ~ RxIdle
  BY <1>3, <1>11 DEF RxIdle
<1>24. /\ Lacks(c, "reg") => Lacks(Append(c, wc), "reg")
       /\ HasOne(c, "reg") => HasOne(Append(c, wc), "reg")
  BY <1>6, LacksAppend, HasOneAppend
<1>25. AllArrived => AllArrived'
  <2>1. Lacks(q, "imm") => Lacks(Tail(q), "imm")
    BY <1>3, LacksTail
  <2> QED
    BY <1>0, <1>3, <1>9, <1>10, <2>1 DEF AllArrived
<1>26. TxWithheld => TxWithheld'
  BY <1>0, <1>4, <1>7, <1>9, <1>10, <1>24, <1>25 DEF TxWithheld
<1>27. TxGranted => TxGranted'
  BY <1>4, <1>7, <1>9, <1>10, <1>24, <1>25 DEF TxGranted
<1>28. ASSUME TxOpen PROVE TxOpen'
  <2>1. PICK base2 : base2 = tx.total - tx.off
    OBVIOUS
  <2>2. PICK lo \in 0..(TxLen - 1) :
            Len(srv.got) = base2 + lo /\ OnTheWay(q, lo, tx.off, base2)
    BY <1>3, <1>28, <2>1 DEF TxOpen
  <2>3. OnTheWay(Tail(q), lo, tx.off, base2)
    BY <1>3, <2>2, OnTheWayTaken
  <2>4. Len(srv'.got) = tx'.total - tx'.off + lo
        /\ OnTheWay(net'.toServer, lo, tx'.off, tx'.total - tx'.off)
    BY <1>0, <1>9, <1>10, <2>1, <2>2, <2>3
  <2> QED
    BY <1>0, <1>4, <1>7, <1>9, <1>10, <1>24, <1>28, <2>4 DEF TxOpen
<1>29. \A i \in 1..Len(hw'.cq) : hw'.cq[i].kind = "reg" => hw'.cq[i].n = TxLen
  <2>1. /\ Len(Append(c, wc)) = Len(c) + 1 /\ Append(c, wc)[Len(c) + 1] = wc
        /\ \A i \in 1..Len(c) : Append(c, wc)[i] = c[i]
    OBVIOUS
  <2>2. ASSUME NEW i \in 1..Len(Append(c, wc)), Append(c, wc)[i].kind = "reg"
        PROVE  Append(c, wc)[i].n = TxLen
    <3>1. i \in 1..Len(c)
      BY <1>6, <2>1, <2>2
    <3> QED
      BY <1>1, <1>4, <2>1, <2>2, <3>1 DEF TxInv
  <2> QED
    BY <1>7, <2>2
<1>30. TxInv'
  BY <1>1, <1>9, <1>10, <1>26, <1>27, <1>28, <1>29 DEF TxInv
<1>31. Typed'
  BY <1>0, <1>1, <1>7, <1>9, <1>10 DEF Typed
<1>32. hw.fabric \notin Before /\ (op = "write" => tx.todo > 0)
  BY <1>1 DEF Before, CallFits
<1> QED
  BY <1>0, <1>7, <1>10, <1>22, <1>23, <1>30, <1>31, <1>32, ControlStill

\* The server takes bytes: they are the next ones of the stream, and with the last
\* byte of its buffer the token is the server's again.
LEMMA BytesKeep ==
    ASSUME IInv, net.toServer # <<>>, hw.fabric = "up", NEW m \in ToServerType,
           m = Head(net.toServer), m.kind = "imm",
           srv' = [srv EXCEPT !.got = @ \o m.bytes, !.end = m.off + Len(m.bytes),
                              !.mustRegister = m.off + Len(m.bytes) = TxLen],
           net' = [net EXCEPT !.toServer = Tail(@)],
           UNCHANGED <<op, wait, err, flags, res, rx, tx, slots, fed, hw>>
    PROVE  IInv'
<1>0. /\ op' = op /\ wait' = wait /\ err' = err /\ flags' = flags /\ res' = res
      /\ rx' = rx /\ tx' = tx /\ slots' = slots /\ fed' = fed /\ hw' = hw
  OBVIOUS
<1>1. /\ Typed /\ RxInv /\ TxInv /\ NotifiedOnce /\ CallFits
      /\ net \in NetType /\ srv \in SrvType /\ TxLen \in Nat
  BY RdmaAssumption DEF IInv, Typed
<1>2. /\ net.toServer \in Seq(ToServerType) /\ srv.got \in Seq(Nat)
      /\ tx.off \in Nat /\ tx.total \in Nat
  BY <1>1, TypeFacts
<1>3. PICK q \in Seq(ToServerType) : q = net.toServer
  BY <1>2
<1>4. PICK b \in Seq(Nat) : b = m.bytes
  BY ToServerKinds
<1>5. ~ Lacks(q, "imm")
  BY <1>3, LacksTail
<1>6. TxOpen
  BY <1>1, <1>3, <1>5 DEF TxInv, TxWithheld, TxGranted, AllArrived
<1>7. PICK base \in Nat : base = tx.total - tx.off
  BY <1>2, <1>6 DEF TxOpen
<1>8. PICK lo \in 0..(TxLen - 1) : Len(srv.got) = base + lo /\ OnTheWay(q, lo, tx.off, base)
  BY <1>3, <1>6, <1>7 DEF TxOpen
<1>9. /\ m.off = lo /\ Len(b) > 0
      /\ \A k \in 1..Len(b) : b[k] = base + lo + k
      /\ OnTheWay(Tail(q), lo + Len(b), tx.off, base)
  <2>1. PICK hi \in Nat : hi = tx.off
    BY <1>2
  <2>2. q # <<>> /\ Head(q) = m /\ OnTheWay(q, lo, hi, base)
    BY <1>3, <1>8, <2>1
  <2>3. /\ m.off = lo /\ Len(m.bytes) > 0
        /\ \A k \in 1..Len(m.bytes) : m.bytes[k] = base + lo + k
        /\ OnTheWay(Tail(q), lo + Len(m.bytes), hi, base)
    BY <2>2, OnTheWayTaken, SMTT(30)
  <2> QED
    BY <1>4, <2>1, <2>3
<1>10. PICK to \in Nat : to = lo + Len(b)
  BY <1>1
<1>11. Tail(q) \in Seq(ToServerType)
  BY <1>3
<1>12. OnTheWay(Tail(q), to, tx.off, base)
  BY <1>9, <1>10
<1>13. to <= tx.off /\ (to = tx.off => Lacks(Tail(q), "imm"))
  BY <1>11, <1>12, OnTheWayFacts
<1>14. PICK g \in Seq(Nat) : g = srv.got
  BY <1>2
<1>15. PICK h : h = g \o b
  OBVIOUS
<1>16. h \in Seq(Nat) /\ Len(h) = Len(g) + Len(b) /\ \A i \in 1..Len(h) : h[i] = i
  <2>1. \A i \in 1..Len(g) : g[i] = i
    BY <1>1, <1>14 DEF TxInv
  <2>2. \A i \in 1..Len(b) : b[i] = Len(g) + i
    BY <1>8, <1>9, <1>14
  <2> QED
    BY <1>15, <2>1, <2>2, Continued
<1>17. net' \in NetType /\ net'.toServer = Tail(q) /\ net'.toClient = net.toClient
  BY <1>1, <1>3, <1>11 DEF NetType
<1>18. /\ srv' \in SrvType /\ srv'.win = srv.win /\ srv'.off = srv.off /\ srv'.sent = srv.sent
       /\ srv'.got = h /\ srv'.mustRegister = (to = TxLen) /\ srv'.up = srv.up
  <2>1. PICK must \in BOOLEAN : must = (to = TxLen)
    OBVIOUS
  <2>2. srv' = [srv EXCEPT !.got = h, !.end = to, !.mustRegister = must]
    BY <1>1, <1>4, <1>9, <1>10, <1>14, <1>15, <2>1 DEF SrvType
  <2> QED
    BY <1>1, <1>16, <2>1, <2>2 DEF SrvType
<1>19. RxInv' /\ (RxIdle => RxIdle')
  <2>1. /\ Lacks(q, "reg") => Lacks(Tail(q), "reg")
        /\ HasOne(q, "reg") => HasOne(Tail(q), "reg")
    BY <1>3, LacksTail, HasOneTail
  <2> QED
    BY <1>0, <1>1, <1>3, <1>17, <1>18, <2>1, RxSame
<1>20. Len(srv'.got) = base + to
  <2>1. Len(b) \in Nat /\ lo \in Nat /\ Len(g) = base + lo
    BY <1>1, <1>8, <1>14
  <2>2. srv'.got = h
    BY <1>18
  <2>3. Len(h) = base + lo + Len(b)
    BY <1>16, <2>1
  <2>4. base + lo + Len(b) = base + to
    BY <1>10, <2>1
  <2> QED
    BY <2>2, <2>3, <2>4
<1>21. ASSUME to = TxLen PROVE TxWithheld'
  <2>1. tx.off = TxLen /\ tx.len = TxLen
    BY <1>1, <1>2, <1>6, <1>13, <1>21 DEF TxOpen
  <2>2. AllArrived'
    <3>1. Lacks(Tail(q), "imm")
      BY <1>13, <1>21, <2>1
    <3>2. Len(srv'.got) = tx.total
      <4>1. base + to = tx.total
        BY <1>1, <1>2, <1>7, <1>21, <2>1
      <4> QED
        BY <1>20, <4>1
    <3> QED
      BY <1>0, <1>17, <2>1, <3>1, <3>2 DEF AllArrived
  <2>3. srv'.mustRegister
    BY <1>18, <1>21
  <2> QED
    BY <1>0, <1>6, <1>17, <2>2, <2>3 DEF TxOpen, TxWithheld
<1>22. ASSUME to # TxLen PROVE TxOpen'
  <2>1. to \in 0..(TxLen - 1)
    BY <1>1, <1>2, <1>6, <1>10, <1>13, <1>22, SMTT(30) DEF TxOpen
  <2>2. Len(srv'.got) = tx'.total - tx'.off + to
        /\ OnTheWay(net'.toServer, to, tx'.off, tx'.total - tx'.off)
    BY <1>0, <1>7, <1>12, <1>17, <1>20
  <2>3. ~ srv'.mustRegister
    BY <1>18, <1>22
  <2> QED
    BY <1>0, <1>6, <1>17, <2>1, <2>2, <2>3 DEF TxOpen
<1>23. TxInv'
  <2>1. \A i \in 1..Len(srv'.got) : srv'.got[i] = i
    <3>1. srv'.got = h
      BY <1>18
    <3> QED
      BY <1>16, <3>1
  <2>2. TxWithheld' \/ TxOpen'
    BY <1>21, <1>22
  <2> QED
    BY <1>0, <1>1, <1>17, <2>1, <2>2 DEF TxInv
<1>24. Typed'
  BY <1>0, <1>1, <1>17, <1>18 DEF Typed
<1>25. NotifiedOnce' /\ hw.fabric \notin Before /\ (op = "write" => tx.todo > 0)
  BY <1>0, <1>1 DEF NotifiedOnce, Before, CallFits
<1> QED
  BY <1>0, <1>18, <1>19, <1>23, <1>24, <1>25, ControlStill

\* A message to the server arrives.
LEMMA ToServerKeeps ==
    ASSUME IInv, DeliverToServer
    PROVE  IInv'
<1>1. /\ net.toServer # <<>> /\ hw.fabric = "up"
      /\ net' = [net EXCEPT !.toServer = Tail(@)]
      /\ UNCHANGED <<op, wait, err, flags, res, rx, tx, slots, fed>>
  BY DEF DeliverToServer, ctl
<1>2. PICK m \in ToServerType : m = Head(net.toServer)
  <2>1. PICK q \in Seq(ToServerType) : q = net.toServer
    BY TypeFacts DEF IInv
  <2>2. Head(q) \in ToServerType
    BY <1>1, <2>1
  <2> QED
    BY <2>1, <2>2
<1>3. m.kind \in {"reg", "imm"}
  BY ToServerKinds
<1>4. CASE m.kind = "reg"
  BY <1>1, <1>2, <1>4, RegistrationKeeps DEF DeliverToServer
<1>5. CASE m.kind = "imm"
  BY <1>1, <1>2, <1>5, BytesKeep DEF DeliverToServer
<1> QED
  BY <1>3, <1>4, <1>5

\* The server gives its buffer to the client.
LEMMA ServerRegistersKeeps ==
    ASSUME IInv, ServerRegisters
    PROVE  IInv'
<1>0. /\ srv.up /\ srv.mustRegister /\ srv' = [srv EXCEPT !.mustRegister = FALSE]
      /\ op' = op /\ wait' = wait /\ err' = err /\ flags' = flags /\ res' = res
      /\ rx' = rx /\ tx' = tx /\ slots' = slots /\ fed' = fed /\ hw' = hw
  BY DEF ServerRegisters, ctl
<1>1. /\ Typed /\ RxInv /\ TxInv /\ NotifiedOnce /\ CallFits /\ NothingBefore
      /\ net \in NetType /\ srv \in SrvType /\ TxLen \in Nat
  BY RdmaAssumption DEF IInv, Typed
<1>2. /\ net.toClient \in Seq(ToClientType) /\ hw.cq \in Seq(WcType) /\ fed \in Seq(Nat)
      /\ rx.reco \in Nat /\ srv.off \in Nat
  BY <1>1, TypeFacts DEF Typed
<1>3. PICK t \in Seq(ToClientType) : t = net.toClient
  BY <1>2
<1>4. PICK m : m = [kind |-> "reg", n |-> TxLen, off |-> 0, bytes |-> <<>>]
  OBVIOUS
<1>5. m \in ToClientType /\ m.kind = "reg" /\ m.n = TxLen /\ m.bytes = <<>>
  BY <1>1, <1>4 DEF ToClientType
<1>6. Append(t, m) \in Seq(ToClientType)
  BY <1>5
<1>7. net' \in NetType /\ net'.toClient = Append(t, m) /\ net'.toServer = net.toServer
  <2>1. net' = [net EXCEPT !.toClient = Append(t, m)]
    BY <1>1, <1>3, <1>4 DEF ServerRegisters, NetType
  <2> QED
    BY <1>1, <1>6, <2>1 DEF NetType
<1>8. /\ srv' \in SrvType /\ srv'.win = srv.win /\ srv'.off = srv.off /\ srv'.sent = srv.sent
      /\ srv'.got = srv.got /\ srv'.mustRegister = FALSE /\ srv'.up = srv.up
  BY <1>0, <1>1 DEF SrvType
<1>9. TxWithheld
  BY <1>0, <1>1 DEF TxInv, TxGranted, TxOpen
<1>10. TxGranted'
  <2>1. Lacks(t, "reg") /\ Lacks(hw.cq, "reg") /\ AllArrived
    BY <1>3, <1>9 DEF TxWithheld
  <2>2. HasOne(Append(t, m), "reg")
    BY <1>5, <2>1, HasOneAdded
  <2>3. AllArrived'
    BY <1>0, <1>7, <1>8, <2>1 DEF AllArrived
  <2> QED
    BY <1>0, <1>7, <1>8, <2>1, <2>2, <2>3 DEF TxGranted
<1>11. \A i \in 1..Len(net'.toClient) : net'.toClient[i].kind = "reg" =>
          net'.toClient[i].n = TxLen /\ net'.toClient[i].bytes = <<>>
  <2>1. SUFFICES ASSUME NEW i \in 1..Len(Append(t, m)), Append(t, m)[i].kind = "reg"
                 PROVE  Append(t, m)[i].n = TxLen /\ Append(t, m)[i].bytes = <<>>
    BY <1>7
  <2>2. CASE i \in 1..Len(t)
    <3>1. Append(t, m)[i] = t[i]
      BY <2>2
    <3> QED
      BY <1>1, <1>3, <2>1, <2>2, <3>1 DEF TxInv
  <2>3. CASE i \notin 1..Len(t)
    <3>1. Append(t, m)[i] = m
      BY <2>3
    <3> QED
      BY <1>5, <3>1
  <2> QED
    BY <2>2, <2>3
<1>12. TxInv'
  BY <1>0, <1>1, <1>8, <1>10, <1>11 DEF TxInv
<1>13. NothingToRead => NothingToRead'
  <2>1. Lacks(t, "imm") => Lacks(Append(t, m), "imm")
    BY <1>5, LacksAppend
  <2> QED
    BY <1>0, <1>3, <1>7, <1>8, <2>1 DEF NothingToRead
<1>14. RxIdle => RxIdle'
  BY <1>0, <1>7, <1>8, <1>13 DEF RxIdle
<1>15. RxAsked => RxAsked'
  BY <1>0, <1>7, <1>13 DEF RxAsked
<1>16. ASSUME RxOpen PROVE RxOpen'
  <2>1. PICK base \in Nat : base = Len(fed) - rx.reco
    BY <1>2, <1>16 DEF RxOpen
  <2>2. PICK c \in Seq(WcType) : c = hw.cq
    BY <1>2
  <2>3. PICK hi \in Nat : hi = srv.off
    BY <1>2
  <2>4. PICK lo : lo = rx.rxo
    OBVIOUS
  <2>5. PICK spare : spare = slots
    OBVIOUS
  <2>6. PICK buf : buf = rx.buf
    OBVIOUS
  <2>7. InFlight(c, t, buf, base, lo, hi, spare)
    BY <1>3, <1>16, <2>1, <2>2, <2>3, <2>4, <2>5, <2>6 DEF RxOpen
  <2>8. hi = hi + Adds(m) /\ m.kind # "imm"
    BY <1>5 DEF Adds
  <2>9. InFlight(c, Append(t, m), buf, base, lo, hi, spare)
    BY <1>5, <2>7, <2>8, FlightSent
  <2> QED
    BY <1>0, <1>7, <1>8, <1>16, <2>1, <2>2, <2>3, <2>4, <2>5, <2>6, <2>9 DEF RxOpen
<1>17. RxInv'
  BY <1>0, <1>1, <1>14, <1>15, <1>16 DEF RxInv
<1>18. Typed'
  BY <1>0, <1>1, <1>7, <1>8 DEF Typed
<1>19. NotifiedOnce' /\ hw.fabric \notin Before /\ (op = "write" => tx.todo > 0)
  BY <1>0, <1>1 DEF NotifiedOnce, NothingBefore, CallFits
<1> QED
  BY <1>0, <1>8, <1>12, <1>14, <1>17, <1>18, <1>19, ControlStill

\* The server fills the client's buffer, which it holds then.
LEMMA ServerSendsKeeps ==
    ASSUME IInv, NEW n \in 1..RxLen, ServerSends(n)
    PROVE  IInv'
<1>0. /\ srv.up /\ srv.off + n <= srv.win
      /\ srv' = [srv EXCEPT !.off = @ + n, !.sent = @ + n]
      /\ op' = op /\ wait' = wait /\ err' = err /\ flags' = flags /\ res' = res
      /\ rx' = rx /\ tx' = tx /\ slots' = slots /\ fed' = fed /\ hw' = hw
  BY DEF ServerSends, ctl
<1>1. /\ Typed /\ RxInv /\ TxInv /\ NotifiedOnce /\ CallFits /\ NothingBefore
      /\ net \in NetType /\ srv \in SrvType /\ RxLen \in Nat /\ n \in Nat /\ n > 0
  BY RdmaAssumption DEF IInv, Typed
<1>2. /\ net.toClient \in Seq(ToClientType) /\ hw.cq \in Seq(WcType) /\ fed \in Seq(Nat)
      /\ rx.reco \in Nat /\ srv.off \in Nat /\ srv.sent \in Nat /\ srv.win \in Nat
  BY <1>1, TypeFacts DEF Typed
<1>3. PICK t \in Seq(ToClientType) : t = net.toClient
  BY <1>2
<1>4. PICK b : b = [i \in 1..n |-> srv.sent + i]
  OBVIOUS
<1>5. b \in Seq(Nat) /\ Len(b) = n /\ \A i \in 1..n : b[i] = srv.sent + i
  BY <1>1, <1>2, <1>4
<1>6. PICK m : m = [kind |-> "imm", n |-> n, off |-> srv.off, bytes |-> b]
  OBVIOUS
<1>7. m \in ToClientType /\ m.kind = "imm" /\ m.n = n /\ m.off = srv.off /\ m.bytes = b
  BY <1>1, <1>2, <1>5, <1>6 DEF ToClientType
<1>8. Append(t, m) \in Seq(ToClientType)
  BY <1>7
<1>9. net' \in NetType /\ net'.toClient = Append(t, m) /\ net'.toServer = net.toServer
  <2>1. net' = [net EXCEPT !.toClient = Append(t, m)]
    BY <1>1, <1>3, <1>4, <1>6 DEF ServerSends, NetType
  <2> QED
    BY <1>1, <1>8, <2>1 DEF NetType
<1>10. /\ srv' \in SrvType /\ srv'.win = srv.win /\ srv'.off = srv.off + n
       /\ srv'.sent = srv.sent + n /\ srv'.up = srv.up
       /\ srv'.got = srv.got /\ srv'.mustRegister = srv.mustRegister
  <2>1. srv.off + n \in Nat /\ srv.sent + n \in Nat
    BY <1>1, <1>2
  <2>2. srv' = [srv EXCEPT !.off = srv.off + n, !.sent = srv.sent + n]
    BY <1>0, <1>1 DEF SrvType
  <2> QED
    BY <1>1, <2>1, <2>2 DEF SrvType
<1>11. ~ NothingToRead
  BY <1>0, <1>1, <1>2 DEF NothingToRead
<1>12. RxOpen /\ ~ RxIdle
  BY <1>1, <1>11 DEF RxInv, RxIdle, RxAsked
<1>13. RxOpen'
  <2>1. PICK base \in Nat : base = Len(fed) - rx.reco
    BY <1>2, <1>12 DEF RxOpen
  <2>2. PICK c \in Seq(WcType) : c = hw.cq
    BY <1>2
  <2>3. PICK hi \in Nat : hi = srv.off
    BY <1>2
  <2>4. PICK lo : lo = rx.rxo
    OBVIOUS
  <2>5. PICK spare : spare = slots
    OBVIOUS
  <2>6. PICK buf : buf = rx.buf
    OBVIOUS
  <2>7. InFlight(c, t, buf, base, lo, hi, spare) /\ srv.sent = base + hi /\ srv.win = RxLen
    BY <1>3, <1>12, <2>1, <2>2, <2>3, <2>4, <2>5, <2>6 DEF RxOpen
  <2>8. PICK to \in Nat : to = hi + n
    BY <1>1
  <2>9. to = hi + Adds(m) /\ m.off = hi /\ m.n > 0 /\ Len(m.bytes) = m.n
    BY <1>1, <1>5, <1>7, <2>3, <2>8 DEF Adds
  <2>10. \A i \in 1..m.n : m.bytes[i] = base + m.off + i
    BY <1>5, <1>7, <2>3, <2>7
  <2>11. InFlight(c, Append(t, m), buf, base, lo, to, spare)
    BY <1>7, <2>7, <2>9, <2>10, FlightSent
  <2>12. /\ srv'.off = to /\ srv'.off <= RxLen
         /\ srv'.sent = Len(fed') - rx'.reco + srv'.off
    <3>1. srv'.off = to /\ srv.off + n <= RxLen
      BY <1>0, <1>10, <2>3, <2>7, <2>8
    <3>2. srv'.sent = base + to
      BY <1>1, <1>10, <2>7, <2>8
    <3> QED
      BY <1>0, <1>10, <2>1, <3>1, <3>2
  <2> QED
    BY <1>0, <1>9, <1>10, <1>12, <2>1, <2>2, <2>4, <2>5, <2>6, <2>11, <2>12 DEF RxOpen
<1>14. RxInv'
  BY <1>0, <1>1, <1>13 DEF RxInv
<1>15. \A i \in 1..Len(net'.toClient) : net'.toClient[i].kind = "reg" =>
          net'.toClient[i].n = TxLen /\ net'.toClient[i].bytes = <<>>
  <2>1. SUFFICES ASSUME NEW i \in 1..Len(Append(t, m)), Append(t, m)[i].kind = "reg"
                 PROVE  Append(t, m)[i].n = TxLen /\ Append(t, m)[i].bytes = <<>>
    BY <1>9
  <2>2. CASE i \in 1..Len(t)
    <3>1. Append(t, m)[i] = t[i]
      BY <2>2
    <3> QED
      BY <1>1, <1>3, <2>1, <2>2, <3>1 DEF TxInv
  <2>3. CASE i \notin 1..Len(t)
    <3>1. Append(t, m)[i] = m
      BY <2>3
    <3> QED
      BY <1>7, <2>1, <3>1
  <2> QED
    BY <2>2, <2>3
<1>16. /\ Lacks(t, "reg") => Lacks(Append(t, m), "reg")
       /\ HasOne(t, "reg") => HasOne(Append(t, m), "reg")
  BY <1>7, LacksAppend, HasOneAppend
<1>17. TxInv'
  <2>1. \A i \in 1..Len(hw'.cq) : hw'.cq[i].kind = "reg" => hw'.cq[i].n = TxLen
    BY <1>0, <1>1 DEF TxInv
  <2> QED
    BY <1>0, <1>1, <1>3, <1>9, <1>10, <1>15, <1>16, <2>1, TxSame
<1>18. Typed'
  BY <1>0, <1>1, <1>9, <1>10 DEF Typed
<1>19. NotifiedOnce' /\ hw.fabric \notin Before /\ (op = "write" => tx.todo > 0)
  BY <1>0, <1>1 DEF NotifiedOnce, NothingBefore, CallFits
<1> QED
  BY <1>0, <1>10, <1>12, <1>14, <1>17, <1>18, <1>19, ControlStill

-----------------------------------------------------------------------------
(* The invariant *)

\* Nothing has been asked for yet.
LEMMA InitKeeps ==
    ASSUME Init
    PROVE  IInv
<1>0. RxLen \in Nat /\ TxLen \in Nat /\ Slots \in Nat
  BY RdmaAssumption
<1>1. /\ op = "connect" /\ wait = "none" /\ err = "none" /\ res = {}
      /\ flags = [connected |-> FALSE, failed |-> FALSE]
      /\ rx = [rxo |-> 0, reco |-> 0, buf |-> [i \in 1..RxLen |-> 0]]
      /\ tx = [len |-> 0, off |-> 0, total |-> 0, todo |-> 0]
      /\ slots = Slots /\ fed = <<>>
      /\ hw = [cq |-> <<>>, armed |-> FALSE, chan |-> 0, ready |-> <<>>, cmq |-> <<>>,
               fabric |-> "none"]
      /\ net = [toClient |-> <<>>, toServer |-> <<>>]
      /\ srv = [up |-> FALSE, mustRegister |-> FALSE, win |-> 0, off |-> 0, sent |-> 0,
                got |-> <<>>, end |-> 0]
  BY DEF Init
<1>2. rx \in RxType /\ rx.rxo = 0 /\ rx.reco = 0
  BY <1>0, <1>1 DEF RxType
<1>3. tx \in TxType /\ tx.len = 0 /\ tx.off = 0 /\ tx.total = 0
  BY <1>1 DEF TxType
<1>4. /\ hw \in HwType /\ hw.cq = <<>> /\ hw.armed = FALSE /\ hw.chan = 0 /\ hw.ready = <<>>
      /\ hw.cmq = <<>> /\ hw.fabric = "none"
  BY <1>1 DEF HwType, Before
<1>5. net \in NetType /\ net.toClient = <<>> /\ net.toServer = <<>>
  BY <1>1 DEF NetType
<1>6. /\ srv \in SrvType /\ srv.up = FALSE /\ srv.mustRegister = FALSE /\ srv.win = 0
      /\ srv.off = 0 /\ srv.sent = 0 /\ srv.got = <<>>
  BY <1>1 DEF SrvType
<1>7. flags \in FlagsType /\ flags.connected = FALSE /\ flags.failed = FALSE
  BY <1>1 DEF FlagsType
<1>8. Typed
  BY <1>0, <1>1, <1>2, <1>3, <1>4, <1>5, <1>6, <1>7 DEF Typed
<1>9. \A k : Lacks(<<>>, k)
  BY DEF Lacks
<1>10. RxIdle
  BY <1>1, <1>2, <1>4, <1>5, <1>6, <1>9 DEF RxIdle, NothingToRead
<1>11. RxInv
  BY <1>1, <1>10 DEF RxInv
<1>12. TxWithheld
  BY <1>3, <1>4, <1>5, <1>6, <1>9 DEF TxWithheld, AllArrived
<1>13. TxInv
  BY <1>4, <1>5, <1>6, <1>12 DEF TxInv
<1>14. NotifiedOnce /\ Reported
  BY <1>4 DEF NotifiedOnce, Reported
<1>15. NothingBefore
  BY <1>4, <1>5, <1>6, <1>7, <1>10, <1>12 DEF NothingBefore
<1>16. CallFits
  BY <1>1, <1>4, <1>7 DEF CallFits
<1> QED
  BY <1>8, <1>11, <1>13, <1>14, <1>15, <1>16 DEF IInv

\* Every step keeps the invariant.
LEMMA NextKeeps ==
    ASSUME IInv, [Next]_vars
    PROVE  IInv'
<1>1. CASE Library
  <2>1. CASE valkeyContextConnectRdma
    BY <2>1, ConnectKeeps
  <2>2. CASE WaitConn
    BY <2>2, WaitConnKeeps
  <2>3. CASE CmEvent
    BY <2>3, CmEventKeeps
  <2>4. CASE CmDoneConnecting
    BY <2>4, CmDoneConnectingKeeps
  <2>5. CASE EpollWait \/ HandleCq
    BY <2>5, EdgesKeep
  <2>6. CASE EventAck \/ PollCqEmpty \/ HandleCM \/ CmDoneIO \/ BatchDone
    BY <2>6, WaitEventKeeps
  <2>7. CASE PollCq
    BY <2>7, PollCqKeeps
  <2>8. CASE valkeyRdmaReadZC
    BY <2>8, ReadKeeps
  <2>9. CASE valkeyRdmaWrite
    BY <2>9, WriteKeeps
  <2> QED
    BY <1>1, <2>1, <2>2, <2>3, <2>4, <2>5, <2>6, <2>7, <2>8, <2>9 DEF Library
<1>2. CASE WaitConnTimeout
  BY <1>2, WaitConnTimeoutKeeps
<1>3. CASE EpollNothing \/ HandleCqFails \/ SendFails
  BY <1>3, WaitEventKeeps
<1>4. CASE BeginRead \/ valkeyRdmaClose \/ WriteUnconnected \/ ReadUnconnected
  BY <1>4, CallKeeps
<1>5. CASE \E n \in 1..MaxTx : BeginWrite(n)
  BY <1>5, BeginWriteKeeps
<1>6. CASE Fabric
  BY <1>6, FabricAnswersKeeps, ToClientKeeps, ToServerKeeps DEF Fabric
<1>7. CASE ServerRegisters
  BY <1>7, ServerRegistersKeeps
<1>8. CASE \E n \in 1..RxLen : ServerSends(n)
  BY <1>8, ServerSendsKeeps
<1>9. CASE UNCHANGED vars
  <2>1. /\ op' = op /\ wait' = wait /\ err' = err /\ flags' = flags /\ res' = res
        /\ rx' = rx /\ tx' = tx /\ slots' = slots /\ fed' = fed /\ hw' = hw /\ net' = net
        /\ srv' = srv
    BY <1>9 DEF vars, ctl
  <2>2. CallFits'
    BY <2>1 DEF IInv, CallFits
  <2>3. flags \in FlagsType /\ op \in {"none", "connect", "read", "write", "closed", "crashed"}
        /\ wait \in {"none", "epoll", "batch", "poll", "cm"}
        /\ err \in {"none", "other", "io", "eof"}
    BY DEF IInv, Typed
  <2> QED
    BY <2>1, <2>2, <2>3, HandlerKeeps
<1> QED
  BY <1>1, <1>2, <1>3, <1>4, <1>5, <1>6, <1>7, <1>8, <1>9 DEF Next

\* In every behaviour the token of each buffer is in one place, what is under way is
\* contiguous, and the library knows how far the connection has come (rdma.c).
THEOREM RdmaInvariant == Spec => []IInv
<1>1. Init => IInv
  BY InitKeeps
<1>2. IInv /\ [Next]_vars => IInv'
  BY NextKeeps
<1> QED
  BY <1>1, <1>2, PTL DEF Spec

\* The offsets stay inside of their buffers and there is always a command slot.
LEMMA OffsetsFit ==
    ASSUME IInv
    PROVE  TypeOK
<1>0. RxLen \in Nat /\ TxLen \in Nat /\ Slots \in Nat \ {0}
  BY RdmaAssumption
<1>1. /\ rx.rxo \in Nat /\ rx.reco \in Nat /\ tx.len \in Nat /\ tx.off \in Nat
      /\ hw.cq \in Seq(WcType) /\ net.toClient \in Seq(ToClientType)
      /\ err \in {"none", "other", "io", "eof"} /\ srv.off \in Nat
  BY TypeFacts DEF IInv, Typed
<1>2. rx.reco <= rx.rxo /\ rx.rxo <= RxLen /\ slots \in 0..Slots
  <2>1. CASE RxIdle
    BY <1>0, <2>1 DEF RxIdle, NothingToRead
  <2>2. CASE RxAsked
    BY <1>0, <2>2 DEF RxAsked, NothingToRead
  <2>3. CASE RxOpen
    <3>1. PICK base : base = Len(fed) - rx.reco
      OBVIOUS
    <3>2. PICK c \in Seq(WcType) : c = hw.cq
      BY <1>1
    <3>3. PICK t \in Seq(ToClientType) : t = net.toClient
      BY <1>1
    <3>4. PICK lo : lo = rx.rxo
      OBVIOUS
    <3>5. PICK hi : hi = srv.off
      OBVIOUS
    <3>6. PICK spare : spare = slots
      OBVIOUS
    <3>7. PICK buf : buf = rx.buf
      OBVIOUS
    <3>8. InFlight(c, t, buf, base, lo, hi, spare) /\ hi <= RxLen /\ rx.reco <= rx.rxo
      BY <2>3, <3>1, <3>2, <3>3, <3>4, <3>5, <3>6, <3>7 DEF RxOpen
    <3>9. lo <= hi /\ spare \in {Slots - 1, Slots}
      BY <3>8, FlightFacts
    <3> QED
      BY <1>0, <1>1, <3>4, <3>5, <3>6, <3>8, <3>9
  <2> QED
    BY <2>1, <2>2, <2>3 DEF IInv, RxInv
<1>3. tx.off <= tx.len /\ tx.len \in {0, TxLen}
  BY <1>0, <1>1 DEF IInv, TxInv, TxWithheld, TxGranted, TxOpen, AllArrived
<1>4. hw.chan \in 0..1
  BY DEF IInv, NotifiedOnce
<1> QED
  BY <1>0, <1>1, <1>2, <1>3, <1>4 DEF TypeOK

\* No write that is under way leaves the server's buffer.
LEMMA WritesInside ==
    ASSUME IInv
    PROVE  WritesFit
<1>0. TxLen \in Nat
  BY RdmaAssumption
<1>1. PICK q \in Seq(ToServerType) : q = net.toServer
  BY TypeFacts DEF IInv
<1>2. SUFFICES ASSUME NEW i \in 1..Len(q), q[i].kind = "imm"
               PROVE  q[i].off + Len(q[i].bytes) <= TxLen
  BY <1>1 DEF WritesFit
<1>3. ~ Lacks(q, "imm")
  BY <1>2 DEF Lacks
<1>4. TxOpen
  BY <1>1, <1>3 DEF IInv, TxInv, TxWithheld, TxGranted, AllArrived
<1>5. PICK base : base = tx.total - tx.off
  OBVIOUS
<1>6. PICK hi \in Nat : hi = tx.off
  BY TypeFacts DEF IInv
<1>7. PICK lo \in 0..(TxLen - 1) : OnTheWay(q, lo, hi, base)
  BY <1>1, <1>4, <1>5, <1>6 DEF TxOpen
<1>8. q[i].off + Len(q[i].bytes) <= hi /\ hi <= TxLen
  BY <1>2, <1>4, <1>6, <1>7, OnTheWayFacts DEF TxOpen
<1>9. q[i] \in ToServerType
  OBVIOUS
<1>10. PICK m \in ToServerType : m = q[i]
  BY <1>9
<1>11. m.off \in Nat /\ Len(m.bytes) \in Nat
  BY <1>2, <1>10, ToServerKinds
<1> QED
  BY <1>0, <1>8, <1>10, <1>11

\* Whatever the lengths of the buffers and the order in which completions, events and
\* calls come: both streams arrive as they were sent, the offsets stay inside of the
\* buffers, and no write leaves the server's buffer (valkeyRdmaReadZCDone,
\* connRdmaSend, connRdmaRegisterRx).
THEOREM StreamsStayIntact == Spec => []BuffersSound
<1>1. IInv => BuffersSound
  <2>1. SUFFICES ASSUME IInv PROVE BuffersSound
    OBVIOUS
  <2>2. TypeOK /\ WritesFit
    BY <2>1, OffsetsFit, WritesInside
  <2>3. fed \in Seq(Nat) /\ srv.got \in Seq(Nat)
    BY <2>1, TypeFacts DEF IInv, Typed
  <2>4. DOMAIN fed = 1..Len(fed) /\ DOMAIN srv.got = 1..Len(srv.got)
    BY <2>3
  <2>5. StreamsIntact
    BY <2>1, <2>4 DEF StreamsIntact, IInv, RxInv, TxInv
  <2> QED
    BY <2>2, <2>5 DEF BuffersSound
<1> QED
  BY <1>1, RdmaInvariant, PTL
-----------------------------------------------------------------------------
(* Being woken up *)

Descriptors == {"cm", "comp", "ev"}

\* The edge of a descriptor was not taken yet, or was and is not handled yet.
Awaits(fd) == InSeq(hw.ready, fd) \/ InSeq(batch, fd)

\* A connect call drops the edges it does not expect once the connection is down.
Dropped == hw.fabric = "down" /\ (op = "connect" \/ flags.failed)

\* Descriptors are handled by the call that took them.
BatchFits ==
    /\ batch \in Seq(Descriptors)
    /\ wait \in {"none", "epoll"} \/ op = "connect" => batch = <<>>

\* An event of the connection manager, or in the completion channel, is still to be seen.
EventsSeen ==
    /\ hw.cmq # <<>> /\ err = "none" => wait = "cm" \/ Awaits("cm")
    /\ hw.chan = 1 /\ err = "none" /\ ~ Dropped => Awaits("comp")

\* A completion that nobody polls for has put an event into the channel, and the next
\* one will.
CompletionsSeen ==
    /\ hw.cq # <<>> /\ err = "none" => hw.chan = 1 \/ wait = "poll"
    /\ hw.fabric \in {"conn", "up", "down"} => hw.armed \/ hw.chan = 1

\* The library learns from the connection manager that the connection is down.
LossSeen ==
    /\ flags.connected /\ hw.fabric = "down" => hw.cmq # <<>>
    /\ op \in {"none", "read", "write"} /\ err = "none" /\ ~ flags.failed /\ wait # "cm" =>
         flags.connected

\* Bytes that a write took from the completion queue are left to a reader that is woken.
UnreadSeen ==
    /\ op = "connect" => rx.reco = rx.rxo
    /\ op = "none" /\ err = "none" /\ ~ flags.failed /\ rx.reco < rx.rxo =>
         InSeq(hw.ready, "ev") \/ hw.fabric = "down"

WInv == BatchFits /\ EventsSeen /\ CompletionsSeen /\ LossSeen /\ UnreadSeen

\* Taking the first descriptor leaves the others.
LEMMA TailKeeps ==
    ASSUME NEW s \in Seq(Descriptors), s # <<>>
    PROVE  /\ Tail(s) \in Seq(Descriptors)
           /\ \A d \in Descriptors : InSeq(s, d) /\ Head(s) # d => InSeq(Tail(s), d)
<1>1. /\ Tail(s) \in Seq(Descriptors) /\ Head(s) = s[1] /\ Len(s) \in Nat \ {0}
      /\ DOMAIN s = 1..Len(s) /\ DOMAIN Tail(s) = 1..(Len(s) - 1)
      /\ \A i \in 1..(Len(s) - 1) : Tail(s)[i] = s[i + 1]
  OBVIOUS
<1>2. ASSUME NEW d \in Descriptors, InSeq(s, d), Head(s) # d
      PROVE  InSeq(Tail(s), d)
  <2>1. PICK i \in 1..Len(s) : s[i] = d
    BY <1>1, <1>2 DEF InSeq
  <2>2. i # 1
    BY <1>1, <1>2, <2>1
  <2>3. i - 1 \in 1..(Len(s) - 1) /\ Tail(s)[i - 1] = d
    BY <1>1, <2>1, <2>2
  <2> QED
    BY <1>1, <2>3 DEF InSeq
<1> QED
  BY <1>1, <1>2

\* A descriptor that becomes ready is seen, and so are the ones that were.
LEMMA RaiseSeen ==
    ASSUME NEW h \in HwType, NEW fd \in Descriptors, NEW k, k = Raise(h, fd)
    PROVE  /\ SameButReady(k, h)
           /\ InSeq(k.ready, fd)
           /\ \A d \in Descriptors : InSeq(h.ready, d) => InSeq(k.ready, d)
<1>1. SameButReady(k, h)
  BY RaiseKeeps DEF Descriptors
<1>2. CASE InSeq(h.ready, fd)
  BY <1>1, <1>2 DEF Raise
<1>3. CASE ~ InSeq(h.ready, fd)
  <2>1. PICK r \in Seq(Descriptors) : r = h.ready
    BY DEF HwType, Descriptors
  <2>2. /\ DOMAIN Append(r, fd) = 1..(Len(r) + 1) /\ DOMAIN r = 1..Len(r) /\ Len(r) \in Nat
        /\ Append(r, fd)[Len(r) + 1] = fd
        /\ \A i \in 1..Len(r) : Append(r, fd)[i] = r[i]
    OBVIOUS
  <2>3. k.ready = Append(r, fd)
    BY <1>3, <2>1 DEF Raise, HwType
  <2>4. InSeq(Append(r, fd), fd)
    BY <2>2 DEF InSeq
  <2>5. ASSUME NEW d \in Descriptors, InSeq(r, d) PROVE InSeq(Append(r, fd), d)
    BY <2>2, <2>5 DEF InSeq
  <2> QED
    BY <1>1, <2>1, <2>3, <2>4, <2>5
<1> QED
  BY <1>2, <1>3

\* Nothing is in the empty sequence.
LEMMA NoneAwaited == \A d : ~ InSeq(<<>>, d)
BY DEF InSeq

\* What the steps look at.
LEMMA WakeFacts ==
    ASSUME IInv, WInv
    PROVE  /\ BatchFits /\ EventsSeen /\ CompletionsSeen /\ LossSeen /\ UnreadSeen /\ CallFits
           /\ op \in {"none", "connect", "read", "write", "closed", "crashed"}
           /\ wait \in {"none", "epoll", "batch", "poll", "cm"}
           /\ wait \in {"batch", "poll"} => op \in {"read", "write"}
           /\ hw \in HwType /\ hw.ready \in Seq(Descriptors) /\ hw.cmq \in Seq(CmEvents)
           /\ hw.chan \in 0..1
           /\ flags \in FlagsType
           /\ flags.connected \in BOOLEAN /\ flags.failed \in BOOLEAN
<1>1. Typed /\ CallFits /\ NotifiedOnce
  BY DEF IInv
<1>2. /\ op \in {"none", "connect", "read", "write", "closed", "crashed"}
      /\ wait \in {"none", "epoll", "batch", "poll", "cm"} /\ hw \in HwType
      /\ flags \in FlagsType
  BY <1>1 DEF Typed
<1>3. wait \in {"batch", "poll"} => op \in {"read", "write"}
  BY <1>1, <1>2 DEF CallFits
<1>4. /\ hw.ready \in Seq(Descriptors) /\ hw.cmq \in Seq(CmEvents)
      /\ flags.connected \in BOOLEAN /\ flags.failed \in BOOLEAN
  BY <1>1, TypeFacts DEF Descriptors
<1> QED
  BY <1>1, <1>2, <1>3, <1>4 DEF WInv, NotifiedOnce

\* Steps that leave the hardware and the flags alone: what a call waits for changes.
LEMMA CallWakes ==
    ASSUME IInv, WInv, hw' = hw, flags' = flags, rx' = rx,
           \/ BeginRead \/ (\E n \in 1..MaxTx : BeginWrite(n)) \/ valkeyRdmaClose
           \/ WriteUnconnected \/ ReadUnconnected \/ SendFails
           \/ EpollNothing \/ HandleCqFails
    PROVE  WInv'
<1>0. /\ BatchFits /\ EventsSeen /\ CompletionsSeen /\ LossSeen /\ UnreadSeen /\ CallFits
      /\ wait \in {"none", "epoll", "batch", "poll", "cm"}
      /\ wait \in {"batch", "poll"} => op \in {"read", "write"}
  BY WakeFacts
<1>1. <<>> \in Seq(Descriptors)
  OBVIOUS
<1>2. CASE /\ op = "none" /\ batch' = batch /\ err' \in {err, "io"}
           /\ \/ op' \in {"read", "write"} /\ wait' = "epoll"
              \/ op' \in {"closed", "crashed"} /\ wait' = wait
              \/ op' = "none" /\ wait' = wait /\ err' = "io"
  <2>1. wait = "none"
    BY <1>2, <1>0 DEF CallFits
  <2>2. BatchFits' /\ batch = <<>>
    BY <1>0, <1>2, <2>1 DEF BatchFits
  <2>3. EventsSeen'
    BY <1>0, <1>2, <2>1 DEF EventsSeen, Awaits, Dropped
  <2>4. CompletionsSeen' /\ LossSeen' /\ UnreadSeen'
    BY <1>0, <1>2, <2>1 DEF CompletionsSeen, LossSeen, UnreadSeen
  <2> QED
    BY <2>2, <2>3, <2>4 DEF WInv
<1>3. CASE SendFails
  <2>1. /\ op = "write" /\ wait = "none" /\ hw.fabric = "down" /\ op' = "none"
        /\ wait' = wait /\ batch' = batch /\ err' = err
    BY <1>3 DEF SendFails
  <2>2. BatchFits'
    BY <1>0, <2>1 DEF BatchFits
  <2>3. EventsSeen'
    BY <1>0, <2>1 DEF EventsSeen, Awaits, Dropped
  <2>4. CompletionsSeen' /\ LossSeen' /\ UnreadSeen'
    BY <1>0, <2>1 DEF CompletionsSeen, LossSeen, UnreadSeen
  <2> QED
    BY <2>2, <2>3, <2>4 DEF WInv
<1>4. CASE err' # "none" /\ op' = "none" /\ batch' = <<>>
  <2>1. BatchFits' /\ EventsSeen' /\ LossSeen' /\ UnreadSeen'
    BY <1>0, <1>1, <1>4 DEF BatchFits, EventsSeen, LossSeen, UnreadSeen
  <2>2. CompletionsSeen'
    BY <1>0, <1>4 DEF CompletionsSeen
  <2> QED
    BY <2>1, <2>2 DEF WInv
<1>5. CASE /\ op \in {"read", "write"} /\ op' = op /\ wait = "epoll" /\ wait' = "none"
           /\ batch' = batch /\ err' = err
  <2>1. BatchFits'
    BY <1>0, <1>5 DEF BatchFits
  <2>2. EventsSeen'
    BY <1>0, <1>5 DEF EventsSeen, Awaits, Dropped
  <2>3. CompletionsSeen' /\ LossSeen' /\ UnreadSeen'
    BY <1>0, <1>5 DEF CompletionsSeen, LossSeen, UnreadSeen
  <2> QED
    BY <2>1, <2>2, <2>3 DEF WInv
<1>6. CASE BeginRead \/ (\E n \in 1..MaxTx : BeginWrite(n)) \/ valkeyRdmaClose
           \/ WriteUnconnected \/ ReadUnconnected
  BY <1>2, <1>6 DEF BeginRead, BeginWrite, Usable, Callable, valkeyRdmaClose,
     WriteUnconnected, ReadUnconnected
<1>7. CASE EpollNothing
  BY <1>4, <1>5, <1>7 DEF EpollNothing, Abort
<1>8. CASE HandleCqFails
  BY <1>4, <1>8 DEF HandleCqFails, Abort
<1> QED
  BY <1>3, <1>6, <1>7, <1>8

\* Steps that handle what epoll_wait returned.
LEMMA BatchWakes ==
    ASSUME IInv, WInv, hw' = hw, flags' = flags, rx' = rx,
           EventAck \/ HandleCM \/ PollCqEmpty \/ CmDoneIO \/ BatchDone
    PROVE  WInv'
<1>0. /\ BatchFits /\ EventsSeen /\ CompletionsSeen /\ LossSeen /\ UnreadSeen /\ CallFits
      /\ wait \in {"none", "epoll", "batch", "poll", "cm"}
      /\ wait \in {"batch", "poll"} => op \in {"read", "write"}
  BY WakeFacts
<1>1. <<>> \in Seq(Descriptors)
  OBVIOUS
<1>2. CASE EventAck \/ HandleCM
  <2>1. /\ wait = "batch" /\ batch # <<>> /\ batch' = Tail(batch)
        /\ \/ Head(batch) = "ev" /\ wait' = "batch"
           \/ Head(batch) = "cm" /\ wait' = "cm"
        /\ op' = op /\ err' = err
    BY <1>2 DEF EventAck, HandleCM
  <2>2. PICK b \in Seq(Descriptors) : b = batch
    BY <1>0 DEF BatchFits
  <2>3. /\ Tail(b) \in Seq(Descriptors)
        /\ \A d \in Descriptors : InSeq(b, d) /\ Head(b) # d => InSeq(Tail(b), d)
    BY <2>1, <2>2, TailKeeps
  <2>4. BatchFits'
    BY <1>0, <2>1, <2>2, <2>3 DEF BatchFits
  <2>5. EventsSeen'
    BY <1>0, <2>1, <2>2, <2>3 DEF EventsSeen, Awaits, Dropped, Descriptors
  <2>6. CompletionsSeen' /\ LossSeen' /\ UnreadSeen'
    BY <1>0, <2>1 DEF CompletionsSeen, LossSeen, UnreadSeen
  <2> QED
    BY <2>4, <2>5, <2>6 DEF WInv
<1>3. CASE PollCqEmpty
  <2>1. /\ wait = "poll" /\ hw.cq = <<>> /\ wait' = "batch" /\ op' = op /\ err' = err
        /\ batch' = batch
    BY <1>3 DEF PollCqEmpty
  <2>2. BatchFits'
    BY <1>0, <2>1 DEF BatchFits
  <2>3. EventsSeen'
    BY <1>0, <2>1 DEF EventsSeen, Awaits, Dropped
  <2>4. CompletionsSeen' /\ LossSeen' /\ UnreadSeen'
    BY <1>0, <2>1 DEF CompletionsSeen, LossSeen, UnreadSeen
  <2> QED
    BY <2>2, <2>3, <2>4 DEF WInv
<1>4. CASE CmDoneIO
  <2>1. op \in {"read", "write"} /\ wait = "cm" /\ hw.cmq = <<>>
    BY <1>4 DEF CmDoneIO
  <2>2. CASE flags.connected
    <3>1. wait' = "batch" /\ op' = op /\ err' = err /\ batch' = batch
      BY <1>4, <2>2 DEF CmDoneIO
    <3>2. BatchFits'
      BY <1>0, <2>1, <3>1 DEF BatchFits
    <3>3. EventsSeen'
      BY <1>0, <2>1, <3>1 DEF EventsSeen, Awaits, Dropped
    <3>4. CompletionsSeen' /\ LossSeen' /\ UnreadSeen'
      BY <1>0, <2>1, <2>2, <3>1 DEF CompletionsSeen, LossSeen, UnreadSeen
    <3> QED
      BY <3>2, <3>3, <3>4 DEF WInv
  <2>3. CASE ~ flags.connected
    <3>1. err' = "eof" /\ op' = "none" /\ wait' = "none" /\ batch' = <<>>
      BY <1>4, <2>3 DEF CmDoneIO, Abort
    <3>2. BatchFits' /\ EventsSeen' /\ LossSeen' /\ UnreadSeen'
      BY <1>0, <1>1, <3>1 DEF BatchFits, EventsSeen, LossSeen, UnreadSeen
    <3>3. CompletionsSeen'
      BY <1>0, <3>1 DEF CompletionsSeen
    <3> QED
      BY <3>2, <3>3 DEF WInv
  <2> QED
    BY <2>2, <2>3
<1>5. CASE BatchDone
  <2>1. /\ wait = "batch" /\ batch = <<>> /\ wait' = "none" /\ op' = op /\ err' = err
        /\ batch' = batch
    BY <1>5 DEF BatchDone
  <2>2. BatchFits'
    BY <1>0, <2>1 DEF BatchFits
  <2>3. EventsSeen'
    BY <1>0, <2>1 DEF EventsSeen, Awaits, Dropped
  <2>4. CompletionsSeen' /\ LossSeen' /\ UnreadSeen'
    BY <1>0, <2>1 DEF CompletionsSeen, LossSeen, UnreadSeen
  <2> QED
    BY <2>2, <2>3, <2>4 DEF WInv
<1> QED
  BY <1>2, <1>3, <1>4, <1>5

\* epoll_wait takes every edge; the handler of the channel takes its event and asks
\* for the next notification.
LEMMA EdgeWakes ==
    ASSUME IInv, WInv, EpollWait \/ HandleCq \/ PollCq
    PROVE  WInv'
<1>0. /\ BatchFits /\ EventsSeen /\ CompletionsSeen /\ LossSeen /\ UnreadSeen /\ CallFits
      /\ wait \in {"none", "epoll", "batch", "poll", "cm"}
      /\ wait \in {"batch", "poll"} => op \in {"read", "write"}
      /\ hw \in HwType /\ hw.ready \in Seq(Descriptors) /\ hw.chan \in 0..1
  BY WakeFacts
<1>1. <<>> \in Seq(Descriptors) /\ \A d : ~ InSeq(<<>>, d)
  BY NoneAwaited
<1>2. CASE EpollWait
  <2>1. /\ op \in {"read", "write"} /\ wait = "epoll" /\ batch' = hw.ready
        /\ hw' = [hw EXCEPT !.ready = <<>>] /\ wait' = "batch"
        /\ op' = op /\ err' = err /\ flags' = flags /\ rx' = rx
    BY <1>2 DEF EpollWait
  <2>2. /\ hw'.ready = <<>> /\ hw'.cmq = hw.cmq /\ hw'.chan = hw.chan /\ hw'.cq = hw.cq
        /\ hw'.fabric = hw.fabric /\ hw'.armed = hw.armed
    BY <1>0, <2>1 DEF HwType
  <2>3. BatchFits' /\ batch = <<>>
    BY <1>0, <2>1 DEF BatchFits
  <2>4. EventsSeen'
    BY <1>0, <1>1, <2>1, <2>2, <2>3 DEF EventsSeen, Awaits, Dropped
  <2>5. CompletionsSeen' /\ LossSeen' /\ UnreadSeen'
    BY <1>0, <2>1, <2>2 DEF CompletionsSeen, LossSeen, UnreadSeen
  <2> QED
    BY <2>3, <2>4, <2>5 DEF WInv
<1>3. CASE HandleCq
  <2>1. /\ wait = "batch" /\ batch # <<>> /\ Head(batch) = "comp" /\ batch' = Tail(batch)
        /\ op' = op /\ err' = err /\ flags' = flags /\ rx' = rx
    BY <1>3 DEF HandleCq
  <2>2. PICK b \in Seq(Descriptors) : b = batch
    BY <1>0 DEF BatchFits
  <2>3. /\ Tail(b) \in Seq(Descriptors)
        /\ \A d \in Descriptors : InSeq(b, d) /\ Head(b) # d => InSeq(Tail(b), d)
    BY <2>1, <2>2, TailKeeps
  <2>4. /\ hw'.ready = hw.ready /\ hw'.cmq = hw.cmq /\ hw'.cq = hw.cq
        /\ hw'.fabric = hw.fabric /\ hw'.chan = 0
        /\ \/ hw.chan = 0 /\ wait' = "batch" /\ hw'.armed = hw.armed
           \/ hw.chan = 1 /\ wait' = "poll" /\ hw'.armed = TRUE
    <3>0. hw.chan = 0 \/ hw.chan = 1
      BY <1>0
    <3>1. CASE hw.chan = 0
      <4>1. hw' = hw /\ wait' = wait
        BY <1>3, <3>1 DEF HandleCq
      <4> QED
        BY <2>1, <3>1, <4>1
    <3>2. CASE hw.chan = 1
      <4>1. hw' = [hw EXCEPT !.chan = 0, !.armed = TRUE] /\ wait' = "poll"
        BY <1>3, <3>2 DEF HandleCq
      <4> QED
        BY <1>0, <3>2, <4>1 DEF HwType
    <3> QED
      BY <3>0, <3>1, <3>2
  <2>5. BatchFits'
    BY <1>0, <2>1, <2>2, <2>3, <2>4 DEF BatchFits
  <2>6. EventsSeen'
    BY <1>0, <2>1, <2>2, <2>3, <2>4 DEF EventsSeen, Awaits, Dropped, Descriptors
  <2>7. CompletionsSeen' /\ LossSeen' /\ UnreadSeen'
    BY <1>0, <2>1, <2>4 DEF CompletionsSeen, LossSeen, UnreadSeen
  <2> QED
    BY <2>5, <2>6, <2>7 DEF WInv
<1>4. CASE PollCq
  <2>1. /\ wait = "poll" /\ hw' = [hw EXCEPT !.cq = Tail(@)]
        /\ op' = op /\ wait' = wait /\ batch' = batch /\ err' = err /\ flags' = flags
    BY <1>4 DEF PollCq, ctl
  <2>2. /\ hw'.ready = hw.ready /\ hw'.cmq = hw.cmq /\ hw'.chan = hw.chan
        /\ hw'.fabric = hw.fabric /\ hw'.armed = hw.armed
    BY <1>0, <2>1 DEF HwType
  <2>3. BatchFits'
    BY <1>0, <2>1 DEF BatchFits
  <2>4. EventsSeen'
    BY <1>0, <2>1, <2>2 DEF EventsSeen, Awaits, Dropped
  <2>5. CompletionsSeen' /\ LossSeen' /\ UnreadSeen'
    BY <1>0, <2>1, <2>2 DEF CompletionsSeen, LossSeen, UnreadSeen
  <2> QED
    BY <2>3, <2>4, <2>5 DEF WInv
<1> QED
  BY <1>2, <1>3, <1>4

\* A read takes all there is; a write that leaves bytes behind raises the event.
LEMMA TransferWakes ==
    ASSUME IInv, WInv, valkeyRdmaReadZC \/ valkeyRdmaWrite
    PROVE  WInv'
<1>0. /\ BatchFits /\ EventsSeen /\ CompletionsSeen /\ LossSeen /\ UnreadSeen /\ CallFits
      /\ hw \in HwType /\ hw.ready \in Seq(Descriptors) /\ rx \in RxType
  BY WakeFacts DEF IInv, Typed
<1>1. CASE valkeyRdmaReadZC
  <2>1. /\ op = "read" /\ wait = "none" /\ flags' = flags /\ hw' = hw /\ batch' = batch
        /\ \/ op' = op /\ wait' = "epoll" /\ err' = err /\ rx' = rx
           \/ /\ op' = "none" /\ wait' = "none" /\ err' \in {err, "noslot"}
              /\ rx'.reco = rx'.rxo
    <3>1. CASE rx.reco = rx.rxo /\ WaitAgain /\ UNCHANGED <<op, batch, err, rx, fed, slots, net>>
      BY <1>1, <3>1 DEF valkeyRdmaReadZC, WaitAgain
    <3>2. CASE /\ rx.reco < rx.rxo /\ op' = "none"
               /\ IF Exhausted(rx) THEN connRdmaRegisterRx
                  ELSE rx' = [rx EXCEPT !.reco = rx.rxo] /\ UNCHANGED <<err, slots, net>>
               /\ UNCHANGED <<wait, timed, batch>>
      <4>1. rx'.reco = rx'.rxo /\ err' \in {err, "noslot"}
        BY <1>0, <3>2 DEF connRdmaRegisterRx, RxType
      <4> QED
        BY <1>1, <3>2, <4>1 DEF valkeyRdmaReadZC
    <3> QED
      BY <1>1, <3>1, <3>2 DEF valkeyRdmaReadZC
  <2>2. BatchFits'
    BY <1>0, <2>1 DEF BatchFits
  <2>3. EventsSeen'
    BY <1>0, <2>1 DEF EventsSeen, Awaits, Dropped
  <2>4. CompletionsSeen' /\ LossSeen'
    BY <1>0, <2>1 DEF CompletionsSeen, LossSeen
  <2>5. UnreadSeen'
    <3>1. op' # "connect" /\ (op' = "none" => rx'.reco = rx'.rxo /\ rx'.reco \in Nat)
      <4>1. Typed'
        BY NextKeeps, <1>1 DEF Next, Library, IInv
      <4> QED
        BY <2>1, <4>1 DEF Typed, RxType
    <3> QED
      BY <3>1 DEF UnreadSeen
  <2> QED
    BY <2>2, <2>3, <2>4, <2>5 DEF WInv
<1>2. CASE valkeyRdmaWrite
  <2>1. /\ op = "write" /\ wait = "none" /\ flags' = flags /\ batch' = batch /\ err' = err
        /\ rx' = rx
        /\ \/ op' = op /\ wait' = "epoll" /\ hw' = hw
           \/ op' = op /\ wait' = wait /\ hw' = hw
           \/ op' = "none" /\ wait' = wait /\ hw' = Kick(hw)
    BY <1>2 DEF valkeyRdmaWrite, WaitAgain
  <2>2. /\ hw'.cq = hw.cq /\ hw'.cmq = hw.cmq /\ hw'.chan = hw.chan
        /\ hw'.armed = hw.armed /\ hw'.fabric = hw.fabric
        /\ \A d \in Descriptors : InSeq(hw.ready, d) => InSeq(hw'.ready, d)
        /\ op' = "none" /\ rx.reco < rx.rxo => InSeq(hw'.ready, "ev")
    <3>1. CASE hw' = hw /\ op' = op
      BY <2>1, <3>1
    <3>2. CASE hw' = Kick(hw) /\ rx.reco < rx.rxo
      <4>1. hw' = Raise(hw, "ev")
        BY <3>2 DEF Kick
      <4> QED
        BY <1>0, <4>1, RaiseSeen DEF SameButReady, Descriptors
    <3>3. CASE hw' = Kick(hw) /\ ~ (rx.reco < rx.rxo)
      BY <3>3 DEF Kick
    <3> QED
      BY <2>1, <3>1, <3>2, <3>3
  <2>3. BatchFits'
    BY <1>0, <2>1 DEF BatchFits
  <2>4. EventsSeen'
    BY <1>0, <2>1, <2>2 DEF EventsSeen, Awaits, Dropped, Descriptors
  <2>5. CompletionsSeen' /\ LossSeen' /\ UnreadSeen'
    BY <1>0, <2>1, <2>2 DEF CompletionsSeen, LossSeen, UnreadSeen
  <2> QED
    BY <2>3, <2>4, <2>5 DEF WInv
<1> QED
  BY <1>1, <1>2

\* Connecting: the only edge that the call drops is one of a connection that is down.
LEMMA ConnectWakes ==
    ASSUME IInv, WInv,
           valkeyContextConnectRdma \/ WaitConn \/ WaitConnTimeout \/ CmDoneConnecting
    PROVE  WInv'
<1>0. /\ BatchFits /\ EventsSeen /\ CompletionsSeen /\ LossSeen /\ UnreadSeen /\ CallFits
      /\ hw \in HwType /\ hw.ready \in Seq(Descriptors) /\ flags \in FlagsType
      /\ flags.connected \in BOOLEAN /\ flags.failed \in BOOLEAN /\ NothingBefore
      /\ hw.fabric \in Before \cup {"up", "down"}
  BY WakeFacts, TypeFacts DEF IInv
<1>1. op = "connect" /\ batch' = batch /\ rx' = rx
  BY DEF valkeyContextConnectRdma, WaitConn, WaitConnTimeout, CmDoneConnecting
<1>2. batch = <<>>
  BY <1>0, <1>1 DEF BatchFits
<1>3. ASSUME NEW e, FailConnect(e), e = "other" \/ (e = err /\ wait # "cm") \/ hw.cmq = <<>>,
             e = "other" \/ e = err, hw' = hw
      PROVE  WInv'
  <2>1. /\ op' = "none" /\ wait' = "none" /\ err' = e
        /\ flags'.connected = FALSE /\ flags'.failed = TRUE
    BY <1>3 DEF FailConnect
  <2>2. BatchFits'
    BY <1>0, <1>1, <1>2 DEF BatchFits
  <2>3. EventsSeen'
    BY <1>0, <1>1, <1>3, <2>1 DEF EventsSeen, Awaits, Dropped
  <2>4. CompletionsSeen'
    <3>1. wait # "poll"
      BY <1>0, <1>1 DEF CallFits
    <3> QED
      BY <1>0, <1>3, <2>1, <3>1 DEF CompletionsSeen
  <2>5. LossSeen' /\ UnreadSeen'
    BY <1>3, <2>1 DEF LossSeen, UnreadSeen
  <2> QED
    BY <2>2, <2>3, <2>4, <2>5 DEF WInv
<1>4. CASE valkeyContextConnectRdma
  <2>1. wait = "none" /\ hw.fabric = "none"
    BY <1>0, <1>1, <1>4 DEF valkeyContextConnectRdma, CallFits
  <2>2. CASE FailConnect("other") /\ UNCHANGED hw
    BY <1>3, <2>2
  <2>3. CASE wait' = "epoll" /\ hw' = [hw EXCEPT !.fabric = "addr"] /\ UNCHANGED <<op, err, flags>>
    <3>1. /\ hw'.cq = hw.cq /\ hw'.cmq = hw.cmq /\ hw'.ready = hw.ready /\ hw'.chan = hw.chan
          /\ hw'.armed = hw.armed /\ hw'.fabric = "addr"
      BY <1>0, <2>3 DEF HwType
    <3>2. BatchFits'
      BY <1>0, <1>1, <1>2 DEF BatchFits
    <3>3. EventsSeen'
      BY <1>0, <1>1, <2>1, <2>3, <3>1 DEF EventsSeen, Awaits, Dropped
    <3>4. CompletionsSeen' /\ LossSeen' /\ UnreadSeen'
      BY <1>0, <1>1, <2>1, <2>3, <3>1 DEF CompletionsSeen, LossSeen, UnreadSeen
    <3> QED
      BY <3>2, <3>3, <3>4 DEF WInv
  <2> QED
    BY <1>4, <2>2, <2>3 DEF valkeyContextConnectRdma
<1>5. CASE WaitConnTimeout
  BY <1>3, <1>5 DEF WaitConnTimeout
<1>6. CASE WaitConn
  <2>1. /\ wait = "epoll" /\ hw.ready # <<>> /\ wait' = "cm" /\ op' = op /\ err' = err
        /\ hw' = [hw EXCEPT !.ready = Tail(@)] /\ flags' = [flags EXCEPT !.failed = TRUE]
    BY <1>6 DEF WaitConn
  <2>2. /\ hw'.cq = hw.cq /\ hw'.cmq = hw.cmq /\ hw'.chan = hw.chan
        /\ hw'.armed = hw.armed /\ hw'.fabric = hw.fabric /\ hw'.ready = Tail(hw.ready)
        /\ flags'.connected = flags.connected /\ flags'.failed = TRUE
    BY <1>0, <2>1 DEF HwType, FlagsType
  <2>3. PICK r \in Seq(Descriptors) : r = hw.ready
    BY <1>0
  <2>4. \A d \in Descriptors : InSeq(r, d) /\ Head(r) # d => InSeq(Tail(r), d)
    BY <2>1, <2>3, TailKeeps
  <2>5. BatchFits'
    BY <1>0, <1>1, <1>2 DEF BatchFits
  <2>6. hw.fabric = "up" => Head(r) = "cm"
    BY <1>0, <1>1, <2>1, <2>3 DEF CallFits
  <2>7. hw.fabric \in Before => hw.chan = 0
    BY <1>0 DEF NothingBefore
  <2>8. ~ InSeq(batch, "comp")
    BY <1>2, NoneAwaited
  <2>9. EventsSeen'
    <3>1. SUFFICES ASSUME hw'.chan = 1, err' = "none", ~ Dropped'
                   PROVE  Awaits("comp")'
      BY <2>1 DEF EventsSeen
    <3>2. hw.fabric = "up" /\ ~ Dropped
      BY <1>0, <1>1, <2>1, <2>2, <2>7, <3>1 DEF Dropped
    <3>3. InSeq(r, "comp") /\ Head(r) = "cm"
      BY <1>0, <2>1, <2>2, <2>3, <2>6, <2>8, <3>1, <3>2 DEF EventsSeen, Awaits
    <3> QED
      BY <2>2, <2>3, <2>4, <3>3 DEF Awaits, Descriptors
  <2>10. CompletionsSeen' /\ LossSeen' /\ UnreadSeen'
    BY <1>0, <1>1, <2>1, <2>2 DEF CompletionsSeen, LossSeen, UnreadSeen
  <2> QED
    BY <2>5, <2>9, <2>10 DEF WInv
<1>7. CASE CmDoneConnecting
  <2>1. wait = "cm" /\ hw.cmq = <<>> /\ hw' = hw
    BY <1>7 DEF CmDoneConnecting
  <2>2. CASE FailConnect(err)
    BY <1>3, <2>1, <2>2
  <2>3. CASE /\ ~ flags.failed /\ flags.connected /\ op' = "none" /\ wait' = "none"
             /\ UNCHANGED <<err, flags, res>>
    <3>1. hw.fabric # "down"
      BY <1>0, <2>1, <2>3 DEF LossSeen
    <3>2. BatchFits'
      BY <1>0, <1>1, <1>2 DEF BatchFits
    <3>3. EventsSeen'
      BY <1>0, <1>1, <2>1, <2>3, <3>1 DEF EventsSeen, Awaits, Dropped
    <3>4. CompletionsSeen' /\ LossSeen'
      BY <1>0, <1>1, <2>1, <2>3 DEF CompletionsSeen, LossSeen
    <3>5. UnreadSeen'
      <4>1. rx.reco = rx.rxo /\ rx.reco \in Nat
        BY <1>0, <1>1, TypeFacts DEF UnreadSeen, IInv
      <4> QED
        BY <1>1, <2>3, <4>1 DEF UnreadSeen
    <3> QED
      BY <3>2, <3>3, <3>4, <3>5 DEF WInv
  <2>4. CASE ~ flags.failed /\ ~ flags.connected /\ wait' = "epoll" /\ UNCHANGED <<op, err, flags, res>>
    <3>1. BatchFits'
      BY <1>0, <1>1, <1>2 DEF BatchFits
    <3>2. EventsSeen'
      BY <1>0, <1>1, <2>1, <2>4 DEF EventsSeen, Awaits, Dropped
    <3>3. CompletionsSeen' /\ LossSeen' /\ UnreadSeen'
      BY <1>0, <1>1, <2>1, <2>4 DEF CompletionsSeen, LossSeen, UnreadSeen
    <3> QED
      BY <3>1, <3>2, <3>3 DEF WInv
  <2> QED
    BY <1>7, <2>2, <2>3, <2>4 DEF CmDoneConnecting
<1> QED
  BY <1>4, <1>5, <1>6, <1>7

\* An event of the connection manager is taken from the queue.
LEMMA CmEventWakes ==
    ASSUME IInv, WInv, CmEvent
    PROVE  WInv'
<1>0. /\ BatchFits /\ EventsSeen /\ CompletionsSeen /\ LossSeen /\ UnreadSeen /\ CallFits
      /\ hw \in HwType /\ hw.cmq \in Seq(CmEvents) /\ flags \in FlagsType /\ rx \in RxType
      /\ flags.connected \in BOOLEAN /\ flags.failed \in BOOLEAN
  BY WakeFacts DEF IInv, Typed
<1>1. wait = "cm" /\ hw.cmq # <<>> /\ op' = op /\ wait' = wait /\ batch' = batch
  BY DEF CmEvent
<1>2. PICK e \in CmEvents : e = Head(hw.cmq)
  <2>1. Head(hw.cmq) \in CmEvents
    BY <1>0, <1>1
  <2> QED
    BY <2>1
<1>3. /\ e \in {"addr_resolved", "route_resolved"} => op = "connect" /\ hw.fabric = "asked"
      /\ e = "established" =>
           /\ op = "connect"
           /\ hw.fabric = "up" \/ (hw.fabric = "down" /\ Tail(hw.cmq) = <<"disconnected">>)
      /\ e = "removed" => op = "connect" /\ hw.fabric = "down" /\ Tail(hw.cmq) = <<>>
      /\ op \in {"connect", "read", "write"}
  BY <1>1, <1>2, CmHead
<1>4. hw.fabric = "asked" => hw.chan = 0
  BY DEF IInv, NothingBefore, Before
<1>5. BatchFits'
  BY <1>0, <1>1 DEF BatchFits
<1>6. CASE e \in {"addr_resolved", "route_resolved"}
  <2>1. PICK c \in Seq(CmEvents) : c = Tail(hw.cmq)
    <3>1. Tail(hw.cmq) \in Seq(CmEvents)
      BY <1>0, <1>1
    <3> QED
      BY <3>1
  <2>2. /\ \/ hw' = [hw EXCEPT !.cmq = c]
           \/ hw' = [hw EXCEPT !.cmq = c, !.fabric = "route"]
           \/ hw' = [hw EXCEPT !.cmq = c, !.fabric = "conn", !.armed = TRUE]
        /\ flags' \in {[flags EXCEPT !.failed = TRUE], [flags EXCEPT !.failed = FALSE]}
        /\ rx' = rx
    BY <1>2, <1>6, <2>1 DEF CmEvent
  <2>3. /\ hw'.cq = hw.cq /\ hw'.chan = hw.chan /\ hw'.ready = hw.ready
        /\ hw'.fabric \in {"asked", "route", "conn"}
        /\ hw'.fabric = "conn" => hw'.armed = TRUE
    BY <1>0, <1>3, <1>6, <2>2 DEF HwType
  <2>4. EventsSeen'
    BY <1>1, <1>3, <1>4, <1>6, <2>3 DEF EventsSeen
  <2>5. err' \in {err, "other"}
    BY <1>2, <1>6 DEF CmEvent
  <2>6. CompletionsSeen' /\ LossSeen' /\ UnreadSeen'
    BY <1>0, <1>1, <1>3, <1>6, <2>2, <2>3, <2>5 DEF CompletionsSeen, LossSeen, UnreadSeen
  <2> QED
    BY <1>5, <2>4, <2>6 DEF WInv
<1>7. CASE e \in {"established", "rejected", "disconnected", "removed"}
  <2>1. /\ hw' = [hw EXCEPT !.cmq = Tail(@)]
        /\ err' = err \/ err' # "none"
        /\ \/ e = "established" /\ flags' = [connected |-> TRUE, failed |-> FALSE]
           \/ e \in {"rejected", "disconnected"} /\ flags' = [flags EXCEPT !.connected = FALSE]
           \/ e = "removed" /\ err' = "other" /\ flags' = [flags EXCEPT !.failed = TRUE]
        /\ rx' = rx \/ (e = "established" /\ rx' = [rx EXCEPT !.rxo = 0, !.reco = 0])
    BY <1>2, <1>3, <1>7 DEF CmEvent, connRdmaRegisterRx
  <2>2. /\ hw'.cq = hw.cq /\ hw'.cmq = Tail(hw.cmq) /\ hw'.chan = hw.chan /\ hw'.armed = hw.armed
        /\ hw'.ready = hw.ready /\ hw'.fabric = hw.fabric
    BY <1>0, <2>1 DEF HwType
  <2>3. EventsSeen'
    BY <1>0, <1>1, <1>3, <2>1, <2>2 DEF EventsSeen, Awaits, Dropped, FlagsType
  <2>4. CompletionsSeen'
    BY <1>0, <1>1, <2>1, <2>2 DEF CompletionsSeen
  <2>5. LossSeen'
    <3>1. SUFFICES ASSUME flags'.connected, hw.fabric = "down" PROVE Tail(hw.cmq) # <<>>
      BY <1>1, <2>2 DEF LossSeen
    <3>2. CASE e = "established"
      BY <1>3, <3>1, <3>2, CmQueues DEF CmEvents
    <3>3. CASE e \in {"rejected", "disconnected"}
      BY <1>0, <2>1, <3>1, <3>3 DEF FlagsType
    <3>4. CASE e = "removed"
      <4>1. flags.connected
        BY <1>0, <2>1, <3>1, <3>4 DEF FlagsType
      <4>2. hw.cmq \in {<<>>, <<"disconnected">>}
        BY <1>0, <1>3, <3>4, <4>1 DEF CallFits
      <4> QED
        BY <1>1, <1>2, <3>4, <4>2, CmQueues DEF CmEvents
    <3> QED
      BY <1>7, <3>2, <3>3, <3>4
  <2>6. UnreadSeen'
    <3>1. rx' = rx \/ (rx'.rxo = 0 /\ rx'.reco = 0)
      BY <1>0, <2>1 DEF RxType
    <3> QED
      BY <1>0, <1>1, <1>3, <3>1 DEF UnreadSeen
  <2> QED
    BY <1>5, <2>3, <2>4, <2>5, <2>6 DEF WInv
<1> QED
  BY <1>6, <1>7 DEF CmEvents

\* A completion raises the descriptor of its channel if notification was asked for.
LEMMA CompleteSeen ==
    ASSUME IInv, WInv, NEW wc \in WcType, hw' = Complete(hw, wc)
    PROVE  /\ hw'.cmq = hw.cmq /\ hw'.fabric = hw.fabric
           /\ \A d \in Descriptors : InSeq(hw.ready, d) => InSeq(hw'.ready, d)
           /\ \/ ~ hw.armed /\ hw'.armed = hw.armed /\ hw'.chan = hw.chan
              \/ hw'.chan = 1 /\ InSeq(hw'.ready, "comp")
<1>0. hw \in HwType /\ NotifiedOnce
  BY DEF IInv, Typed
<1>1. PICK c \in Seq(WcType) : c = hw.cq
  BY <1>0 DEF HwType
<1>2. PICK d \in Seq(WcType) : d = Append(c, wc)
  <2>1. Append(c, wc) \in Seq(WcType)
    OBVIOUS
  <2> QED
    BY <2>1
<1>3. PICK q : q = [hw EXCEPT !.cq = d]
  OBVIOUS
<1>4. /\ q \in HwType /\ q.cmq = hw.cmq /\ q.chan = hw.chan /\ q.armed = hw.armed
      /\ q.fabric = hw.fabric /\ q.ready = hw.ready
  BY <1>0, <1>3 DEF HwType
<1>5. hw' = IF hw.armed THEN Raise([q EXCEPT !.armed = FALSE, !.chan = @ + 1], "comp") ELSE q
  BY <1>1, <1>2, <1>3 DEF Complete
<1>6. CASE hw.armed
  <2>1. q.chan = 0
    BY <1>0, <1>4, <1>6 DEF NotifiedOnce
  <2>2. PICK h : h = [q EXCEPT !.armed = FALSE, !.chan = 1]
    OBVIOUS
  <2>3. /\ h \in HwType /\ h.cmq = hw.cmq /\ h.chan = 1 /\ h.fabric = hw.fabric
        /\ h.ready = hw.ready
    BY <1>4, <2>2 DEF HwType
  <2>4. hw' = Raise(h, "comp")
    <3>1. q.chan + 1 = 1
      BY <2>1
    <3>2. [q EXCEPT !.armed = FALSE, !.chan = @ + 1] = h
      BY <1>4, <2>2, <3>1 DEF HwType
    <3> QED
      BY <1>5, <1>6, <3>2
  <2>5. /\ SameButReady(hw', h) /\ InSeq(hw'.ready, "comp")
        /\ \A x \in Descriptors : InSeq(h.ready, x) => InSeq(hw'.ready, x)
    BY <2>3, <2>4, RaiseSeen DEF Descriptors
  <2> QED
    BY <2>3, <2>5 DEF SameButReady
<1>7. CASE ~ hw.armed
  <2>1. hw' = q
    BY <1>5, <1>7
  <2> QED
    BY <1>4, <1>7, <2>1
<1> QED
  BY <1>6, <1>7

\* The connection manager, the network and the server raise what they change.
LEMMA FabricWakes ==
    ASSUME IInv, WInv,
           Fabric \/ ServerRegisters \/ (\E n \in 1..RxLen : ServerSends(n))
    PROVE  WInv'
<1>0. /\ BatchFits /\ EventsSeen /\ CompletionsSeen /\ LossSeen /\ UnreadSeen /\ CallFits
      /\ hw \in HwType /\ hw.cmq \in Seq(CmEvents) /\ hw.ready \in Seq(Descriptors)
      /\ rx \in RxType
  BY WakeFacts DEF IInv, Typed
<1>1. /\ op' = op /\ wait' = wait /\ batch' = batch /\ err' = err /\ flags' = flags
  <2>1. UNCHANGED ctl
    BY Zenon DEF Fabric, FabricAnswers, DeliverToClient, DeliverToServer,
                 ServerRegisters, ServerSends
  <2> QED
    BY <2>1 DEF ctl
<1>2. BatchFits'
  BY <1>0, <1>1 DEF BatchFits
<1>3. ASSUME hw' = hw, rx'.rxo = rx.rxo, rx'.reco = rx.reco PROVE WInv'
  <2>1. EventsSeen'
    BY <1>0, <1>1, <1>3 DEF EventsSeen, Awaits, Dropped
  <2>2. CompletionsSeen' /\ LossSeen' /\ UnreadSeen'
    BY <1>0, <1>1, <1>3 DEF CompletionsSeen, LossSeen, UnreadSeen
  <2> QED
    BY <1>2, <2>1, <2>2 DEF WInv
<1>4. ASSUME NEW wc \in WcType, hw' = Complete(hw, wc), hw.fabric = "up",
             rx'.rxo = rx.rxo, rx'.reco = rx.reco
      PROVE  WInv'
  <2>1. /\ hw'.cmq = hw.cmq /\ hw'.fabric = hw.fabric
        /\ \A d \in Descriptors : InSeq(hw.ready, d) => InSeq(hw'.ready, d)
        /\ \/ ~ hw.armed /\ hw'.armed = hw.armed /\ hw'.chan = hw.chan
           \/ hw'.chan = 1 /\ InSeq(hw'.ready, "comp")
    BY <1>4, CompleteSeen
  <2>2. EventsSeen'
    BY <1>0, <1>1, <1>4, <2>1 DEF EventsSeen, Awaits, Dropped, Descriptors
  <2>3. CompletionsSeen' /\ LossSeen' /\ UnreadSeen'
    BY <1>0, <1>1, <1>4, <2>1 DEF CompletionsSeen, LossSeen, UnreadSeen, Descriptors
  <2> QED
    BY <1>2, <2>2, <2>3 DEF WInv
<1>5. CASE FabricAnswers
  <2>1. PICK x \in Before \cup {"up", "down"}, e \in CmEvents :
          /\ hw' = CmEventRaised([hw EXCEPT !.fabric = x], e)
          /\ hw.fabric \in {"addr", "route"} => x = "asked"
          /\ hw.fabric \in {"addr", "route", "conn", "up"}
    BY <1>5 DEF FabricAnswers, CmEvents, Before
  <2>2. PICK c \in Seq(CmEvents) : c = Append(hw.cmq, e) /\ c # <<>>
    <3>1. PICK b \in Seq(CmEvents) : b = hw.cmq
      BY <1>0
    <3>2. Append(b, e) \in Seq(CmEvents) /\ Len(Append(b, e)) = Len(b) + 1 /\ Len(b) \in Nat
      OBVIOUS
    <3>3. Append(b, e) # <<>>
      BY <3>2
    <3> QED
      BY <3>1, <3>2, <3>3
  <2>3. PICK h : h = [hw EXCEPT !.fabric = x, !.cmq = c]
    OBVIOUS
  <2>4. /\ h \in HwType /\ h.cq = hw.cq /\ h.cmq = c /\ h.chan = hw.chan
        /\ h.armed = hw.armed /\ h.ready = hw.ready /\ h.fabric = x
    BY <1>0, <2>3 DEF HwType
  <2>5. hw' = Raise(h, "cm")
    <3>1. [[hw EXCEPT !.fabric = x] EXCEPT !.cmq = Append(@, e)] = h
      BY <1>0, <2>2, <2>3 DEF HwType
    <3> QED
      BY <2>1, <3>1 DEF CmEventRaised
  <2>6. /\ SameButReady(hw', h) /\ InSeq(hw'.ready, "cm")
        /\ \A d \in Descriptors : InSeq(h.ready, d) => InSeq(hw'.ready, d)
    BY <2>4, <2>5, RaiseSeen DEF Descriptors
  <2>7. /\ hw'.cq = hw.cq /\ hw'.cmq # <<>> /\ hw'.chan = hw.chan
        /\ hw'.armed = hw.armed /\ hw'.fabric = x
        /\ \A d \in Descriptors : InSeq(hw.ready, d) => InSeq(hw'.ready, d)
    BY <2>2, <2>4, <2>6 DEF SameButReady
  <2>8. EventsSeen'
    BY <1>0, <1>1, <2>1, <2>6, <2>7 DEF EventsSeen, Awaits, Dropped, Descriptors
  <2>9. rx' = rx
    BY <1>5 DEF FabricAnswers
  <2>10. CompletionsSeen'
    BY <1>0, <1>1, <2>1, <2>7 DEF CompletionsSeen
  <2>11. LossSeen' /\ UnreadSeen'
    BY <1>0, <1>1, <2>1, <2>7, <2>9 DEF LossSeen, UnreadSeen, Descriptors
  <2> QED
    BY <1>2, <2>8, <2>10, <2>11 DEF WInv
<1>6. CASE DeliverToClient
  <2>1. net.toClient # <<>> /\ hw.fabric = "up"
    BY <1>6 DEF DeliverToClient
  <2>2. PICK t \in Seq(ToClientType) : t = net.toClient
    BY TypeFacts DEF IInv
  <2>3. PICK msg \in ToClientType : msg = Head(t)
    <3>1. Head(t) \in ToClientType
      BY <2>1, <2>2
    <3> QED
      BY <3>1
  <2>4. PICK wc \in WcType : wc = [kind |-> msg.kind, n |-> msg.n]
    BY DEF WcType, ToClientType
  <2>5. hw' = Complete(hw, wc)
    BY <1>6, <2>2, <2>3, <2>4 DEF DeliverToClient
  <2>6. rx'.rxo = rx.rxo /\ rx'.reco = rx.reco
    BY <1>0, <1>6 DEF DeliverToClient, RxType
  <2> QED
    BY <1>4, <2>1, <2>4, <2>5, <2>6
<1>7. CASE DeliverToServer
  <2>1. rx' = rx /\ hw.fabric = "up"
    BY <1>7 DEF DeliverToServer
  <2>2. CASE hw' = hw
    BY <1>3, <2>1, <2>2
  <2>3. CASE hw' = Complete(hw, [kind |-> "send", n |-> 0])
    <3>1. [kind |-> "send", n |-> 0] \in WcType
      BY DEF WcType
    <3> QED
      BY <1>4, <2>1, <2>3, <3>1
  <2> QED
    BY <1>7, <2>2, <2>3 DEF DeliverToServer
<1>8. CASE ServerRegisters \/ (\E n \in 1..RxLen : ServerSends(n))
  <2>1. UNCHANGED <<rx, hw>>
    <3>1. CASE ServerRegisters
      BY <3>1 DEF ServerRegisters
    <3>2. ASSUME NEW n \in 1..RxLen, ServerSends(n) PROVE UNCHANGED <<rx, hw>>
      BY <3>2, Zenon DEF ServerSends
    <3> QED
      BY <1>8, <3>1, <3>2
  <2> QED
    BY <1>3, <2>1
<1> QED
  BY <1>5, <1>6, <1>7, <1>8 DEF Fabric

\* Every step keeps what wakes the library.
LEMMA NextWakes ==
    ASSUME IInv, WInv, [Next]_vars
    PROVE  WInv'
<1>1. CASE Library
  <2>1. CASE valkeyContextConnectRdma \/ WaitConn \/ CmDoneConnecting
    BY <2>1, ConnectWakes
  <2>2. CASE CmEvent
    BY <2>2, CmEventWakes
  <2>3. CASE EpollWait \/ HandleCq \/ PollCq
    BY <2>3, EdgeWakes
  <2>4. CASE EventAck \/ PollCqEmpty \/ HandleCM \/ CmDoneIO \/ BatchDone
    <3>1. hw' = hw /\ flags' = flags /\ rx' = rx
      BY <2>4 DEF EventAck, PollCqEmpty, HandleCM, CmDoneIO, BatchDone
    <3> QED
      BY <2>4, <3>1, BatchWakes
  <2>5. CASE valkeyRdmaReadZC \/ valkeyRdmaWrite
    BY <2>5, TransferWakes
  <2> QED
    BY <1>1, <2>1, <2>2, <2>3, <2>4, <2>5 DEF Library
<1>2. CASE WaitConnTimeout
  BY <1>2, ConnectWakes
<1>3. CASE \/ BeginRead \/ (\E n \in 1..MaxTx : BeginWrite(n)) \/ valkeyRdmaClose
           \/ WriteUnconnected \/ ReadUnconnected \/ SendFails
           \/ EpollNothing \/ HandleCqFails
  <2>1. hw' = hw /\ flags' = flags /\ rx' = rx
    BY <1>3 DEF BeginRead, BeginWrite, valkeyRdmaClose, WriteUnconnected, ReadUnconnected,
                SendFails, EpollNothing, HandleCqFails
  <2> QED
    BY <1>3, <2>1, CallWakes
<1>4. CASE Fabric \/ ServerRegisters \/ (\E n \in 1..RxLen : ServerSends(n))
  BY <1>4, FabricWakes
<1>5. CASE UNCHANGED vars
  <2>1. /\ op' = op /\ wait' = wait /\ batch' = batch /\ err' = err /\ flags' = flags
        /\ rx' = rx /\ hw' = hw
    BY <1>5 DEF vars, ctl
  <2>2. BatchFits' /\ EventsSeen'
    BY <2>1 DEF WInv, BatchFits, EventsSeen, Awaits, Dropped
  <2>3. CompletionsSeen' /\ LossSeen' /\ UnreadSeen'
    BY <2>1 DEF WInv, CompletionsSeen, LossSeen, UnreadSeen
  <2> QED
    BY <2>2, <2>3 DEF WInv
<1> QED
  BY <1>1, <1>2, <1>3, <1>4, <1>5 DEF Next

\* Whatever the order of completions, events and calls: while there are bytes that
\* the caller can read, in the completion queue or left behind by a write, the
\* descriptor it polls is readable, and it is when the connection is lost
\* (connRdmaHandleCq, rdmaEventKick, valkeyRdmaWaitEvent).
THEOREM ReaderAlwaysWoken == Spec => []ReaderWoken
<1>1. Init => WInv
  <2>1. SUFFICES ASSUME Init PROVE WInv
    OBVIOUS
  <2>2. /\ op = "connect" /\ wait = "none" /\ batch = <<>> /\ err = "none"
        /\ flags.connected = FALSE /\ rx.rxo = 0 /\ rx.reco = 0
        /\ hw.cq = <<>> /\ hw.chan = 0 /\ hw.cmq = <<>> /\ hw.fabric = "none"
    BY <2>1 DEF Init
  <2>3. <<>> \in Seq(Descriptors)
    OBVIOUS
  <2>4. BatchFits /\ EventsSeen
    BY <2>2, <2>3 DEF BatchFits, EventsSeen
  <2>5. CompletionsSeen /\ LossSeen /\ UnreadSeen
    BY <2>2 DEF CompletionsSeen, LossSeen, UnreadSeen
  <2> QED
    BY <2>4, <2>5 DEF WInv
<1>2. IInv /\ WInv /\ [Next]_vars => WInv'
  BY NextWakes
<1>3. IInv /\ WInv => ReaderWoken
  <2>1. SUFFICES ASSUME IInv, WInv, op = "none", err = "none", ~ flags.failed,
                        \/ rx.reco < rx.rxo
                        \/ \E i \in DOMAIN hw.cq : hw.cq[i].kind = "imm"
                 PROVE  \E d : InSeq(hw.ready, d)
    <3>1. (\E d : InSeq(hw.ready, d)) => hw.ready # <<>>
      BY NoneAwaited
    <3> QED
      BY <3>1 DEF ReaderWoken, Usable, Callable
  <2>2. /\ BatchFits /\ EventsSeen /\ CompletionsSeen /\ LossSeen /\ UnreadSeen
        /\ wait = "none"
    BY <2>1, WakeFacts DEF CallFits
  <2>3. batch = <<>> /\ \A d : Awaits(d) => InSeq(hw.ready, d)
    BY <2>2, NoneAwaited DEF BatchFits, Awaits
  <2>4. CASE hw.fabric = "down"
    <3>1. hw.cmq # <<>>
      BY <2>1, <2>2, <2>4 DEF LossSeen
    <3> QED
      BY <2>1, <2>2, <2>3, <3>1 DEF EventsSeen
  <2>5. CASE hw.fabric # "down" /\ rx.reco < rx.rxo
    BY <2>1, <2>2, <2>5 DEF UnreadSeen
  <2>6. CASE hw.fabric # "down" /\ \E i \in DOMAIN hw.cq : hw.cq[i].kind = "imm"
    <3>1. hw.cq # <<>>
      BY <2>6
    <3>2. hw.chan = 1 /\ ~ Dropped
      BY <2>1, <2>2, <2>6, <3>1 DEF CompletionsSeen, Dropped
    <3> QED
      BY <2>1, <2>2, <2>3, <3>2 DEF EventsSeen
  <2> QED
    BY <2>1, <2>4, <2>5, <2>6
<1> QED
  BY <1>1, <1>2, <1>3, InitKeeps, NextKeeps, PTL DEF Spec
=============================================================================
