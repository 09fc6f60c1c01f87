-------------------------------- MODULE Rdma --------------------------------
(***************************************************************************)
(* The RDMA transport of src/src/rdma.c: connection set-up driven by events *)
(* of the connection manager, and the two byte streams on top of RDMA       *)
(* writes.  Each side registers a buffer that the other one fills from its  *)
(* start to its end; when the reader has taken the last byte it registers   *)
(* the buffer again.                                                       *)
(*                                                                         *)
(* The connection manager, the completion queue with its one-shot           *)
(* notification, the edge-triggered epoll descriptor and the server run     *)
(* concurrently with the thread inside of the library, which is modelled    *)
(* from one call on one of them to the next.  Bytes are numbered, so that   *)
(* an overwritten, a lost or a repeated one shows.                          *)
(***************************************************************************)
EXTENDS Integers, Sequences, FiniteSets

CONSTANTS
    RxLen,      \* VALKEY_RDMA_DEFAULT_RX_LEN, the buffer the server fills
    TxLen,      \* the length of the buffer that the server registers
    Slots,      \* VALKEY_RDMA_MAX_WQE, command buffers for sending
    MaxRx,      \* bound: bytes the server sends
    MaxTx       \* bound: bytes the client sends

ASSUME RdmaAssumption ==
    RxLen \in Nat \ {0} /\ TxLen \in Nat \ {0} /\ Slots \in Nat \ {0}
    /\ MaxRx \in Nat /\ MaxTx \in Nat

VARIABLES
    op,         \* the call under way: "none", "connect", "read", "write"; or "closed",
                \* or "crashed"
    wait,       \* where valkeyRdmaWaitEvent is: "none", "epoll", "batch", "poll", "cm"
    timed,      \* the wait under way may block and may time out
    batch,      \* descriptors returned by epoll_wait and not handled yet
    err,        \* c->err
    flags,      \* [connected, failed]: VALKEY_CONNECTED; the connect call failed
    res,        \* resources of the connection manager and of verbs that are held
    rx,         \* rx_offset, recv_offset, recv_buf, and the piece read_zc returned
    tx,         \* tx_length, tx_offset, and the write under way
    slots,      \* free command buffers
    fed,        \* bytes fed to the reader
    hw,         \* completion queue, notification, epoll ready list, CM events
    net,        \* messages on their way to the client and to the server
    srv         \* the server

ctl == <<op, wait, timed, batch, err, flags, res>>
vars == <<ctl, rx, tx, slots, fed, hw, net, srv>>

CmResources == {"cm_channel", "cm_id", "evfd", "epfd"}
VerbsResources == {"pd", "comp_channel", "cq", "qp", "iobuf"}

Least(a, b) == IF a < b THEN a ELSE b
InSeq(s, e) == \E i \in DOMAIN s : s[i] = e

\* A descriptor becomes readable: the edge is kept until epoll_wait takes it.
Raise(h, fd) == IF InSeq(h.ready, fd) THEN h ELSE [h EXCEPT !.ready = Append(@, fd)]

\* A completion: the channel gets an event only if notification was asked for.
Complete(h, wc) ==
    LET q == [h EXCEPT !.cq = Append(@, wc)]
    IN  IF h.armed THEN Raise([q EXCEPT !.armed = FALSE, !.chan = @ + 1], "comp") ELSE q

CmEventRaised(h, e) == Raise([h EXCEPT !.cmq = Append(@, e)], "cm")
-----------------------------------------------------------------------------
(* Set-up *)

\* The error path of valkeyContextConnectRdma gives back what it owns itself.
Released == res \ CmResources

FailConnect(e) ==
    /\ op' = "none" /\ wait' = "none"
    /\ err' = e
    /\ flags' = [connected |-> FALSE, failed |-> TRUE]
    /\ res' = Released

\* valkeyContextConnectRdma up to the wait: every resource may be refused, in
\* which case the ones held are given back and c->err says so.
valkeyContextConnectRdma ==
    /\ op = "connect" /\ wait = "none"
    /\ \/ /\ wait' = "epoll"
          /\ res' = CmResources
          /\ hw' = [hw EXCEPT !.fabric = "addr"]
          /\ UNCHANGED <<op, err, flags>>
       \/ FailConnect("other") /\ UNCHANGED hw
    /\ UNCHANGED <<timed, batch, rx, tx, slots, fed, net, srv>>

\* valkeyRdmaWaitConn: the only descriptor it expects is the CM channel.
WaitConn ==
    /\ op = "connect" /\ wait = "epoll" /\ hw.ready # <<>>
    /\ hw' = [hw EXCEPT !.ready = Tail(@)]
    /\ wait' = "cm"
    /\ flags' = [flags EXCEPT !.failed = TRUE]      \* ret = VALKEY_ERR
    /\ UNCHANGED <<op, timed, batch, err, res, rx, tx, slots, fed, net, srv>>

\* The deadline passes: VALKEY_ERR is returned and c->err is left alone.
WaitConnTimeout ==
    /\ op = "connect" /\ wait = "epoll"
    /\ FailConnect(err)
    /\ UNCHANGED <<timed, batch, rx, tx, slots, fed, hw, net, srv>>

\* The offsets start over and the server is told; there may be no command
\* buffer left to tell it with.
connRdmaRegisterRx ==
    IF slots = 0 THEN err' = "noslot" /\ rx' = [rx EXCEPT !.rxo = 0, !.reco = 0]
                      /\ UNCHANGED <<slots, net>>
    ELSE /\ slots' = slots - 1
         /\ rx' = [rx EXCEPT !.rxo = 0, !.reco = 0]
         /\ net' = [net EXCEPT !.toServer = Append(@, [kind |-> "reg"])]
         /\ UNCHANGED err

\* One event inside of valkeyRdmaCM.  failed plays the part of ret: it is what
\* the last event returned, and the events that report a refusal leave it as it
\* is.  valkeyRdmaConnect acquires the verbs resources or gives all of them back.
CmEvent ==
    /\ wait = "cm" /\ hw.cmq # <<>>
    /\ LET e == Head(hw.cmq)
           h == [hw EXCEPT !.cmq = Tail(@)]
       IN  \/ /\ e = "addr_resolved"
              /\ \/ /\ flags' = [flags EXCEPT !.failed = FALSE]
                    /\ hw' = [h EXCEPT !.fabric = "route"]
                    /\ UNCHANGED err
                 \/ err' = "other" /\ hw' = h /\ flags' = [flags EXCEPT !.failed = TRUE]
              /\ UNCHANGED <<res, rx, slots, net>>
           \/ /\ e = "route_resolved"
              /\ \/ /\ flags' = [flags EXCEPT !.failed = FALSE]
                    /\ res' = res \cup VerbsResources
                    /\ hw' = [h EXCEPT !.fabric = "conn", !.armed = TRUE]
                    /\ UNCHANGED err
                 \/ /\ err' = "other" /\ flags' = [flags EXCEPT !.failed = TRUE]
                    /\ hw' = h /\ UNCHANGED res
              /\ UNCHANGED <<rx, slots, net>>
           \/ /\ e = "established"                    \* valkeyRdmaEstablished
              /\ flags' = [connected |-> TRUE, failed |-> FALSE]
              /\ hw' = h
              /\ connRdmaRegisterRx
              /\ UNCHANGED res
           \/ /\ e \in {"rejected", "disconnected"}
              /\ flags' = [flags EXCEPT !.connected = FALSE]
              /\ hw' = h
              /\ UNCHANGED <<err, res, rx, slots, net>>
           \/ /\ e = "removed"                        \* the default case
              /\ err' = "other"
              /\ flags' = [flags EXCEPT !.failed = @ \/ op = "connect"]
              /\ hw' = h
              /\ UNCHANGED <<res, rx, slots, net>>
    /\ UNCHANGED <<op, wait, timed, batch, tx, fed, srv>>

\* Back in valkeyRdmaWaitConn.
CmDoneConnecting ==
    /\ op = "connect" /\ wait = "cm" /\ hw.cmq = <<>>
    /\ \/ flags.failed /\ FailConnect(err)
       \/ /\ ~ flags.failed /\ flags.connected
          /\ op' = "none" /\ wait' = "none"
          /\ UNCHANGED <<err, flags, res>>
       \/ /\ ~ flags.failed /\ ~ flags.connected
          /\ wait' = "epoll"
          /\ UNCHANGED <<op, err, flags, res>>
    /\ UNCHANGED <<timed, batch, rx, tx, slots, fed, hw, net, srv>>
-----------------------------------------------------------------------------
(* valkeyRdmaWaitEvent *)

\* valkeyBufferRead and valkeyBufferWrite look at c->err alone, which a connect
\* that timed out or was rejected has left at 0 with c->privctx NULL.
Callable == op = "none" /\ err = "none"
Usable == Callable /\ ~ flags.failed

\* An error in the middle of a read or a write.
Abort(e) == err' = e /\ op' = "none" /\ wait' = "none" /\ batch' = <<>>

\* epoll_wait takes every edge there is.
EpollWait ==
    /\ op \in {"read", "write"} /\ wait = "epoll" /\ hw.ready # <<>>
    /\ batch' = hw.ready
    /\ hw' = [hw EXCEPT !.ready = <<>>]
    /\ wait' = "batch"
    /\ UNCHANGED <<op, timed, err, flags, res, rx, tx, slots, fed, net, srv>>

\* Nothing is ready and a poll returns; or the command timeout is over, which
\* is looked at before the wait as well.
EpollNothing ==
    /\ op \in {"read", "write"} /\ wait = "epoll" /\ (timed \/ hw.ready = <<>>)
    /\ IF timed THEN Abort("io") ELSE wait' = "none" /\ UNCHANGED <<op, err, batch>>
    /\ UNCHANGED <<timed, flags, res, rx, tx, slots, fed, hw, net, srv>>

EventAck ==
    /\ wait = "batch" /\ batch # <<>> /\ Head(batch) = "ev"
    /\ batch' = Tail(batch)
    /\ UNCHANGED <<op, wait, timed, err, flags, res, rx, tx, slots, fed, hw, net, srv>>

\* Faulty variant: notification is not asked for again.
HandleCq_NotArmed ==
    /\ wait = "batch" /\ batch # <<>> /\ Head(batch) = "comp"
    /\ batch' = Tail(batch)
    /\ IF hw.chan = 0 THEN UNCHANGED <<hw, wait>>
       ELSE /\ hw' = [hw EXCEPT !.chan = @ - 1]
            /\ wait' = "poll"
    /\ UNCHANGED <<op, timed, err, flags, res, rx, tx, slots, fed, net, srv>>

\* connRdmaHandleCq takes one event from the channel and asks for the next
\* notification before it looks into the queue.
HandleCq ==
    /\ wait = "batch" /\ batch # <<>> /\ Head(batch) = "comp"
    /\ batch' = Tail(batch)
    /\ IF hw.chan = 0 THEN UNCHANGED <<hw, wait>>
       ELSE /\ hw' = [hw EXCEPT !.chan = @ - 1, !.armed = TRUE]
            /\ wait' = "poll"
    /\ UNCHANGED <<op, timed, err, flags, res, rx, tx, slots, fed, net, srv>>

connRdmaHandleSend == slots' = slots + 1

\* One completion: a buffer registered by the server, bytes in the receive
\* buffer (connRdmaHandleRecvImm asserts that they fit), a command sent.
PollCq ==
    /\ wait = "poll" /\ hw.cq # <<>>
    /\ hw' = [hw EXCEPT !.cq = Tail(@)]
    /\ LET wc == Head(hw.cq)
       IN  \/ /\ wc.kind = "reg"
              /\ tx' = [tx EXCEPT !.len = wc.n, !.off = 0]
              /\ UNCHANGED <<rx, slots>>
           \/ /\ wc.kind = "imm"
              /\ rx' = [rx EXCEPT !.rxo = @ + wc.n]
              /\ UNCHANGED <<tx, slots>>
           \/ /\ wc.kind = "send"
              /\ connRdmaHandleSend
              /\ UNCHANGED <<rx, tx>>
    /\ UNCHANGED <<ctl, fed, net, srv>>

PollCqEmpty ==
    /\ wait = "poll" /\ hw.cq = <<>>
    /\ wait' = "batch"
    /\ UNCHANGED <<op, timed, batch, err, flags, res, rx, tx, slots, fed, hw, net, srv>>

\* A failed completion, or a system call that fails.
HandleCqFails ==
    /\ wait = "poll" /\ hw.fabric = "down"
    /\ Abort("other")
    /\ UNCHANGED <<timed, flags, res, rx, tx, slots, fed, hw, net, srv>>

HandleCM ==
    /\ wait = "batch" /\ batch # <<>> /\ Head(batch) = "cm"
    /\ batch' = Tail(batch)
    /\ wait' = "cm"
    /\ UNCHANGED <<op, timed, err, flags, res, rx, tx, slots, fed, hw, net, srv>>

\* A connection that is no longer up ends the call, with the bytes that are
\* already in the receive buffer unread.
CmDoneIO ==
    /\ op \in {"read", "write"} /\ wait = "cm" /\ hw.cmq = <<>>
    /\ IF flags.connected THEN wait' = "batch" /\ UNCHANGED <<op, err, batch>>
       ELSE Abort("eof")
    /\ UNCHANGED <<timed, flags, res, rx, tx, slots, fed, hw, net, srv>>

BatchDone ==
    /\ wait = "batch" /\ batch = <<>>
    /\ wait' = "none"
    /\ UNCHANGED <<op, timed, batch, err, flags, res, rx, tx, slots, fed, hw, net, srv>>
-----------------------------------------------------------------------------
(* Reading and writing *)

\* valkeyRdmaReadZC and valkeyRdmaWrite start with a look at what is there.
BeginRead ==
    /\ Usable
    /\ op' = "read" /\ wait' = "epoll" /\ timed' = FALSE
    /\ UNCHANGED <<batch, err, flags, res, rx, tx, slots, fed, hw, net, srv>>

BeginWrite(n) ==
    /\ Usable
    /\ tx.total + n <= MaxTx
    /\ op' = "write" /\ wait' = "epoll" /\ timed' = FALSE
    /\ tx' = [tx EXCEPT !.todo = n]
    /\ UNCHANGED <<batch, err, flags, res, rx, slots, fed, hw, net, srv>>

\* Without a connection the write follows c->privctx; the read gets as far as the
\* epoll descriptor, which was closed.
WriteUnconnected ==
    /\ Callable /\ flags.failed
    /\ op' = "crashed"
    /\ UNCHANGED <<wait, timed, batch, err, flags, res, rx, tx, slots, fed, hw, net, srv>>

ReadUnconnected ==
    /\ Callable /\ flags.failed
    /\ err' = "io"
    /\ UNCHANGED <<op, wait, timed, batch, flags, res, rx, tx, slots, fed, hw, net, srv>>

WaitAgain == wait' = "epoll" /\ timed' = TRUE

\* Faulty variant: the buffer is registered again while it still has room.
Exhausted_Early(r) == r.rxo > 0

\* Whether the receive buffer has been used up to its end.
Exhausted(r) == r.rxo = RxLen

\* valkeyBufferRead: read_zc returns the unread bytes, they are copied into the
\* reader, and read_zc_done registers the buffer again when it is used up.
valkeyRdmaReadZC ==
    /\ op = "read" /\ wait = "none"
    /\ \/ /\ rx.reco = rx.rxo
          /\ WaitAgain
          /\ UNCHANGED <<op, batch, err, rx, fed, slots, net>>
       \/ /\ rx.reco < rx.rxo
          /\ fed' = fed \o [i \in 1..(rx.rxo - rx.reco) |-> rx.buf[rx.reco + i]]
          /\ op' = "none"
          /\ IF Exhausted(rx) THEN connRdmaRegisterRx
             ELSE rx' = [rx EXCEPT !.reco = rx.rxo] /\ UNCHANGED <<err, slots, net>>
          /\ UNCHANGED <<wait, timed, batch>>
    /\ UNCHANGED <<flags, res, tx, hw, srv>>

\* What fits into the server's buffer.
Chunk == Least(tx.len - tx.off, tx.todo)

\* Faulty variant: the reader is not woken up.
Kick_Never(h) == h

Kick(h) == IF rx.reco < rx.rxo THEN Raise(h, "ev") ELSE h

\* connRdmaSend, and the wait for a new buffer when the server's is full.  A
\* write that leaves unread bytes behind schedules an event for the reader.
valkeyRdmaWrite ==
    /\ op = "write" /\ wait = "none"
    /\ \/ /\ tx.off = tx.len
          /\ WaitAgain
          /\ UNCHANGED <<op, tx, net, hw>>
       \/ /\ tx.off < tx.len
          /\ LET n == Chunk
                 bytes == [i \in 1..n |-> tx.total + i]
             IN  /\ net' = [net EXCEPT !.toServer = Append(@, [kind |-> "imm",
                                          off |-> tx.off, bytes |-> bytes])]
                 /\ tx' = [tx EXCEPT !.off = @ + n, !.total = @ + n, !.todo = @ - n]
                 /\ op' = IF tx.todo = n THEN "none" ELSE "write"
                 /\ hw' = IF tx.todo = n THEN Kick(hw) ELSE hw
          /\ UNCHANGED <<wait, timed>>
    /\ UNCHANGED <<batch, err, flags, res, rx, slots, fed, srv>>

\* ibv_post_send fails on a broken queue pair: VALKEY_ERR, and c->err stays 0.
SendFails ==
    /\ op = "write" /\ wait = "none" /\ tx.off < tx.len /\ hw.fabric = "down"
    /\ op' = "none"
    /\ UNCHANGED <<wait, timed, batch, err, flags, res, rx, tx, slots, fed, hw, net, srv>>

\* valkeyFree: everything is given back if the connect call had succeeded;
\* otherwise c->privctx is NULL and there is nothing to close.
valkeyRdmaClose ==
    /\ op = "none"
    /\ op' = "closed"
    /\ res' = IF flags.failed /\ ~ flags.connected THEN res ELSE {}
    /\ UNCHANGED <<wait, timed, batch, err, flags, rx, tx, slots, fed, hw, net, srv>>
-----------------------------------------------------------------------------
(* The connection manager, the network and the server (external). *)

FabricAnswers ==
    /\ \/ /\ hw.fabric = "addr"
          /\ \E e \in {"addr_resolved", "rejected"} :
                hw' = CmEventRaised([hw EXCEPT !.fabric = "asked"], e)
          /\ UNCHANGED srv
       \/ /\ hw.fabric = "route"
          /\ \E e \in {"route_resolved", "rejected"} :
                hw' = CmEventRaised([hw EXCEPT !.fabric = "asked"], e)
          /\ UNCHANGED srv
       \/ /\ hw.fabric = "conn"
          /\ \/ /\ hw' = CmEventRaised([hw EXCEPT !.fabric = "up"], "established")
                /\ srv' = [srv EXCEPT !.up = TRUE, !.mustRegister = TRUE]
             \/ /\ \E e \in {"rejected", "removed"} :
                      hw' = CmEventRaised([hw EXCEPT !.fabric = "down"], e)
                /\ UNCHANGED srv
       \/ /\ hw.fabric = "up"
          /\ hw' = CmEventRaised([hw EXCEPT !.fabric = "down"], "disconnected")
          /\ srv' = [srv EXCEPT !.up = FALSE]
    /\ UNCHANGED <<ctl, rx, tx, slots, fed, net>>

\* An RDMA write is in the client's memory before its completion is queued.
DeliverToClient ==
    /\ net.toClient # <<>> /\ hw.fabric = "up"
    /\ LET msg == Head(net.toClient)
       IN  /\ hw' = Complete(hw, [kind |-> msg.kind, n |-> msg.n])
           /\ rx' = [rx EXCEPT !.buf = [i \in DOMAIN @ |->
                        IF i \in (msg.off + 1)..(msg.off + Len(msg.bytes))
                        THEN msg.bytes[i - msg.off] ELSE @[i]]]
    /\ net' = [net EXCEPT !.toClient = Tail(@)]
    /\ UNCHANGED <<ctl, tx, slots, fed, srv>>

\* The server reads at once and registers its buffer again at its end.
DeliverToServer ==
    /\ net.toServer # <<>> /\ hw.fabric = "up"
    /\ LET msg == Head(net.toServer)
       IN  IF msg.kind = "reg"
           THEN /\ srv' = [srv EXCEPT !.win = RxLen, !.off = 0]
                /\ hw' = Complete(hw, [kind |-> "send", n |-> 0])
           ELSE /\ srv' = [srv EXCEPT !.got = @ \o msg.bytes, !.end = msg.off + Len(msg.bytes),
                                      !.mustRegister = msg.off + Len(msg.bytes) = TxLen]
                /\ UNCHANGED hw
    /\ net' = [net EXCEPT !.toServer = Tail(@)]
    /\ UNCHANGED <<ctl, rx, tx, slots, fed>>

ServerRegisters ==
    /\ srv.up /\ srv.mustRegister
    /\ srv' = [srv EXCEPT !.mustRegister = FALSE]
    /\ net' = [net EXCEPT !.toClient = Append(@, [kind |-> "reg", n |-> TxLen,
                                                  off |-> 0, bytes |-> <<>>])]
    /\ UNCHANGED <<ctl, rx, tx, slots, fed, hw>>

ServerSends(n) ==
    /\ srv.up
    /\ srv.off + n <= srv.win /\ srv.sent + n <= MaxRx
    /\ net' = [net EXCEPT !.toClient = Append(@, [kind |-> "imm", n |-> n, off |-> srv.off,
                                        bytes |-> [i \in 1..n |-> srv.sent + i]])]
    /\ srv' = [srv EXCEPT !.off = @ + n, !.sent = @ + n]
    /\ UNCHANGED <<ctl, rx, tx, slots, fed, hw>>
-----------------------------------------------------------------------------
Init ==
    /\ op = "connect" /\ wait = "none" /\ timed = FALSE /\ batch = <<>>
    /\ err = "none"
    /\ flags = [connected |-> FALSE, failed |-> FALSE]
    /\ res = {}
    /\ rx = [rxo |-> 0, reco |-> 0, buf |-> [i \in 1..RxLen |-> 0]]
    /\ tx = [len |-> 0, off |-> 0, total |-> 0, todo |-> 0]
    /\ slots = Slots
    /\ fed = <<>>
    /\ hw = [cq |-> <<>>, armed |-> FALSE, chan |-> 0, ready |-> <<>>, cmq |-> <<>>,
             fabric |-> "none"]
    /\ net = [toClient |-> <<>>, toServer |-> <<>>]
    /\ srv = [up |-> FALSE, mustRegister |-> FALSE, win |-> 0, off |-> 0, sent |-> 0,
              got |-> <<>>, end |-> 0]

Library ==
    \/ valkeyContextConnectRdma \/ WaitConn \/ CmEvent \/ CmDoneConnecting
    \/ EpollWait \/ EventAck \/ HandleCq \/ PollCq \/ PollCqEmpty
    \/ HandleCM \/ CmDoneIO \/ BatchDone \/ valkeyRdmaReadZC \/ valkeyRdmaWrite

Fabric == FabricAnswers \/ DeliverToClient \/ DeliverToServer

Next ==
    \/ Library \/ WaitConnTimeout \/ EpollNothing \/ HandleCqFails \/ SendFails
    \/ BeginRead \/ (\E n \in 1..MaxTx : BeginWrite(n)) \/ valkeyRdmaClose
    \/ WriteUnconnected \/ ReadUnconnected
    \/ Fabric \/ ServerRegisters \/ (\E n \in 1..RxLen : ServerSends(n))

Spec == Init /\ [][Next]_vars

\* The thread inside of the library runs, a poll returns, messages arrive and
\* the server gives back its buffer.  Nothing makes a timeout happen.
LiveSpec ==
    /\ Spec
    /\ WF_vars(Library) /\ WF_vars(EpollNothing /\ ~ timed)
    /\ WF_vars(DeliverToClient) /\ WF_vars(DeliverToServer) /\ WF_vars(ServerRegisters)
-----------------------------------------------------------------------------
(* Properties *)

\* Types: offsets stay inside of the buffers they index.
TypeOK ==
    /\ rx.reco \in 0..rx.rxo /\ rx.rxo \in 0..RxLen
    /\ tx.off \in 0..tx.len /\ tx.len \in {0, TxLen}
    /\ slots \in 0..Slots
    /\ hw.chan \in 0..1
    /\ err \in {"none", "other", "io", "eof"}

\* Both streams arrive as they were sent: no byte is overwritten before it was
\* read, none is lost or repeated when a buffer is registered again
\* (valkeyRdmaReadZC, valkeyRdmaReadZCDone, connRdmaRegisterRx, connRdmaSend).
StreamsIntact ==
    /\ \A i \in DOMAIN fed : fed[i] = i
    /\ \A i \in DOMAIN srv.got : srv.got[i] = i

\* The client never writes past the end of the server's buffer, nor into one
\* that the server has not registered again (connRdmaSend).
WritesFit ==
    \A i \in DOMAIN net.toServer :
        LET msg == net.toServer[i]
        IN  msg.kind = "imm" => msg.off + Len(msg.bytes) <= TxLen

\* Whoever polls c->fd before reading is woken up for every byte there is to read,
\* whether it is in the completion queue or was taken from it by a write, which
\* consumes the edge of the completion channel (rdmaEventKick in valkeyRdmaWrite,
\* connRdmaHandleCq); a connection that is down again wakes the reader as well.
ReaderWoken ==
    Usable /\ (rx.reco < rx.rxo \/ \E i \in DOMAIN hw.cq : hw.cq[i].kind = "imm")
        => hw.ready # <<>>

\* While it waits for the connection the library is woken up by the CM channel
\* alone (the assert of valkeyRdmaWaitConn).
\* The code does not keep it (README.md, section 4).
WaitConnSeesCM ==
    op = "connect" /\ wait = "epoll" /\ hw.ready # <<>> => Head(hw.ready) = "cm"

\* A connect call that failed says so in c->err (valkeyContextConnectRdma).
\* The code does not keep it (README.md, section 4).
FailureReported == op # "connect" /\ flags.failed => err # "none"

\* valkeyFree gives back all that was acquired (valkeyRdmaClose).
\* The code does not keep it (README.md, section 4).
ResourcesReleased == op = "closed" => res = {}

\* A read that waits returns when the server has sent something, and a write
\* when the server keeps giving back its buffer: no completion is slept
\* through, although epoll reports every edge only once (connRdmaHandleCq).
ReadReturns ==
    (op = "read" /\ Len(fed) < srv.sent) ~> (op # "read" \/ hw.fabric = "down")
WriteReturns == (op = "write") ~> (op # "write" \/ hw.fabric = "down")

\* The streams arrive intact and no write leaves the server's buffer: the
\* offsets of both sides agree across registrations (valkeyRdmaReadZCDone,
\* connRdmaSend).
BuffersSound == TypeOK /\ StreamsIntact /\ WritesFit

\* No call sleeps through an event (valkeyRdmaWaitEvent).
TransfersReturn == ReadReturns /\ WriteReturns
=============================================================================
