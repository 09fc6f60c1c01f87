------------------------------- MODULE Async -------------------------------
(***************************************************************************)
(* The life of one valkeyAsyncContext (src/src/async.c) that is attached   *)
(* to an event loop by the poll adapter (src/include/valkey/adapters/      *)
(* poll.h) and used for ordinary commands: connecting, queueing, writing,  *)
(* reading, running reply callbacks, timeouts, graceful and forceful       *)
(* shutdown.  Pub/sub bookkeeping is the subject of module PubSub.         *)
(*                                                                         *)
(* One thread runs everything, but its control flow is interleaved: the    *)
(* library calls user callbacks in the middle of its handlers, and a       *)
(* callback may call the library back.  pc says which library function is  *)
(* suspended in which callback.  The steps of a handler between two        *)
(* callbacks form one action.                                              *)
(*                                                                         *)
(* Command i is the i-th command accepted.  A byte stream is represented   *)
(* by positions in it: commands sent+1..issued are in the output buffer,   *)
(* served+1..sent are on their way to the server, the replies to commands  *)
(* fed+1..served are in the socket and those to parsed+1..fed sit in the   *)
(* reader.  Replies and spontaneous RESP3 pushes interleave arbitrarily.   *)
(***************************************************************************)
EXTENDS Integers, Sequences

CONSTANTS MaxCmds,        \* bound: commands accepted in a behaviour
          MaxPush,        \* bound: spontaneous push messages the server sends
          Endings,        \* how the server's stream may end, see ServerEnd
          ConnectTimeout, \* options.connect_timeout is set
          CommandTimeout, \* options.command_timeout is set
          SetTimeouts,    \* values the user passes to valkeyAsyncSetTimeout
          NoAutoFree,     \* may VALKEY_OPT_NOAUTOFREE be given (TRUE), or not (FALSE)?
          Fns             \* may the user pass a callback (TRUE), NULL (FALSE)?

ASSUME ConstantsAssumption ==
    /\ MaxCmds \in Nat
    /\ MaxPush \in Nat
    /\ Endings \subseteq {"eof", "garbage", "refused", "reset"}
    /\ {ConnectTimeout, CommandTimeout} \subseteq BOOLEAN
    /\ NoAutoFree \subseteq BOOLEAN
    /\ SetTimeouts \subseteq BOOLEAN
    /\ Fns \subseteq BOOLEAN

VARIABLES
    pc,                  \* what the thread is doing
    flags,               \* c->flags
    err,                 \* c->err, "none" for 0
    replies,             \* ac->replies, a queue of [id, fn]
    issued, sent, served, fed, parsed,  \* positions in the byte streams
    link,                \* the TCP connection attempt
    tail,                \* what follows the last byte in the socket
    rend,                \* what follows the last reply in the reader
    pushed, pushSock, pushRd,     \* pushes sent, in the socket, in the reader
    attached,            \* ac->ev.cleanup # NULL: the adapter's data is alive
    reading, writing, timer,      \* the adapter's registrations
    command_timeout,     \* *c->command_timeout is non-zero
    timeout_reply_count, \* ac->timeout_reply_count
    \* History, read by the properties only:
    calls,               \* calls[i]: the replies handed to command i's callback
    hasFn,               \* the commands issued with a callback
    events               \* calls of onConnect and onDisconnect, in order

ctxVars    == <<flags, err, replies>>
streamVars == <<issued, sent, served, fed, parsed, pushed, pushSock, pushRd>>
netVars    == <<link, tail, rend>>
evVars     == <<attached, reading, writing, timer>>
tmoVars    == <<command_timeout, timeout_reply_count>>
histVars   == <<calls, hasFn, events>>
vars == <<pc, ctxVars, streamVars, netVars, evVars, tmoVars, histVars>>

INACTIVE == -1            \* VALKEY_TIMEOUT_INACTIVE
NullReply == 0            \* the reply pointer NULL; the reply to command i is i
ErrorReply == -1          \* an error the server sent without being asked
Cmds == 1..MaxCmds

Flags == {"CONNECTED", "DISCONNECTING", "FREEING", "IN_CALLBACK", "NO_AUTO_FREE"}
Errors == {"none", "io", "eof", "timeout", "other", "protocol"}

\* The points at which user code runs inside a library function.  onDisconnect
\* receives a const context and cannot call the library.
CallbackPCs == {"connect_cb", "connect_err_cb", "reply_cb", "push_cb",
                "timeout_connect_cb", "timeout_cb", "free_cb"}
PCs == CallbackPCs \cup {"idle", "write", "process", "timeout", "free",
                         "disconnect_cb", "freed", "abort"}

-----------------------------------------------------------------------------
(* Callback lists and callbacks. *)

valkeyPushCallback(list, cb) == Append(list, cb)

\* Faulty variant for CallbacksSound: the head stays in the list.
ShiftCallback_DropsLast(list) == SubSeq(list, 1, Len(list) - 1)

\* The queue left when valkeyShiftCallback takes the head.
valkeyShiftCallback(list) == Tail(list)

\* valkeyRunCallback up to the call of cb->fn: afterwards the thread is in
\* `where' if there is a function to call and in `back' otherwise.
valkeyRunCallback(cb, reply, where, back) ==
    IF cb.fn
    THEN /\ flags' = flags \cup {"IN_CALLBACK"}
         /\ calls' = [calls EXCEPT ![cb.id] = Append(@, reply)]
         /\ pc' = where
    ELSE /\ UNCHANGED <<flags, calls>>
         /\ pc' = back

-----------------------------------------------------------------------------
(* The event loop hooks. *)

\* Faulty variant for EveryCommandCalledBack: the command timer is left out.
refreshTimeout_ConnectOnly(fl, tm, count) ==
    /\ timer' = (tm \/ ("CONNECTED" \notin fl /\ ConnectTimeout))
    /\ timeout_reply_count' = count

\* refreshTimeout, when the flags are fl, the timer is tm and
\* timeout_reply_count is count.
refreshTimeout(fl, tm, count) ==
    LET commandTimer == /\ "CONNECTED" \in fl
                        /\ count = INACTIVE
                        /\ command_timeout
        connectTimer == "CONNECTED" \notin fl /\ ConnectTimeout
    IN  /\ timer' = (tm \/ commandTimer \/ connectTimer)
        /\ timeout_reply_count' = IF commandTimer THEN 0 ELSE count

\* Faulty variant for QuietWhenDetached: the deadline survives.
CLEANUP_KeepsTimer == /\ attached' = FALSE
                      /\ reading' = FALSE
                      /\ writing' = FALSE
                      /\ timer' = timer

\* _EL_CLEANUP: the adapter forgets every registration.
_EL_CLEANUP == /\ attached' = FALSE
               /\ reading' = FALSE
               /\ writing' = FALSE
               /\ timer' = FALSE

-----------------------------------------------------------------------------
(* Tearing the context down. *)

\* valkeyAsyncDisconnectInternal with the flags and the error it finds.  A
\* failing assert ends the program.
valkeyAsyncDisconnectInternal(fl, e) ==
    /\ err' = e
    /\ flags' = IF e = "none" THEN fl ELSE fl \cup {"DISCONNECTING"}
    /\ _EL_CLEANUP
    /\ pc' = IF e = "none" /\ replies # <<>> THEN "abort"
             ELSE IF "NO_AUTO_FREE" \in fl THEN "idle" ELSE "free"

\* Faulty variant for ConnectDisconnectPaired: a context that never connected
\* also reports a disconnect.
FinishFree_AlwaysReports ==
    /\ events' = Append(events, "disconnect_ok")
    /\ flags' = flags \cup {"IN_CALLBACK"}
    /\ pc' = "disconnect_cb"

\* The end of valkeyAsyncFreeInternal, up to the disconnect callback if there
\* was a connection.
FinishFree ==
    IF "CONNECTED" \in flags
    THEN LET ok == err = "none" \/ "FREEING" \in flags IN
         /\ events' = Append(events, IF ok THEN "disconnect_ok" ELSE "disconnect_err")
         /\ flags' = flags \cup {"IN_CALLBACK"}
         /\ pc' = "disconnect_cb"
    ELSE /\ pc' = "freed"
         /\ UNCHANGED <<events, flags>>

\* valkeyAsyncFreeInternal: one turn of the loop that runs the pending
\* callbacks with a NULL reply, then the cleanup and the rest.
valkeyAsyncFreeInternal ==
    /\ pc = "free"
    /\ \/ /\ replies # <<>>
          /\ replies' = valkeyShiftCallback(replies)
          /\ valkeyRunCallback(Head(replies), NullReply, "free_cb", "free")
          /\ UNCHANGED <<evVars, events>>
       \/ /\ replies = <<>>
          /\ _EL_CLEANUP
          /\ FinishFree
          /\ UNCHANGED <<replies, calls>>
    /\ UNCHANGED <<err, streamVars, netVars, tmoVars, hasFn>>

\* The disconnect callback returns; valkeyFree releases the context.
DisconnectCallbackReturns ==
    /\ pc = "disconnect_cb"
    /\ pc' = "freed"
    /\ flags' = flags \ {"IN_CALLBACK"}
    /\ UNCHANGED <<err, replies, streamVars, netVars, evVars, tmoVars, histVars>>

FreeCallbackReturns ==
    /\ pc = "free_cb"
    /\ pc' = "free"
    /\ flags' = flags \ {"IN_CALLBACK"}
    /\ UNCHANGED <<err, replies, streamVars, netVars, evVars, tmoVars, histVars>>

-----------------------------------------------------------------------------
(* Calls of the user, outside of the handlers or inside a callback.  A user *)
(* who called valkeyAsyncFree does not touch the context again once control *)
(* is back in the event loop.                                               *)

UserRuns == pc \in CallbackPCs \/ (pc = "idle" /\ "FREEING" \notin flags)

\* valkeyAsyncAppendCmdLen for a command that is neither (un)subscribe nor
\* monitor, when it is accepted.
AsyncCommand ==
    /\ UserRuns
    /\ flags \cap {"DISCONNECTING", "FREEING"} = {}
    /\ issued < MaxCmds
    /\ \E fn \in Fns :
         /\ replies' = valkeyPushCallback(replies, [id |-> issued + 1, fn |-> fn])
         /\ hasFn' = IF fn THEN hasFn \cup {issued + 1} ELSE hasFn
    /\ issued' = issued + 1
    /\ writing' = TRUE
    /\ refreshTimeout(flags, timer, timeout_reply_count)
    /\ UNCHANGED <<pc, flags, err, sent, served, fed, parsed, pushed, pushSock,
                   pushRd, netVars, attached, reading, command_timeout, calls,
                   events>>

\* Faulty variant for GracefulDisconnectDelivers: pending replies are not waited
\* for.
DisconnectBody_Immediate(fl, back) ==
    LET closing == (fl \cup {"DISCONNECTING"}) \ {"NO_AUTO_FREE"} IN
    /\ flags' = closing
    /\ IF "IN_CALLBACK" \notin fl
       THEN _EL_CLEANUP /\ pc' = "free"
       ELSE UNCHANGED evVars /\ pc' = back
    /\ UNCHANGED err

\* The body of valkeyAsyncDisconnect, when it finds the flags fl; `back' is
\* where control goes when it has to wait.
DisconnectBody(fl, back) ==
    LET closing == (fl \cup {"DISCONNECTING"}) \ {"NO_AUTO_FREE"} IN
    IF "IN_CALLBACK" \notin fl /\ replies = <<>>
    THEN valkeyAsyncDisconnectInternal(closing, err)
    ELSE /\ flags' = closing
         /\ pc' = back
         /\ UNCHANGED <<err, evVars>>

valkeyAsyncDisconnect ==
    /\ UserRuns
    /\ DisconnectBody(flags, pc)
    /\ UNCHANGED <<replies, streamVars, netVars, tmoVars, histVars>>

\* valkeyAsyncFree.
valkeyAsyncFree ==
    /\ UserRuns
    /\ flags' = flags \cup {"FREEING"}
    /\ pc' = IF "IN_CALLBACK" \in flags THEN pc ELSE "free"
    /\ UNCHANGED <<err, replies, streamVars, netVars, evVars, tmoVars, histVars>>

\* valkeyAsyncSetTimeout.
valkeyAsyncSetTimeout ==
    /\ UserRuns
    /\ \E t \in SetTimeouts : command_timeout' = t
    /\ UNCHANGED <<pc, ctxVars, streamVars, netVars, evVars,
                   timeout_reply_count, histVars>>

-----------------------------------------------------------------------------
(* Write events: finishing the connect, writing the output buffer. *)

\* valkeyAsyncHandleWrite, with the calls valkeyAsyncHandleConnect makes up to
\* the connect callback.
valkeyAsyncHandleWrite ==
    /\ pc = "idle" /\ attached /\ writing
    /\ link # "connecting"
    /\ IF "CONNECTED" \in flags
       THEN /\ pc' = "write"
            /\ UNCHANGED <<flags, err, events>>
       ELSE IF link = "up"
       THEN /\ flags' = flags \cup {"CONNECTED", "IN_CALLBACK"}
            /\ events' = Append(events, "connect_ok")
            /\ pc' = "connect_cb"
            /\ err' = err
       ELSE /\ err' = "io"
            /\ flags' = flags \cup {"IN_CALLBACK"}
            /\ events' = Append(events, "connect_err")
            /\ pc' = "connect_err_cb"
    /\ UNCHANGED <<replies, streamVars, netVars, evVars, tmoVars, calls, hasFn>>

\* The rest of valkeyAsyncHandleConnect after onConnect(VALKEY_OK).
ConnectCallbackReturns ==
    /\ pc = "connect_cb"
    /\ LET fl == flags \ {"IN_CALLBACK"} IN
       IF "DISCONNECTING" \in fl
       THEN DisconnectBody(fl, "idle")
       ELSE /\ flags' = fl
            /\ pc' = IF "FREEING" \in fl THEN "free" ELSE "write"
            /\ UNCHANGED <<err, evVars>>
    /\ UNCHANGED <<replies, streamVars, netVars, tmoVars, histVars>>

\* The rest of valkeyAsyncHandleConnectFailure after onConnect(VALKEY_ERR).
ConnectFailureCallbackReturns ==
    /\ pc = "connect_err_cb"
    /\ valkeyAsyncDisconnectInternal(flags \ {"IN_CALLBACK"}, err)
    /\ UNCHANGED <<replies, streamVars, netVars, tmoVars, histVars>>

\* valkeyAsyncWrite: valkeyBufferWrite writes some of the output buffer or fails.
valkeyAsyncWrite ==
    /\ pc = "write"
    /\ \/ /\ tail # "reset" \/ sent = issued
          /\ \E n \in sent..issued :
               /\ sent' = n
               /\ writing' = (n # issued)
          /\ reading' = TRUE
          /\ refreshTimeout(flags, timer, timeout_reply_count)
          /\ pc' = "idle"
          /\ UNCHANGED <<flags, err, attached>>
       \/ /\ tail # "open" /\ sent # issued
          /\ valkeyAsyncDisconnectInternal(flags, "io")
          /\ UNCHANGED <<sent, timeout_reply_count>>
    /\ UNCHANGED <<replies, issued, served, fed, parsed, pushed, pushSock, pushRd,
                   netVars, command_timeout, histVars>>

-----------------------------------------------------------------------------
(* Read events: filling the reader, running callbacks. *)

\* valkeyAsyncHandleRead and valkeyAsyncRead: valkeyBufferRead fails, or takes
\* what is in the socket up to some byte.  Reads are only registered once the
\* context is connected (conjunct ReadImpliesConnected of module AsyncProof's
\* invariant), so that the call of
\* valkeyAsyncHandleConnect in this handler is never made.
valkeyAsyncHandleRead ==
    /\ pc = "idle" /\ attached /\ reading
    /\ \/ /\ \/ tail = "reset"
             \/ tail = "eof" /\ fed = served /\ pushSock = 0
          /\ valkeyAsyncDisconnectInternal(flags, IF tail = "eof" THEN "eof" ELSE "io")
          /\ UNCHANGED <<fed, pushSock, pushRd, tail, rend, timeout_reply_count>>
       \/ /\ tail # "reset"
          /\ fed < served \/ pushSock > 0 \/ tail \in {"garbage", "refused"}
          /\ \E n \in fed..served, p \in 0..pushSock :
               /\ fed' = n
               /\ pushSock' = pushSock - p
               /\ pushRd' = pushRd + p
               /\ IF n = served /\ p = pushSock /\ tail \in {"garbage", "refused"}
                  THEN tail' = "eof" /\ rend' = tail
                  ELSE UNCHANGED <<tail, rend>>
          /\ refreshTimeout(flags, timer, timeout_reply_count)
          /\ pc' = "process"
          /\ UNCHANGED <<flags, err, attached, reading, writing>>
    /\ UNCHANGED <<replies, issued, sent, served, parsed, pushed, link,
                   command_timeout, histVars>>

\* Faulty variant for TypeOK: counting down.
CountReply_Down ==
    timeout_reply_count' = IF timeout_reply_count = INACTIVE THEN INACTIVE
                           ELSE timeout_reply_count - 2

\* "Any data from the server means it's alive."
CountReply ==
    timeout_reply_count' = IF timeout_reply_count = INACTIVE THEN INACTIVE
                           ELSE timeout_reply_count + 1

\* valkeyProcessCallbacks, a turn of the loop that finds the reply to command
\* parsed+1.  Without a callback waiting for it, the assert fails.
ProcessReply ==
    /\ pc = "process"
    /\ parsed < fed
    /\ parsed' = parsed + 1
    /\ CountReply
    /\ IF replies # <<>>
       THEN /\ replies' = valkeyShiftCallback(replies)
            /\ valkeyRunCallback(Head(replies), parsed + 1, "reply_cb", "process")
       ELSE /\ pc' = "abort"
            /\ UNCHANGED <<replies, flags, calls>>
    /\ UNCHANGED <<err, issued, sent, served, fed, pushed, pushSock, pushRd,
                   netVars, evVars, command_timeout, hasFn, events>>

\* valkeyProcessCallbacks, a turn that finds a spontaneous push message.
ProcessPush ==
    /\ pc = "process"
    /\ pushRd > 0
    /\ pushRd' = pushRd - 1
    /\ CountReply
    /\ flags' = flags \cup {"IN_CALLBACK"}
    /\ pc' = "push_cb"
    /\ UNCHANGED <<err, replies, issued, sent, served, fed, parsed, pushed,
                   pushSock, netVars, evVars, command_timeout, histVars>>

\* The reader has handed out everything in front of rend.
ReaderDrained == parsed = fed /\ pushRd = 0

\* valkeyProcessCallbacks, a turn that finds the error a server sends to a
\* connection it refuses.
ProcessSpontaneousError ==
    /\ pc = "process"
    /\ ReaderDrained /\ rend = "refused"
    /\ rend' = "none"
    /\ CountReply
    /\ IF replies # <<>>
       THEN /\ replies' = valkeyShiftCallback(replies)
            /\ valkeyRunCallback(Head(replies), ErrorReply, "reply_cb", "process")
            /\ UNCHANGED <<err, evVars>>
       ELSE /\ valkeyAsyncDisconnectInternal(flags, "other")
            /\ UNCHANGED <<replies, calls>>
    /\ UNCHANGED <<streamVars, link, tail, command_timeout, hasFn, events>>

\* Faulty variant for AssertsHold: the cue to disconnect ignores the callbacks
\* that still wait.
ProcessEnd_IgnoresPending ==
    /\ pc = "process"
    /\ ReaderDrained
    /\ IF rend = "garbage"
       THEN valkeyAsyncDisconnectInternal(flags, "protocol")
       ELSE IF "DISCONNECTING" \in flags
       THEN valkeyAsyncDisconnectInternal(flags, err)
       ELSE pc' = "idle" /\ UNCHANGED <<flags, err, evVars>>
    /\ UNCHANGED <<replies, streamVars, netVars, tmoVars, histVars>>

\* valkeyProcessCallbacks, the last turn: no reply, or a protocol error.
ProcessEnd ==
    /\ pc = "process"
    /\ ReaderDrained
    /\ \/ /\ rend = "none"
          /\ IF "DISCONNECTING" \in flags /\ sent = issued /\ replies = <<>>
             THEN valkeyAsyncDisconnectInternal(flags, err)
             ELSE /\ pc' = "idle"
                  /\ UNCHANGED <<flags, err, evVars>>
       \/ /\ rend = "garbage"
          /\ valkeyAsyncDisconnectInternal(flags, "protocol")
    /\ UNCHANGED <<replies, streamVars, netVars, tmoVars, histVars>>

\* Faulty variant for ShutdownCompletes: the FREEING flag is not looked at.
ReplyCallbackReturns_IgnoresFree ==
    /\ pc = "reply_cb"
    /\ flags' = flags \ {"IN_CALLBACK"}
    /\ pc' = "process"
    /\ UNCHANGED <<err, replies, streamVars, netVars, evVars, tmoVars, histVars>>

\* The rest of a turn of valkeyProcessCallbacks after the reply callback.
ReplyCallbackReturns ==
    /\ pc = "reply_cb"
    /\ flags' = flags \ {"IN_CALLBACK"}
    /\ pc' = IF "FREEING" \in flags THEN "free" ELSE "process"
    /\ UNCHANGED <<err, replies, streamVars, netVars, evVars, tmoVars, histVars>>

\* The rest of a turn of valkeyProcessCallbacks after the push callback.
PushCallbackReturns ==
    /\ pc = "push_cb"
    /\ flags' = flags \ {"IN_CALLBACK"}
    /\ pc' = "process"
    /\ UNCHANGED <<err, replies, streamVars, netVars, evVars, tmoVars, histVars>>

-----------------------------------------------------------------------------
(* Timer events. *)

\* Faulty variant for CommandTimerArmed: the count is not reset.
IdleTimeout_KeepsCount == timer' = FALSE /\ UNCHANGED timeout_reply_count

\* The timer went off with no command pending; it is over.
IdleTimeout == timer' = FALSE /\ timeout_reply_count' = INACTIVE

\* valkeyAsyncHandleTimeout up to the first callback; the adapter's timer is
\* one-shot.
valkeyAsyncHandleTimeout ==
    /\ pc = "idle" /\ attached /\ timer
    /\ LET connected == "CONNECTED" \in flags
           idleTimeout == connected /\ replies = <<>>
           belated     == connected /\ replies # <<>> /\ ~command_timeout
           alive       == /\ connected /\ replies # <<>> /\ command_timeout
                          /\ timeout_reply_count > 0
       IN \/ /\ idleTimeout
             /\ IdleTimeout
             /\ UNCHANGED <<pc, flags, err, events>>
          \/ /\ belated
             /\ timer' = FALSE
             /\ UNCHANGED <<pc, flags, err, events, timeout_reply_count>>
          \/ /\ alive
             /\ refreshTimeout(flags, FALSE, INACTIVE)
             /\ UNCHANGED <<pc, flags, err, events>>
          \/ /\ ~(idleTimeout \/ belated \/ alive)
             /\ timer' = FALSE
             /\ err' = IF err = "none" THEN "timeout" ELSE err
             /\ IF connected
                THEN /\ pc' = "timeout"
                     /\ UNCHANGED <<flags, events>>
                ELSE /\ pc' = "timeout_connect_cb"
                     /\ flags' = flags \cup {"IN_CALLBACK"}
                     /\ events' = Append(events, "connect_err")
             /\ UNCHANGED timeout_reply_count
    /\ UNCHANGED <<replies, streamVars, netVars, attached, reading, writing,
                   command_timeout, calls, hasFn>>

\* Faulty variant for ImplementsQueue: the connection is kept after a timeout.
TimeoutDrain_KeepsConnection ==
    /\ pc = "timeout"
    /\ IF replies # <<>>
       THEN /\ replies' = valkeyShiftCallback(replies)
            /\ valkeyRunCallback(Head(replies), NullReply, "timeout_cb", "timeout")
       ELSE /\ pc' = "idle"
            /\ UNCHANGED <<replies, flags, calls>>
    /\ UNCHANGED <<err, streamVars, netVars, evVars, tmoVars, hasFn, events>>

\* valkeyAsyncHandleTimeout: the loop over the pending callbacks, and its end.
TimeoutDrain ==
    /\ pc = "timeout"
    /\ IF replies # <<>>
       THEN /\ replies' = valkeyShiftCallback(replies)
            /\ valkeyRunCallback(Head(replies), NullReply, "timeout_cb", "timeout")
            /\ UNCHANGED <<err, evVars>>
       ELSE /\ valkeyAsyncDisconnectInternal(flags, err)
            /\ UNCHANGED <<replies, calls>>
    /\ UNCHANGED <<streamVars, netVars, tmoVars, hasFn, events>>

TimeoutCallbackReturns ==
    /\ pc \in {"timeout_connect_cb", "timeout_cb"}
    /\ flags' = flags \ {"IN_CALLBACK"}
    /\ pc' = "timeout"
    /\ UNCHANGED <<err, replies, streamVars, netVars, evVars, tmoVars, histVars>>

-----------------------------------------------------------------------------
(* The network and the server (external). *)

\* The connection attempt succeeds or fails.
LinkResolves ==
    /\ link = "connecting"
    /\ link' \in {"up", "failed"}
    /\ UNCHANGED <<pc, ctxVars, streamVars, tail, rend, evVars, tmoVars, histVars>>

\* The server answers the next command it received.
ServerReply ==
    /\ link = "up" /\ tail = "open"
    /\ served < sent
    /\ served' = served + 1
    /\ UNCHANGED <<pc, ctxVars, issued, sent, fed, parsed, pushed, pushSock,
                   pushRd, netVars, evVars, tmoVars, histVars>>

\* The server sends a push message, such as a client-side caching
\* invalidation.
ServerPush ==
    /\ link = "up" /\ tail = "open"
    /\ pushed < MaxPush
    /\ pushed' = pushed + 1
    /\ pushSock' = pushSock + 1
    /\ UNCHANGED <<pc, ctxVars, issued, sent, served, fed, parsed, pushRd,
                   netVars, evVars, tmoVars, histVars>>

\* The stream from the server ends: it is closed, continues with bytes that
\* are not RESP, or is reset, in which case unread data is lost.  A server with
\* too many clients refuses the connection at once with an error and closes it.
ServerEnd ==
    /\ link = "up" /\ tail = "open"
    /\ tail' \in Endings
    /\ tail' = "refused" => served = 0 /\ pushed = 0
    /\ UNCHANGED <<pc, ctxVars, streamVars, link, rend, evVars, tmoVars, histVars>>

-----------------------------------------------------------------------------
\* valkeyAsyncConnectWithOptions began to connect, valkeyPollAttach attached
\* the context and valkeyAsyncSetConnectCallback registered for writing.
Init ==
    /\ pc = "idle"
    /\ \E option \in NoAutoFree : flags = IF option THEN {"NO_AUTO_FREE"} ELSE {}
    /\ err = "none"
    /\ replies = <<>>
    /\ issued = 0 /\ sent = 0 /\ served = 0 /\ fed = 0 /\ parsed = 0
    /\ link = "connecting" /\ tail = "open" /\ rend = "none"
    /\ pushed = 0 /\ pushSock = 0 /\ pushRd = 0
    /\ attached = TRUE /\ reading = FALSE /\ writing = TRUE
    /\ timer = ConnectTimeout
    /\ command_timeout = CommandTimeout
    /\ timeout_reply_count = INACTIVE
    /\ calls = [i \in Cmds |-> <<>>]
    /\ hasFn = {}
    /\ events = <<>>

User == AsyncCommand \/ valkeyAsyncDisconnect \/ valkeyAsyncFree
        \/ valkeyAsyncSetTimeout
Loop == valkeyAsyncHandleRead \/ valkeyAsyncHandleWrite \/ valkeyAsyncHandleTimeout
Returns == ConnectCallbackReturns \/ ConnectFailureCallbackReturns
           \/ ReplyCallbackReturns \/ PushCallbackReturns
           \/ TimeoutCallbackReturns \/ FreeCallbackReturns
           \/ DisconnectCallbackReturns
Inside == valkeyAsyncWrite \/ ProcessReply \/ ProcessPush
          \/ ProcessSpontaneousError \/ ProcessEnd \/ TimeoutDrain
          \/ valkeyAsyncFreeInternal
Environment == LinkResolves \/ ServerReply \/ ServerPush \/ ServerEnd

Next == User \/ Loop \/ Returns \/ Inside \/ Environment

Spec == Init /\ [][Next]_vars

\* The thread does not stop inside the library or in a callback.  poll() reports
\* a readable or writable socket in every tick until it is served, and every
\* tick looks at the deadline: an event that keeps being there, with the thread
\* back in the loop again and again, is eventually handled.  A socket that
\* stays writable eventually takes everything, and everything in it is
\* eventually read.  A connection attempt comes to an end.
LoopFairness ==
    /\ WF_vars(Returns) /\ WF_vars(Inside)
    /\ SF_vars(valkeyAsyncHandleWrite)
    /\ SF_vars(valkeyAsyncWrite /\ (sent' = issued \/ pc' # "idle"))
    /\ SF_vars(/\ valkeyAsyncHandleRead
               /\ \/ pc' # "process"
                  \/ fed' = served /\ pushSock' = 0 /\ tail' \in {"open", "eof"})
    /\ SF_vars(valkeyAsyncHandleTimeout)
    /\ WF_vars(LinkResolves)

\* A server that may fall silent or go away, but need not.
FairSpec == Spec /\ LoopFairness

-----------------------------------------------------------------------------
(* Properties. *)

\* Types; in particular the stream positions and counters stay in range
\* (valkeyAsyncContext, valkeyContext).
TypeOK ==
    /\ pc \in PCs
    /\ flags \subseteq Flags
    /\ err \in Errors
    /\ replies \in Seq([id : Cmds, fn : BOOLEAN])
    /\ {issued, sent, served, fed, parsed} \subseteq 0..MaxCmds
    /\ link \in {"connecting", "up", "failed"}
    /\ tail \in {"open"} \cup Endings \cup {"eof"}
    /\ rend \in {"none", "garbage", "refused"}
    /\ {pushed, pushSock, pushRd} \subseteq 0..MaxPush
    /\ {attached, reading, writing, timer, command_timeout} \subseteq BOOLEAN
    /\ timeout_reply_count \in Nat \cup {INACTIVE}
    /\ calls \in [Cmds -> Seq(Cmds \cup {NullReply, ErrorReply})]
    /\ hasFn \subseteq Cmds
    /\ events \in Seq({"connect_ok", "connect_err", "disconnect_ok", "disconnect_err"})

\* A command's callback runs at most once, and with the reply to that very
\* command, with NULL, or with the error by which the server refused the
\* connection: the list of callbacks and the stream of replies never slip
\* against each other, whatever is pipelined, timed out or torn down.
CallbackOnceWithOwnReply ==
    \A i \in Cmds : calls[i] \in {<<>>, <<i>>, <<NullReply>>, <<ErrorReply>>}

\* Reply callbacks run in the order in which the commands were issued.
CallbacksInOrder ==
    \A i, j \in hasFn : i < j /\ calls[j] # <<>> => calls[i] # <<>>

\* When the context is released, every command that was accepted with a
\* callback has had it called.
NoCallbackLost ==
    pc = "freed" => \A i \in hasFn : calls[i] # <<>>

\* What the application is promised about its callbacks (valkeyRunCallback):
\* each at most once, with its own reply, in order, and none forgotten.
CallbacksSound == CallbackOnceWithOwnReply /\ CallbacksInOrder /\ NoCallbackLost

\* docs/standalone.md: valkeyAsyncDisconnect terminates the connection only
\* when all pending commands have been sent and their replies delivered: a
\* context released without an error or valkeyAsyncFree wrote its whole output
\* buffer (unless the server had ended the stream, so that nobody would have
\* read it) and gave no callback a NULL reply.
GracefulDisconnectDelivers ==
    pc = "freed" /\ err = "none" /\ "FREEING" \notin flags =>
        /\ sent = issued \/ tail # "open"
        /\ \A i \in hasFn : calls[i] # <<NullReply>>

\* onConnect fires at most once; onDisconnect at most once, only after a
\* successful onConnect, and always before such a context is released.
ConnectDisconnectPaired ==
    /\ Len(events) <= 2
    /\ \A k \in 1..Len(events) :
          k = 1 <=> events[k] \in {"connect_ok", "connect_err"}
    /\ Len(events) = 2 => events[1] = "connect_ok" /\ pc \in {"disconnect_cb", "freed"}
    /\ pc = "freed" => events # <<"connect_ok">>

\* After the event library's data was cleaned up nothing is registered with it
\* again, although the addRead, addWrite and scheduleTimer hooks stay set and
\* point at released memory.
QuietWhenDetached == ~attached => ~reading /\ ~writing /\ ~timer

\* The asserts of valkeyAsyncDisconnectInternal (a clean disconnect leaves no
\* pending callback) and valkeyProcessCallbacks (a reply finds a callback).
AssertsHold == pc # "abort"

\* async.h: timeout_reply_count is VALKEY_TIMEOUT_INACTIVE when no timer is
\* scheduled.  Were it active without a timer, refreshTimeout would never
\* schedule one again and no command could time out.  The instance sets the
\* timeout to values other than zero only: valkeyAsyncSetTimeout with zero stops
\* a running timer from being renewed and leaves the count active.
CommandTimerArmed ==
    pc = "idle" /\ attached /\ timeout_reply_count # INACTIVE => timer

\* The handlers, buffers and timers together implement the queue of module
\* CommandQueue.  The context is closing from the moment a timeout has been
\* noticed, the event library was left or the release began.
Closing == ~attached \/ pc \in {"timeout_connect_cb", "timeout", "timeout_cb",
                                "free", "free_cb", "disconnect_cb", "freed"}
Queue == INSTANCE CommandQueue WITH pending <- replies, closing <- Closing,
                                    released <- (pc = "freed")
ImplementsQueue == Queue!Spec

\* docs/standalone.md: a context given away by valkeyAsyncDisconnect, explicitly
\* also under VALKEY_OPT_NOAUTOFREE, ends released (valkeyAsyncDisconnect).
DisconnectCompletes ==
    "DISCONNECTING" \in flags /\ "NO_AUTO_FREE" \notin flags ~> pc = "freed"

\* valkeyAsyncFree ends with the context released, also when it is called from
\* a callback and has to be deferred ("a flag is set on the context which is
\* picked up by valkeyProcessCallbacks").
FreeCompletes == "FREEING" \in flags ~> pc = "freed"

\* Either way to end a context ends it, called outside of callbacks or in a
\* reply, connect or timeout callback: the deferral in valkeyAsyncDisconnect and
\* valkeyAsyncFree loses neither.  Of contexts without push messages and without
\* VALKEY_OPT_NOAUTOFREE only: neither half holds of the others.
ShutdownCompletes == DisconnectCompletes /\ FreeCompletes

\* With timeouts set, every command's callback is called eventually, although
\* the server may stop answering.
EveryCommandCalledBack ==
    \A i \in Cmds : i \in hasFn ~> calls[i] # <<>>
=============================================================================
