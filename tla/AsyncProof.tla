----------------------------- MODULE AsyncProof -----------------------------
(***************************************************************************)
(* Safety of module Async for every number of commands and pushes, every   *)
(* setting of the timeouts and of VALKEY_OPT_NOAUTOFREE and every way the  *)
(* server's stream may end.                                                *)
(*                                                                         *)
(* The inductive invariant says that ac->replies is always a run of the    *)
(* last commands issued, and that as long as replies are still taken from  *)
(* the reader that run begins with the command whose reply comes next.     *)
(*                                                                         *)
(* How a context begins and ends (onConnect and onDisconnect pair up, a    *)
(* graceful disconnect delivers every reply, the command timer runs while  *)
(* replies are counted) is proved from invariants of its own, inductive    *)
(* relative to that one.  Last, module Async implements CommandQueue: with *)
(* the connection, the buffers, the timers and the handlers hidden, every  *)
(* step that takes a callback from ac->replies is Answer, Refuse or Fail,  *)
(* AsyncCommand is Issue, the step that releases the context is Release,   *)
(* and any other step stutters or is Close.                                *)
(***************************************************************************)
EXTENDS Async, SequenceTheorems, TLAPS

-----------------------------------------------------------------------------
(* The inductive invariant. *)

\* The first Called commands have been taken from ac->replies.
Called == issued - Len(replies)

\* The stream positions are in order, and no push is counted twice.
PositionsOrdered ==
    /\ parsed <= fed /\ fed <= served /\ served <= sent /\ sent <= issued
    /\ pushSock + pushRd <= pushed

\* ac->replies holds the commands Called+1..issued, in order.
QueueIsSuffix ==
    /\ Len(replies) <= issued
    /\ \A k \in 1..Len(replies) :
          /\ replies[k].id = Called + k
          /\ replies[k].fn <=> replies[k].id \in hasFn
    /\ \A i \in hasFn : i <= issued

\* Exactly the callbacks of the commands taken from the list have run.
CallsMatchQueue ==
    \A i \in Cmds :
        IF i \in hasFn /\ i <= Called
        THEN calls[i] \in {<<i>>, <<NullReply>>, <<ErrorReply>>}
        ELSE calls[i] = <<>>

\* The handlers that may still take replies from the reader.
Receiving == \/ pc \in {"connect_cb", "write", "process", "reply_cb", "push_cb"}
             \/ pc = "idle" /\ attached

\* A server refuses a connection before anything else happens on it.
RefusalComesFirst ==
    /\ tail = "refused" => served = 0
    /\ rend = "refused" => served = 0 /\ tail # "open"

\* The next reply belongs to the head of ac->replies.  The exception is a
\* refused connection, on which there is no next reply.
Aligned ==
    Receiving => parsed = Called \/ (served = 0 /\ tail # "open")

\* The handlers run on an attached context only.
HandlersAttached ==
    pc \in {"connect_cb", "write", "process", "reply_cb", "push_cb"} => attached

\* No command is accepted any more where the hooks must not be called.
ClosedWhenDetached ==
    ~attached \/ pc \in {"free", "free_cb", "disconnect_cb", "freed"} =>
        flags \cap {"DISCONNECTING", "FREEING"} # {}

\* Failure callbacks run with the error set.
FailureHasError ==
    pc \in {"connect_err_cb", "timeout_connect_cb", "timeout", "timeout_cb"} =>
        err # "none"

\* The end of valkeyAsyncFreeInternal is reached with an empty list.
ReleasedEmpty == pc \in {"disconnect_cb", "freed"} => replies = <<>>

\* Read events are only asked for once the connection is established.
ReadImpliesConnected == reading => "CONNECTED" \in flags

ConnectedHandlers ==
    pc \in {"connect_cb", "write", "process", "reply_cb", "push_cb"} =>
        "CONNECTED" \in flags

IInv ==
    /\ TypeOK
    /\ PositionsOrdered
    /\ QueueIsSuffix
    /\ CallsMatchQueue
    /\ RefusalComesFirst
    /\ Aligned
    /\ HandlersAttached
    /\ ClosedWhenDetached
    /\ FailureHasError
    /\ ReleasedEmpty
    /\ ReadImpliesConnected
    /\ ConnectedHandlers
    /\ QuietWhenDetached
    /\ AssertsHold

-----------------------------------------------------------------------------
(* The queue and the calls made from it. *)

\* What the type invariant says of the variables that are counted or queued,
\* one by one.
LEMMA TypeFacts ==
    ASSUME IInv
    PROVE  /\ MaxCmds \in Nat /\ MaxPush \in Nat
           /\ issued \in 0..MaxCmds /\ sent \in 0..MaxCmds
           /\ served \in 0..MaxCmds /\ fed \in 0..MaxCmds
           /\ parsed \in 0..MaxCmds
           /\ pushed \in 0..MaxPush /\ pushSock \in 0..MaxPush
           /\ pushRd \in 0..MaxPush
           /\ timeout_reply_count \in Nat \cup {INACTIVE}
           /\ replies \in Seq([id : Cmds, fn : BOOLEAN])
           /\ calls \in [Cmds -> Seq(Cmds \cup {NullReply, ErrorReply})]
           /\ hasFn \subseteq Cmds
<1>1. TypeOK
  BY DEF IInv
<1>2. MaxCmds \in Nat /\ MaxPush \in Nat
  BY ConstantsAssumption
<1>3. {issued, sent, served, fed, parsed} \subseteq 0..MaxCmds
  BY <1>1 DEF TypeOK
<1>4. {pushed, pushSock, pushRd} \subseteq 0..MaxPush
  BY <1>1 DEF TypeOK
<1>5. /\ timeout_reply_count \in Nat \cup {INACTIVE}
      /\ replies \in Seq([id : Cmds, fn : BOOLEAN])
      /\ calls \in [Cmds -> Seq(Cmds \cup {NullReply, ErrorReply})]
      /\ hasFn \subseteq Cmds
  BY <1>1 DEF TypeOK
<1>6. /\ issued \in 0..MaxCmds /\ sent \in 0..MaxCmds
      /\ served \in 0..MaxCmds /\ fed \in 0..MaxCmds
      /\ parsed \in 0..MaxCmds
  BY ONLY <1>3
<1>7. /\ pushed \in 0..MaxPush /\ pushSock \in 0..MaxPush
      /\ pushRd \in 0..MaxPush
  BY ONLY <1>4
<1> QED
  BY ONLY <1>2, <1>5, <1>6, <1>7

\* A step that leaves the queue and the history alone keeps what is said of
\* them.
LEMMA QueueUnchanged ==
    ASSUME IInv, UNCHANGED <<replies, issued, calls, hasFn>>
    PROVE  QueueIsSuffix' /\ CallsMatchQueue'
BY DEF IInv, QueueIsSuffix, CallsMatchQueue, Called, Cmds

\* valkeyShiftCallback followed by valkeyRunCallback: the head is the command
\* Called+1, and its callback has not run before.
LEMMA ShiftAndRun ==
    ASSUME IInv, replies # <<>>, UNCHANGED <<issued, hasFn>>,
           NEW reply \in {Called + 1, NullReply, ErrorReply},
           NEW where, NEW back,
           replies' = valkeyShiftCallback(replies),
           valkeyRunCallback(Head(replies), reply, where, back)
    PROVE  /\ QueueIsSuffix' /\ CallsMatchQueue'
           /\ Called' = Called + 1
           /\ replies' \in Seq([id : Cmds, fn : BOOLEAN])
           /\ calls' \in [Cmds -> Seq(Cmds \cup {NullReply, ErrorReply})]
<1> DEFINE head == Head(replies)
<1>1. /\ issued \in Nat /\ issued <= MaxCmds /\ MaxCmds \in Nat
      /\ replies \in Seq([id : Cmds, fn : BOOLEAN])
      /\ calls \in [Cmds -> Seq(Cmds \cup {NullReply, ErrorReply})]
      /\ hasFn \subseteq Cmds
  <2>1. /\ issued \in 0..MaxCmds /\ MaxCmds \in Nat
        /\ replies \in Seq([id : Cmds, fn : BOOLEAN])
        /\ calls \in [Cmds -> Seq(Cmds \cup {NullReply, ErrorReply})]
        /\ hasFn \subseteq Cmds
    BY ONLY IInv, TypeFacts
  <2>2. issued \in Nat /\ issued <= MaxCmds
    BY ONLY <2>1
  <2> QED
    BY ONLY <2>1, <2>2
<1>2. /\ Len(replies) \in Nat /\ Len(replies) > 0
      /\ head = replies[1]
      /\ head \in [id : Cmds, fn : BOOLEAN]
      /\ replies' \in Seq([id : Cmds, fn : BOOLEAN])
      /\ Len(replies') = Len(replies) - 1
      /\ \A k \in 1..Len(replies') : replies'[k] = replies[k + 1]
  <2>1. Len(replies) \in Nat /\ Len(replies) > 0 /\ head = replies[1]
    BY <1>1, EmptySeq
  <2>2. replies' = Tail(replies)
    BY DEF valkeyShiftCallback
  <2>3. /\ Head(replies) \in [id : Cmds, fn : BOOLEAN]
        /\ Tail(replies) \in Seq([id : Cmds, fn : BOOLEAN])
        /\ Len(Tail(replies)) = Len(replies) - 1
        /\ \A k \in 1..Len(Tail(replies)) : Tail(replies)[k] = replies[k + 1]
    BY ONLY <1>1, replies # <<>>, HeadTailProperties
  <2> QED
    BY <2>1, <2>2, <2>3
<1>3. /\ head.id = Called + 1
      /\ head.fn <=> head.id \in hasFn
      /\ Called \in Nat
      /\ Called' = Called + 1
  BY <1>1, <1>2 DEF IInv, QueueIsSuffix, Called
<1>4. QueueIsSuffix'
  <2>1. Len(replies') <= issued'
    BY <1>1, <1>2 DEF IInv, QueueIsSuffix
  <2>2. ASSUME NEW k \in 1..Len(replies')
        PROVE  /\ replies'[k].id = Called' + k
               /\ replies'[k].fn <=> replies'[k].id \in hasFn'
    <3>1. k \in Nat /\ k + 1 \in 1..Len(replies) /\ replies'[k] = replies[k + 1]
      BY <1>2
    <3>2. /\ replies[k + 1].id = Called + (k + 1)
          /\ replies[k + 1].fn <=> replies[k + 1].id \in hasFn
      BY <3>1 DEF IInv, QueueIsSuffix
    <3> QED
      BY <1>3, <3>1, <3>2
  <2> QED
    BY <2>1, <2>2 DEF IInv, QueueIsSuffix
<1>5. CASE head.fn
  <2>1. calls' = [calls EXCEPT ![head.id] = Append(@, reply)]
    BY <1>5 DEF valkeyRunCallback
  <2>2. calls[head.id] = <<>> /\ head.id \in Cmds
    BY <1>1, <1>2, <1>3 DEF IInv, CallsMatchQueue, Cmds
  <2>3. calls'[head.id] = <<reply>>
    BY <1>1, <2>1, <2>2
  <2>4. reply \in Cmds \cup {NullReply, ErrorReply}
    BY <1>2, <1>3
  <2>5. calls' \in [Cmds -> Seq(Cmds \cup {NullReply, ErrorReply})]
    BY <1>1, <2>1, <2>2, <2>4
  <2>6. CallsMatchQueue'
    <3> SUFFICES ASSUME NEW i \in Cmds
                 PROVE  IF i \in hasFn' /\ i <= Called'
                        THEN calls'[i] \in {<<i>>, <<NullReply>>, <<ErrorReply>>}
                        ELSE calls'[i] = <<>>
      BY DEF CallsMatchQueue
    <3>1. CASE i = head.id
      <4>1. i \in hasFn /\ i <= Called' /\ hasFn' = hasFn
        BY <1>1, <1>3, <1>5, <3>1
      <4>2. reply \in {i, NullReply, ErrorReply}
        BY <1>3, <3>1
      <4>3. calls'[i] \in {<<i>>, <<NullReply>>, <<ErrorReply>>}
        BY <2>3, <3>1, <4>2
      <4> QED
        BY <4>1, <4>3
    <3>2. CASE i # head.id
      <4>1. calls'[i] = calls[i]
        BY <1>1, <2>1, <3>2
      <4>2. i <= Called' <=> i <= Called
        BY <1>3, <3>2 DEF Cmds
      <4> QED
        BY <4>1, <4>2 DEF IInv, CallsMatchQueue
    <3> QED
      BY <3>1, <3>2
  <2> QED
    BY <1>2, <1>3, <1>4, <2>5, <2>6
<1>6. CASE ~head.fn
  <2>1. calls' = calls
    BY <1>6 DEF valkeyRunCallback
  <2>2. CallsMatchQueue'
    <3> SUFFICES ASSUME NEW i \in Cmds
                 PROVE  IF i \in hasFn' /\ i <= Called'
                        THEN calls'[i] \in {<<i>>, <<NullReply>>, <<ErrorReply>>}
                        ELSE calls'[i] = <<>>
      BY DEF CallsMatchQueue
    <3>1. i \in hasFn => (i <= Called' <=> i <= Called)
      BY <1>3, <1>6 DEF Cmds
    <3> QED
      BY <2>1, <3>1 DEF IInv, CallsMatchQueue
  <2> QED
    BY <1>1, <1>2, <1>3, <1>4, <2>1, <2>2
<1> QED
  BY <1>5, <1>6

\* valkeyPushCallback for a new command, which nobody has called back yet.
LEMMA PushCommand ==
    ASSUME IInv, AsyncCommand
    PROVE  /\ QueueIsSuffix' /\ CallsMatchQueue'
           /\ Called' = Called
           /\ replies' \in Seq([id : Cmds, fn : BOOLEAN])
           /\ hasFn' \subseteq Cmds
<1>0. issued < MaxCmds
  BY DEF AsyncCommand
<1>1. /\ issued \in Nat /\ issued < MaxCmds /\ MaxCmds \in Nat
      /\ issued + 1 \in Cmds
      /\ replies \in Seq([id : Cmds, fn : BOOLEAN])
      /\ Len(replies) \in Nat
      /\ hasFn \subseteq Cmds
  <2>1. /\ issued \in 0..MaxCmds /\ MaxCmds \in Nat
        /\ replies \in Seq([id : Cmds, fn : BOOLEAN])
        /\ hasFn \subseteq Cmds
    BY TypeFacts
  <2>2. issued \in Nat /\ issued + 1 \in Cmds
    BY ONLY <1>0, <2>1 DEF Cmds
  <2>3. Len(replies) \in Nat
    BY ONLY <2>1, LenProperties
  <2> QED
    BY ONLY <1>0, <2>1, <2>2, <2>3
<1>2. PICK fn \in Fns :
        /\ replies' = Append(replies, [id |-> issued + 1, fn |-> fn])
        /\ hasFn' = IF fn THEN hasFn \cup {issued + 1} ELSE hasFn
  BY DEF AsyncCommand, valkeyPushCallback
<1>3. fn \in BOOLEAN
  BY ConstantsAssumption
<1>4. [id |-> issued + 1, fn |-> fn] \in [id : Cmds, fn : BOOLEAN]
  BY <1>1, <1>3
<1>5. /\ replies' \in Seq([id : Cmds, fn : BOOLEAN])
      /\ Len(replies') = Len(replies) + 1
      /\ \A k \in 1..Len(replies) : replies'[k] = replies[k]
      /\ replies'[Len(replies) + 1] = [id |-> issued + 1, fn |-> fn]
  BY <1>1, <1>2, <1>4
<1>6. issued' = issued + 1 /\ calls' = calls
  BY DEF AsyncCommand
<1>7. Called' = Called
  BY <1>1, <1>5, <1>6 DEF Called
<1>8. hasFn' \subseteq Cmds /\ \A i \in hasFn' : i <= issued'
  BY <1>1, <1>2, <1>6 DEF IInv, QueueIsSuffix, Cmds
<1>9. \A i \in Cmds : i <= Called => (i \in hasFn' <=> i \in hasFn)
  BY <1>1, <1>2 DEF Called, Cmds
<1>10. QueueIsSuffix'
  <2>1. ASSUME NEW k \in 1..Len(replies')
        PROVE  /\ replies'[k].id = Called' + k
               /\ replies'[k].fn <=> replies'[k].id \in hasFn'
    <3>1. CASE k \in 1..Len(replies)
      <4>1. replies'[k] = replies[k] /\ replies[k].id = Called + k
        BY <1>5, <3>1 DEF IInv, QueueIsSuffix
      <4>2. replies[k].id # issued + 1
        BY <1>1, <4>1, <3>1 DEF Called
      <4>3. replies[k].fn <=> replies[k].id \in hasFn
        BY <3>1 DEF IInv, QueueIsSuffix
      <4> QED
        BY <1>2, <1>7, <4>1, <4>2, <4>3
    <3>2. CASE k = Len(replies) + 1
      <4>1. replies'[k].id = issued + 1 /\ replies'[k].fn = fn
        BY <1>5, <3>2
      <4>2. issued + 1 \notin hasFn
        BY <1>1 DEF IInv, QueueIsSuffix
      <4> QED
        <5>1. issued + 1 = Called + k
          BY <1>1, <3>2 DEF Called
        <5>2. issued + 1 \in hasFn' <=> fn
          BY <1>2, <1>3, <4>2
        <5> QED
          BY ONLY <1>3, <1>7, <4>1, <5>1, <5>2
    <3> QED
      BY <1>1, <1>5, <2>1, <3>1, <3>2
  <2>2. Len(replies') <= issued'
    BY <1>1, <1>5, <1>6 DEF IInv, QueueIsSuffix
  <2> QED
    BY <1>8, <2>1, <2>2 DEF QueueIsSuffix
<1>11. CallsMatchQueue'
  BY <1>6, <1>7, <1>9 DEF IInv, CallsMatchQueue
<1> QED
  BY <1>5, <1>7, <1>8, <1>10, <1>11

-----------------------------------------------------------------------------
(* The steps. *)

\* The initial state.
LEMMA InitIInv == Init => IInv
<1> SUFFICES ASSUME Init PROVE IInv
  OBVIOUS
<1>1. TypeOK
  <2>1. /\ replies \in Seq([id : Cmds, fn : BOOLEAN])
        /\ calls \in [Cmds -> Seq(Cmds \cup {NullReply, ErrorReply})]
        /\ events \in Seq({"connect_ok", "connect_err", "disconnect_ok", "disconnect_err"})
    BY EmptySeq DEF Init
  <2>2. {issued, sent, served, fed, parsed} \subseteq 0..MaxCmds
    BY ConstantsAssumption DEF Init
  <2>3. {pushed, pushSock, pushRd} \subseteq 0..MaxPush
    BY ConstantsAssumption DEF Init
  <2>4. /\ pc \in PCs /\ flags \subseteq Flags /\ err \in Errors /\ hasFn \subseteq Cmds
        /\ {attached, reading, writing, timer, command_timeout} \subseteq BOOLEAN
        /\ timeout_reply_count \in Nat \cup {INACTIVE}
    BY ConstantsAssumption DEF Init, PCs, Flags, Errors
  <2> QED
    BY <2>1, <2>2, <2>3, <2>4 DEF Init, TypeOK
<1>2. QueueIsSuffix /\ CallsMatchQueue
  BY DEF Init, QueueIsSuffix, CallsMatchQueue, Called
<1>3. PositionsOrdered /\ RefusalComesFirst /\ Aligned
  <2>1. Len(replies) = 0
    BY EmptySeq DEF Init
  <2>2. parsed = 0 /\ issued = 0
    BY DEF Init
  <2>3. parsed = Called
    BY ONLY <2>1, <2>2 DEF Called
  <2> QED
    BY <2>3 DEF Init, PositionsOrdered, RefusalComesFirst, Aligned
<1>4. /\ HandlersAttached /\ ClosedWhenDetached /\ FailureHasError /\ ReleasedEmpty
      /\ ReadImpliesConnected /\ ConnectedHandlers /\ QuietWhenDetached /\ AssertsHold
  BY DEF Init, HandlersAttached, ClosedWhenDetached, FailureHasError, ReleasedEmpty,
     ReadImpliesConnected, ConnectedHandlers, QuietWhenDetached, AssertsHold
<1> QED
  BY <1>1, <1>2, <1>3, <1>4 DEF IInv

\* Calls of the user other than commands.
LEMMA UserSteps ==
    ASSUME IInv, valkeyAsyncDisconnect \/ valkeyAsyncFree \/
                 valkeyAsyncSetTimeout
    PROVE  IInv'
<1> USE DEF ctxVars, streamVars, netVars, evVars, tmoVars, histVars
<1>1. CASE valkeyAsyncDisconnect
  <2>1. QueueIsSuffix' /\ CallsMatchQueue'
    BY <1>1, QueueUnchanged DEF valkeyAsyncDisconnect, UserRuns, CallbackPCs,
       DisconnectBody, valkeyAsyncDisconnectInternal, _EL_CLEANUP
  <2>2. TypeOK'
    <3>1. /\ pc' \in PCs /\ flags' \subseteq Flags /\ err' \in Errors
          /\ {attached', reading', writing', timer'} \subseteq BOOLEAN
      BY <1>1 DEF IInv, TypeOK, PCs, Flags, Errors, valkeyAsyncDisconnect,
         DisconnectBody, valkeyAsyncDisconnectInternal, _EL_CLEANUP
    <3> QED
      BY <1>1, <3>1 DEF IInv, TypeOK, valkeyAsyncDisconnect
  <2>3. PositionsOrdered' /\ RefusalComesFirst' /\ Aligned'
    BY <1>1, ConstantsAssumption DEF IInv, TypeOK, PositionsOrdered,
       RefusalComesFirst, Aligned, HandlersAttached, Receiving, Called,
       valkeyAsyncDisconnect, UserRuns, CallbackPCs, DisconnectBody,
       valkeyAsyncDisconnectInternal, _EL_CLEANUP
  <2>4. /\ HandlersAttached' /\ ClosedWhenDetached'
        /\ FailureHasError' /\ ReleasedEmpty'
    BY <1>1 DEF IInv, TypeOK, Flags, HandlersAttached, ClosedWhenDetached,
       FailureHasError, ReleasedEmpty, valkeyAsyncDisconnect, UserRuns,
       CallbackPCs, DisconnectBody, valkeyAsyncDisconnectInternal, _EL_CLEANUP
  <2>5. /\ ReadImpliesConnected' /\ ConnectedHandlers'
        /\ QuietWhenDetached' /\ AssertsHold'
    BY <1>1 DEF IInv, TypeOK, Flags, HandlersAttached, ClosedWhenDetached,
       ReadImpliesConnected, ConnectedHandlers, QuietWhenDetached, AssertsHold,
       FailureHasError, valkeyAsyncDisconnect, UserRuns, CallbackPCs,
       DisconnectBody, valkeyAsyncDisconnectInternal, _EL_CLEANUP
  <2> QED
    BY <2>1, <2>2, <2>3, <2>4, <2>5 DEF IInv
<1>2. CASE valkeyAsyncFree
  <2>1. QueueIsSuffix' /\ CallsMatchQueue'
    BY <1>2, QueueUnchanged DEF valkeyAsyncFree, UserRuns, CallbackPCs
  <2>2. TypeOK'
    BY <1>2, ConstantsAssumption DEF IInv, TypeOK, PositionsOrdered, PCs,
       CallbackPCs, Flags, Errors, INACTIVE, valkeyAsyncFree, UserRuns
  <2>3. PositionsOrdered' /\ RefusalComesFirst' /\ Aligned'
    BY <1>2, ConstantsAssumption DEF IInv, TypeOK, PositionsOrdered,
       RefusalComesFirst, Aligned, HandlersAttached, Receiving, Called,
       valkeyAsyncFree, UserRuns, CallbackPCs
  <2>4. /\ HandlersAttached' /\ ClosedWhenDetached'
        /\ FailureHasError' /\ ReleasedEmpty'
    BY <1>2 DEF IInv, TypeOK, Flags, HandlersAttached, ClosedWhenDetached,
       FailureHasError, ReleasedEmpty, valkeyAsyncFree, UserRuns, CallbackPCs
  <2>5. /\ ReadImpliesConnected' /\ ConnectedHandlers'
        /\ QuietWhenDetached' /\ AssertsHold'
    BY <1>2 DEF IInv, TypeOK, Flags, HandlersAttached, ClosedWhenDetached,
       ReadImpliesConnected, ConnectedHandlers, QuietWhenDetached, AssertsHold,
       FailureHasError, valkeyAsyncFree, UserRuns, CallbackPCs
  <2> QED
    BY <2>1, <2>2, <2>3, <2>4, <2>5 DEF IInv
<1>3. CASE valkeyAsyncSetTimeout
  <2>1. QueueIsSuffix' /\ CallsMatchQueue'
    BY <1>3, QueueUnchanged DEF valkeyAsyncSetTimeout, UserRuns, CallbackPCs
  <2>2. TypeOK'
    BY <1>3, ConstantsAssumption DEF IInv, TypeOK, PositionsOrdered, PCs,
       CallbackPCs, Flags, Errors, INACTIVE, valkeyAsyncSetTimeout, UserRuns
  <2>3. PositionsOrdered' /\ RefusalComesFirst' /\ Aligned'
    BY <1>3, ConstantsAssumption DEF IInv, TypeOK, PositionsOrdered,
       RefusalComesFirst, Aligned, HandlersAttached, Receiving, Called,
       valkeyAsyncSetTimeout, UserRuns, CallbackPCs
  <2>4. /\ HandlersAttached' /\ ClosedWhenDetached'
        /\ FailureHasError' /\ ReleasedEmpty'
    BY <1>3 DEF IInv, TypeOK, Flags, HandlersAttached, ClosedWhenDetached,
       FailureHasError, ReleasedEmpty, valkeyAsyncSetTimeout, UserRuns,
       CallbackPCs
  <2>5. /\ ReadImpliesConnected' /\ ConnectedHandlers'
        /\ QuietWhenDetached' /\ AssertsHold'
    BY <1>3 DEF IInv, TypeOK, Flags, HandlersAttached, ClosedWhenDetached,
       ReadImpliesConnected, ConnectedHandlers, QuietWhenDetached, AssertsHold,
       FailureHasError, valkeyAsyncSetTimeout, UserRuns, CallbackPCs
  <2> QED
    BY <2>1, <2>2, <2>3, <2>4, <2>5 DEF IInv
<1> QED
  BY <1>1, <1>2, <1>3

\* Callbacks return.
LEMMA ReturnSteps ==
    ASSUME IInv, ConnectCallbackReturns \/ ConnectFailureCallbackReturns \/
                 ReplyCallbackReturns \/ PushCallbackReturns \/
                 TimeoutCallbackReturns \/ FreeCallbackReturns \/
                 DisconnectCallbackReturns
    PROVE  IInv'
<1> USE DEF ctxVars, streamVars, netVars, evVars, tmoVars, histVars
<1>1. CASE ConnectCallbackReturns
  <2>1. QueueIsSuffix' /\ CallsMatchQueue'
    BY <1>1, QueueUnchanged DEF ConnectCallbackReturns, DisconnectBody,
       valkeyAsyncDisconnectInternal, _EL_CLEANUP
  <2>2. TypeOK'
    BY <1>1, ConstantsAssumption DEF IInv, TypeOK, PositionsOrdered, PCs,
       CallbackPCs, Flags, Errors, INACTIVE, ConnectCallbackReturns,
       DisconnectBody, valkeyAsyncDisconnectInternal, _EL_CLEANUP
  <2>3. PositionsOrdered' /\ RefusalComesFirst' /\ Aligned'
    BY <1>1, ConstantsAssumption DEF IInv, TypeOK, PositionsOrdered,
       RefusalComesFirst, Aligned, HandlersAttached, Receiving, Called,
       ConnectCallbackReturns, DisconnectBody, valkeyAsyncDisconnectInternal,
       _EL_CLEANUP
  <2>4. /\ HandlersAttached' /\ ClosedWhenDetached'
        /\ FailureHasError' /\ ReleasedEmpty'
    BY <1>1 DEF IInv, TypeOK, Flags, HandlersAttached, ClosedWhenDetached,
       FailureHasError, ReleasedEmpty, ConnectCallbackReturns, DisconnectBody,
       valkeyAsyncDisconnectInternal, _EL_CLEANUP
  <2>5. /\ ReadImpliesConnected' /\ ConnectedHandlers'
        /\ QuietWhenDetached' /\ AssertsHold'
    BY <1>1 DEF IInv, TypeOK, Flags, HandlersAttached, ClosedWhenDetached,
       ReadImpliesConnected, ConnectedHandlers, QuietWhenDetached, AssertsHold,
       FailureHasError, ConnectCallbackReturns, DisconnectBody,
       valkeyAsyncDisconnectInternal, _EL_CLEANUP
  <2> QED
    BY <2>1, <2>2, <2>3, <2>4, <2>5 DEF IInv
<1>2. CASE ConnectFailureCallbackReturns
  <2>1. QueueIsSuffix' /\ CallsMatchQueue'
    BY <1>2, QueueUnchanged DEF ConnectFailureCallbackReturns,
       valkeyAsyncDisconnectInternal, _EL_CLEANUP
  <2>2. TypeOK'
    BY <1>2, ConstantsAssumption DEF IInv, TypeOK, PositionsOrdered, PCs,
       CallbackPCs, Flags, Errors, INACTIVE, ConnectFailureCallbackReturns,
       valkeyAsyncDisconnectInternal, _EL_CLEANUP
  <2>3. PositionsOrdered' /\ RefusalComesFirst' /\ Aligned'
    BY <1>2, ConstantsAssumption DEF IInv, TypeOK, PositionsOrdered,
       RefusalComesFirst, Aligned, HandlersAttached, Receiving, Called,
       ConnectFailureCallbackReturns, valkeyAsyncDisconnectInternal,
       _EL_CLEANUP
  <2>4. /\ HandlersAttached' /\ ClosedWhenDetached'
        /\ FailureHasError' /\ ReleasedEmpty'
    BY <1>2 DEF IInv, TypeOK, Flags, HandlersAttached, ClosedWhenDetached,
       FailureHasError, ReleasedEmpty, ConnectFailureCallbackReturns,
       valkeyAsyncDisconnectInternal, _EL_CLEANUP
  <2>5. /\ ReadImpliesConnected' /\ ConnectedHandlers'
        /\ QuietWhenDetached' /\ AssertsHold'
    BY <1>2 DEF IInv, TypeOK, Flags, HandlersAttached, ClosedWhenDetached,
       ReadImpliesConnected, ConnectedHandlers, QuietWhenDetached, AssertsHold,
       FailureHasError, ConnectFailureCallbackReturns,
       valkeyAsyncDisconnectInternal, _EL_CLEANUP
  <2> QED
    BY <2>1, <2>2, <2>3, <2>4, <2>5 DEF IInv
<1>3. CASE ReplyCallbackReturns
  <2>1. QueueIsSuffix' /\ CallsMatchQueue'
    BY <1>3, QueueUnchanged DEF ReplyCallbackReturns
  <2>2. TypeOK'
    BY <1>3, ConstantsAssumption DEF IInv, TypeOK, PositionsOrdered, PCs,
       CallbackPCs, Flags, Errors, INACTIVE, ReplyCallbackReturns
  <2>3. PositionsOrdered' /\ RefusalComesFirst' /\ Aligned'
    BY <1>3, ConstantsAssumption DEF IInv, TypeOK, PositionsOrdered,
       RefusalComesFirst, Aligned, HandlersAttached, Receiving, Called,
       ReplyCallbackReturns
  <2>4. /\ HandlersAttached' /\ ClosedWhenDetached'
        /\ FailureHasError' /\ ReleasedEmpty'
    BY <1>3 DEF IInv, TypeOK, Flags, HandlersAttached, ClosedWhenDetached,
       FailureHasError, ReleasedEmpty, ReplyCallbackReturns
  <2>5. /\ ReadImpliesConnected' /\ ConnectedHandlers'
        /\ QuietWhenDetached' /\ AssertsHold'
    BY <1>3 DEF IInv, TypeOK, Flags, HandlersAttached, ClosedWhenDetached,
       ReadImpliesConnected, ConnectedHandlers, QuietWhenDetached, AssertsHold,
       FailureHasError, ReplyCallbackReturns
  <2> QED
    BY <2>1, <2>2, <2>3, <2>4, <2>5 DEF IInv
<1>4. CASE PushCallbackReturns
  <2>1. QueueIsSuffix' /\ CallsMatchQueue'
    BY <1>4, QueueUnchanged DEF PushCallbackReturns
  <2>2. TypeOK'
    BY <1>4, ConstantsAssumption DEF IInv, TypeOK, PositionsOrdered, PCs,
       CallbackPCs, Flags, Errors, INACTIVE, PushCallbackReturns
  <2>3. PositionsOrdered' /\ RefusalComesFirst' /\ Aligned'
    BY <1>4, ConstantsAssumption DEF IInv, TypeOK, PositionsOrdered,
       RefusalComesFirst, Aligned, HandlersAttached, Receiving, Called,
       PushCallbackReturns
  <2>4. /\ HandlersAttached' /\ ClosedWhenDetached'
        /\ FailureHasError' /\ ReleasedEmpty'
    BY <1>4 DEF IInv, TypeOK, Flags, HandlersAttached, ClosedWhenDetached,
       FailureHasError, ReleasedEmpty, PushCallbackReturns
  <2>5. /\ ReadImpliesConnected' /\ ConnectedHandlers'
        /\ QuietWhenDetached' /\ AssertsHold'
    BY <1>4 DEF IInv, TypeOK, Flags, HandlersAttached, ClosedWhenDetached,
       ReadImpliesConnected, ConnectedHandlers, QuietWhenDetached, AssertsHold,
       FailureHasError, PushCallbackReturns
  <2> QED
    BY <2>1, <2>2, <2>3, <2>4, <2>5 DEF IInv
<1>5. CASE TimeoutCallbackReturns
  <2>1. QueueIsSuffix' /\ CallsMatchQueue'
    BY <1>5, QueueUnchanged DEF TimeoutCallbackReturns
  <2>2. TypeOK'
    BY <1>5, ConstantsAssumption DEF IInv, TypeOK, PositionsOrdered, PCs,
       CallbackPCs, Flags, Errors, INACTIVE, TimeoutCallbackReturns
  <2>3. PositionsOrdered' /\ RefusalComesFirst' /\ Aligned'
    BY <1>5, ConstantsAssumption DEF IInv, TypeOK, PositionsOrdered,
       RefusalComesFirst, Aligned, HandlersAttached, Receiving, Called,
       TimeoutCallbackReturns
  <2>4. /\ HandlersAttached' /\ ClosedWhenDetached'
        /\ FailureHasError' /\ ReleasedEmpty'
    BY <1>5 DEF IInv, TypeOK, Flags, HandlersAttached, ClosedWhenDetached,
       FailureHasError, ReleasedEmpty, TimeoutCallbackReturns
  <2>5. /\ ReadImpliesConnected' /\ ConnectedHandlers'
        /\ QuietWhenDetached' /\ AssertsHold'
    BY <1>5 DEF IInv, TypeOK, Flags, HandlersAttached, ClosedWhenDetached,
       ReadImpliesConnected, ConnectedHandlers, QuietWhenDetached, AssertsHold,
       FailureHasError, TimeoutCallbackReturns
  <2> QED
    BY <2>1, <2>2, <2>3, <2>4, <2>5 DEF IInv
<1>6. CASE FreeCallbackReturns
  <2>1. QueueIsSuffix' /\ CallsMatchQueue'
    BY <1>6, QueueUnchanged DEF FreeCallbackReturns
  <2>2. TypeOK'
    BY <1>6, ConstantsAssumption DEF IInv, TypeOK, PositionsOrdered, PCs,
       CallbackPCs, Flags, Errors, INACTIVE, FreeCallbackReturns
  <2>3. PositionsOrdered' /\ RefusalComesFirst' /\ Aligned'
    BY <1>6, ConstantsAssumption DEF IInv, TypeOK, PositionsOrdered,
       RefusalComesFirst, Aligned, HandlersAttached, Receiving, Called,
       FreeCallbackReturns
  <2>4. /\ HandlersAttached' /\ ClosedWhenDetached'
        /\ FailureHasError' /\ ReleasedEmpty'
    BY <1>6 DEF IInv, TypeOK, Flags, HandlersAttached, ClosedWhenDetached,
       FailureHasError, ReleasedEmpty, FreeCallbackReturns
  <2>5. /\ ReadImpliesConnected' /\ ConnectedHandlers'
        /\ QuietWhenDetached' /\ AssertsHold'
    BY <1>6 DEF IInv, TypeOK, Flags, HandlersAttached, ClosedWhenDetached,
       ReadImpliesConnected, ConnectedHandlers, QuietWhenDetached, AssertsHold,
       FailureHasError, FreeCallbackReturns
  <2> QED
    BY <2>1, <2>2, <2>3, <2>4, <2>5 DEF IInv
<1>7. CASE DisconnectCallbackReturns
  <2>1. QueueIsSuffix' /\ CallsMatchQueue'
    BY <1>7, QueueUnchanged DEF DisconnectCallbackReturns
  <2>2. TypeOK'
    BY <1>7, ConstantsAssumption DEF IInv, TypeOK, PositionsOrdered, PCs,
       CallbackPCs, Flags, Errors, INACTIVE, DisconnectCallbackReturns
  <2>3. PositionsOrdered' /\ RefusalComesFirst' /\ Aligned'
    BY <1>7, ConstantsAssumption DEF IInv, TypeOK, PositionsOrdered,
       RefusalComesFirst, Aligned, HandlersAttached, Receiving, Called,
       DisconnectCallbackReturns
  <2>4. /\ HandlersAttached' /\ ClosedWhenDetached'
        /\ FailureHasError' /\ ReleasedEmpty'
    BY <1>7 DEF IInv, TypeOK, Flags, HandlersAttached, ClosedWhenDetached,
       FailureHasError, ReleasedEmpty, DisconnectCallbackReturns
  <2>5. /\ ReadImpliesConnected' /\ ConnectedHandlers'
        /\ QuietWhenDetached' /\ AssertsHold'
    BY <1>7 DEF IInv, TypeOK, Flags, HandlersAttached, ClosedWhenDetached,
       ReadImpliesConnected, ConnectedHandlers, QuietWhenDetached, AssertsHold,
       FailureHasError, DisconnectCallbackReturns
  <2> QED
    BY <2>1, <2>2, <2>3, <2>4, <2>5 DEF IInv
<1> QED
  BY <1>1, <1>2, <1>3, <1>4, <1>5, <1>6, <1>7

\* The network and the server.
LEMMA EnvironmentSteps ==
    ASSUME IInv, LinkResolves \/ ServerReply \/ ServerPush \/ ServerEnd
    PROVE  IInv'
<1> USE DEF ctxVars, streamVars, netVars, evVars, tmoVars, histVars
<1>1. CASE LinkResolves
  <2>1. QueueIsSuffix' /\ CallsMatchQueue'
    BY <1>1, QueueUnchanged DEF LinkResolves
  <2>2. TypeOK'
    BY <1>1, ConstantsAssumption DEF IInv, TypeOK, PositionsOrdered, PCs,
       CallbackPCs, Flags, Errors, INACTIVE, LinkResolves
  <2>3. PositionsOrdered' /\ RefusalComesFirst' /\ Aligned'
    BY <1>1, ConstantsAssumption DEF IInv, TypeOK, PositionsOrdered,
       RefusalComesFirst, Aligned, HandlersAttached, Receiving, Called,
       LinkResolves
  <2>4. /\ HandlersAttached' /\ ClosedWhenDetached'
        /\ FailureHasError' /\ ReleasedEmpty'
    BY <1>1 DEF IInv, TypeOK, Flags, HandlersAttached, ClosedWhenDetached,
       FailureHasError, ReleasedEmpty, LinkResolves
  <2>5. /\ ReadImpliesConnected' /\ ConnectedHandlers'
        /\ QuietWhenDetached' /\ AssertsHold'
    BY <1>1 DEF IInv, TypeOK, Flags, HandlersAttached, ClosedWhenDetached,
       ReadImpliesConnected, ConnectedHandlers, QuietWhenDetached, AssertsHold,
       FailureHasError, LinkResolves
  <2> QED
    BY <2>1, <2>2, <2>3, <2>4, <2>5 DEF IInv
<1>2. CASE ServerReply
  <2>1. QueueIsSuffix' /\ CallsMatchQueue'
    BY <1>2, QueueUnchanged DEF ServerReply
  <2>2. TypeOK'
    <3>1. served' \in 0..MaxCmds
      BY <1>2, TypeFacts DEF ServerReply
    <3> QED
      BY <1>2, <3>1 DEF IInv, TypeOK, ServerReply
  <2>3. PositionsOrdered' /\ RefusalComesFirst' /\ Aligned'
    <3>1. PositionsOrdered'
      BY <1>2, TypeFacts DEF IInv, PositionsOrdered, ServerReply
    <3>2. RefusalComesFirst' /\ Aligned'
      BY <1>2, TypeFacts DEF IInv, RefusalComesFirst, Aligned, Receiving,
         Called, ServerReply
    <3> QED
      BY <3>1, <3>2
  <2>4. /\ HandlersAttached' /\ ClosedWhenDetached'
        /\ FailureHasError' /\ ReleasedEmpty'
    BY <1>2 DEF IInv, TypeOK, Flags, HandlersAttached, ClosedWhenDetached,
       FailureHasError, ReleasedEmpty, ServerReply
  <2>5. /\ ReadImpliesConnected' /\ ConnectedHandlers'
        /\ QuietWhenDetached' /\ AssertsHold'
    BY <1>2 DEF IInv, TypeOK, Flags, HandlersAttached, ClosedWhenDetached,
       ReadImpliesConnected, ConnectedHandlers, QuietWhenDetached, AssertsHold,
       FailureHasError, ServerReply
  <2> QED
    BY <2>1, <2>2, <2>3, <2>4, <2>5 DEF IInv
<1>3. CASE ServerPush
  <2>1. QueueIsSuffix' /\ CallsMatchQueue'
    BY <1>3, QueueUnchanged DEF ServerPush
  <2>2. TypeOK'
    <3>1. /\ pushed \in 0..MaxPush /\ pushSock \in 0..MaxPush
          /\ pushRd \in 0..MaxPush /\ MaxPush \in Nat
      BY ONLY IInv, TypeFacts
    <3>2. /\ pushSock + pushRd <= pushed /\ pushed < MaxPush
          /\ pushed' = pushed + 1 /\ pushSock' = pushSock + 1
      BY <1>3 DEF IInv, PositionsOrdered, ServerPush
    <3>3. pushed' \in 0..MaxPush /\ pushSock' \in 0..MaxPush
      BY ONLY <3>1, <3>2
    <3> QED
      BY <1>3, <3>3 DEF IInv, TypeOK, ServerPush
  <2>3. PositionsOrdered' /\ RefusalComesFirst' /\ Aligned'
    <3>1. PositionsOrdered'
      <4>1. /\ pushed \in 0..MaxPush /\ pushSock \in 0..MaxPush
            /\ pushRd \in 0..MaxPush /\ MaxPush \in Nat
        BY ONLY IInv, TypeFacts
      <4> QED
        BY <1>3, <4>1 DEF IInv, PositionsOrdered, ServerPush
    <3>2. RefusalComesFirst' /\ Aligned'
      BY <1>3, TypeFacts DEF IInv, RefusalComesFirst, Aligned, Receiving,
         Called, ServerPush
    <3> QED
      BY <3>1, <3>2
  <2>4. /\ HandlersAttached' /\ ClosedWhenDetached'
        /\ FailureHasError' /\ ReleasedEmpty'
    BY <1>3 DEF IInv, TypeOK, Flags, HandlersAttached, ClosedWhenDetached,
       FailureHasError, ReleasedEmpty, ServerPush
  <2>5. /\ ReadImpliesConnected' /\ ConnectedHandlers'
        /\ QuietWhenDetached' /\ AssertsHold'
    BY <1>3 DEF IInv, TypeOK, Flags, HandlersAttached, ClosedWhenDetached,
       ReadImpliesConnected, ConnectedHandlers, QuietWhenDetached, AssertsHold,
       FailureHasError, ServerPush
  <2> QED
    BY <2>1, <2>2, <2>3, <2>4, <2>5 DEF IInv
<1>4. CASE ServerEnd
  <2>1. QueueIsSuffix' /\ CallsMatchQueue'
    BY <1>4, QueueUnchanged DEF ServerEnd
  <2>2. TypeOK'
    BY <1>4, ConstantsAssumption DEF IInv, TypeOK, PositionsOrdered, PCs,
       CallbackPCs, Flags, Errors, INACTIVE, ServerEnd
  <2>3. PositionsOrdered' /\ RefusalComesFirst' /\ Aligned'
    BY <1>4, ConstantsAssumption DEF IInv, TypeOK, PositionsOrdered,
       RefusalComesFirst, Aligned, HandlersAttached, Receiving, Called,
       ServerEnd
  <2>4. /\ HandlersAttached' /\ ClosedWhenDetached'
        /\ FailureHasError' /\ ReleasedEmpty'
    BY <1>4 DEF IInv, TypeOK, Flags, HandlersAttached, ClosedWhenDetached,
       FailureHasError, ReleasedEmpty, ServerEnd
  <2>5. /\ ReadImpliesConnected' /\ ConnectedHandlers'
        /\ QuietWhenDetached' /\ AssertsHold'
    BY <1>4 DEF IInv, TypeOK, Flags, HandlersAttached, ClosedWhenDetached,
       ReadImpliesConnected, ConnectedHandlers, QuietWhenDetached, AssertsHold,
       FailureHasError, ServerEnd
  <2> QED
    BY <2>1, <2>2, <2>3, <2>4, <2>5 DEF IInv
<1> QED
  BY <1>1, <1>2, <1>3, <1>4

\* Turns of valkeyProcessCallbacks that take no callback from the list.
LEMMA ProcessSteps ==
    ASSUME IInv, ProcessPush \/ ProcessEnd
    PROVE  IInv'
<1> USE DEF ctxVars, streamVars, netVars, evVars, tmoVars, histVars
<1>1. CASE ProcessPush
  <2>1. QueueIsSuffix' /\ CallsMatchQueue'
    BY <1>1, QueueUnchanged DEF ProcessPush, CountReply
  <2>2. TypeOK'
    <3>1. pushRd' \in 0..MaxPush
      BY <1>1, TypeFacts DEF ProcessPush
    <3>2. timeout_reply_count' \in Nat \cup {INACTIVE}
      BY <1>1 DEF IInv, TypeOK, ProcessPush, CountReply, INACTIVE
    <3>3. pc' \in PCs /\ flags' \subseteq Flags
      BY <1>1 DEF IInv, TypeOK, ProcessPush, PCs, CallbackPCs, Flags
    <3> QED
      BY <1>1, <3>1, <3>2, <3>3 DEF IInv, TypeOK, ProcessPush
  <2>3. PositionsOrdered' /\ RefusalComesFirst' /\ Aligned'
    <3>1. PositionsOrdered'
      BY <1>1, TypeFacts DEF IInv, PositionsOrdered, ProcessPush
    <3>2. RefusalComesFirst' /\ Aligned'
      BY <1>1, TypeFacts DEF IInv, RefusalComesFirst, Aligned,
         HandlersAttached, Receiving, Called, ProcessPush
    <3> QED
      BY <3>1, <3>2
  <2>4. /\ HandlersAttached' /\ ClosedWhenDetached'
        /\ FailureHasError' /\ ReleasedEmpty'
    BY <1>1 DEF IInv, TypeOK, Flags, HandlersAttached, ClosedWhenDetached,
       FailureHasError, ReleasedEmpty, ProcessPush, CountReply
  <2>5. /\ ReadImpliesConnected' /\ ConnectedHandlers'
        /\ QuietWhenDetached' /\ AssertsHold'
    BY <1>1 DEF IInv, TypeOK, Flags, HandlersAttached, ClosedWhenDetached,
       ReadImpliesConnected, ConnectedHandlers, QuietWhenDetached, AssertsHold,
       FailureHasError, ProcessPush, CountReply
  <2> QED
    BY <2>1, <2>2, <2>3, <2>4, <2>5 DEF IInv
<1>2. CASE ProcessEnd
  <2>1. QueueIsSuffix' /\ CallsMatchQueue'
    BY <1>2, QueueUnchanged DEF ProcessEnd, ReaderDrained,
       valkeyAsyncDisconnectInternal, _EL_CLEANUP
  <2>2. TypeOK'
    BY <1>2, ConstantsAssumption DEF IInv, TypeOK, PositionsOrdered, PCs,
       CallbackPCs, Flags, Errors, INACTIVE, ProcessEnd, ReaderDrained,
       valkeyAsyncDisconnectInternal, _EL_CLEANUP
  <2>3. PositionsOrdered' /\ RefusalComesFirst' /\ Aligned'
    BY <1>2, ConstantsAssumption DEF IInv, TypeOK, PositionsOrdered,
       RefusalComesFirst, Aligned, HandlersAttached, Receiving, Called,
       ProcessEnd, ReaderDrained, valkeyAsyncDisconnectInternal, _EL_CLEANUP
  <2>4. /\ HandlersAttached' /\ ClosedWhenDetached'
        /\ FailureHasError' /\ ReleasedEmpty'
    BY <1>2 DEF IInv, TypeOK, Flags, HandlersAttached, ClosedWhenDetached,
       FailureHasError, ReleasedEmpty, ProcessEnd, ReaderDrained,
       valkeyAsyncDisconnectInternal, _EL_CLEANUP
  <2>5. /\ ReadImpliesConnected' /\ ConnectedHandlers'
        /\ QuietWhenDetached' /\ AssertsHold'
    BY <1>2 DEF IInv, TypeOK, Flags, HandlersAttached, ClosedWhenDetached,
       ReadImpliesConnected, ConnectedHandlers, QuietWhenDetached, AssertsHold,
       FailureHasError, ProcessEnd, ReaderDrained,
       valkeyAsyncDisconnectInternal, _EL_CLEANUP
  <2> QED
    BY <2>1, <2>2, <2>3, <2>4, <2>5 DEF IInv
<1> QED
  BY <1>1, <1>2

\* refreshTimeout leaves a timer that is set or not, and a legal count.
LEMMA RefreshType ==
    ASSUME NEW fl, NEW tm \in BOOLEAN, NEW count \in Nat \cup {INACTIVE},
           refreshTimeout(fl, tm, count)
    PROVE  timer' \in BOOLEAN /\ timeout_reply_count' \in Nat \cup {INACTIVE}
<1>1. timer' \in BOOLEAN
  BY Zenon DEF refreshTimeout
<1>2. timeout_reply_count' \in {0, count}
  BY DEF refreshTimeout
<1> QED
  BY <1>1, <1>2

\* A new command.
LEMMA CommandStep ==
    ASSUME IInv, AsyncCommand
    PROVE  IInv'
<1> USE DEF ctxVars, streamVars, netVars, evVars, tmoVars, histVars
<1>1. /\ QueueIsSuffix' /\ CallsMatchQueue' /\ Called' = Called
      /\ replies' \in Seq([id : Cmds, fn : BOOLEAN]) /\ hasFn' \subseteq Cmds
  BY PushCommand
<1>2. attached /\ issued' = issued + 1 /\ pc' = pc
  BY DEF IInv, AsyncCommand, ClosedWhenDetached
<1>3. TypeOK'
  <2>1. {issued', sent', served', fed', parsed'} \subseteq 0..MaxCmds
    BY ConstantsAssumption DEF IInv, TypeOK, AsyncCommand
  <2>2. /\ {attached', reading', writing', timer', command_timeout'} \subseteq BOOLEAN
        /\ timeout_reply_count' \in Nat \cup {INACTIVE}
    BY ConstantsAssumption DEF IInv, TypeOK, AsyncCommand, refreshTimeout
  <2> QED
    BY <1>1, <2>1, <2>2 DEF IInv, TypeOK, AsyncCommand
<1>4. PositionsOrdered' /\ RefusalComesFirst'
  BY ConstantsAssumption DEF IInv, TypeOK, PositionsOrdered, RefusalComesFirst,
     AsyncCommand
<1>5. Aligned'
  BY <1>1 DEF IInv, Aligned, Receiving, AsyncCommand
<1>6. /\ HandlersAttached' /\ ClosedWhenDetached' /\ FailureHasError'
      /\ ReadImpliesConnected' /\ ConnectedHandlers' /\ AssertsHold'
  BY DEF IInv, HandlersAttached, ClosedWhenDetached, FailureHasError,
     ReadImpliesConnected, ConnectedHandlers, AssertsHold, AsyncCommand
<1>7. ReleasedEmpty' /\ QuietWhenDetached'
  BY <1>2 DEF ReleasedEmpty, QuietWhenDetached, AsyncCommand, UserRuns, CallbackPCs
<1> QED
  BY <1>1, <1>3, <1>4, <1>5, <1>6, <1>7 DEF IInv

\* A write event.
LEMMA HandleWriteStep ==
    ASSUME IInv, valkeyAsyncHandleWrite
    PROVE  IInv'
<1> USE DEF ctxVars, streamVars, netVars, evVars, tmoVars, histVars
<1>1. QueueIsSuffix' /\ CallsMatchQueue'
  BY QueueUnchanged DEF valkeyAsyncHandleWrite
<1>2. TypeOK'
  <2>1. events' \in Seq({"connect_ok", "connect_err", "disconnect_ok", "disconnect_err"})
    <3>1. events' \in {events, Append(events, "connect_ok"), Append(events, "connect_err")}
      BY DEF valkeyAsyncHandleWrite
    <3>2. events \in Seq({"connect_ok", "connect_err", "disconnect_ok", "disconnect_err"})
      BY DEF IInv, TypeOK
    <3> QED
      BY ONLY <3>1, <3>2, AppendProperties
  <2>2. pc' \in PCs /\ flags' \subseteq Flags /\ err' \in Errors
    BY DEF IInv, TypeOK, PCs, CallbackPCs, Flags, Errors, valkeyAsyncHandleWrite
  <2> QED
    BY <2>1, <2>2 DEF IInv, TypeOK, valkeyAsyncHandleWrite
<1>3. PositionsOrdered' /\ RefusalComesFirst' /\ Aligned'
  BY DEF IInv, PositionsOrdered, RefusalComesFirst, Aligned, Receiving, Called,
     valkeyAsyncHandleWrite
<1>4. /\ HandlersAttached' /\ ClosedWhenDetached' /\ FailureHasError' /\ ReleasedEmpty'
      /\ ReadImpliesConnected' /\ ConnectedHandlers' /\ QuietWhenDetached' /\ AssertsHold'
  BY DEF IInv, HandlersAttached, ClosedWhenDetached, FailureHasError, ReleasedEmpty,
     ReadImpliesConnected, ConnectedHandlers, QuietWhenDetached, AssertsHold,
     valkeyAsyncHandleWrite
<1> QED
  BY <1>1, <1>2, <1>3, <1>4 DEF IInv

\* Writing the output buffer.
LEMMA WriteStep ==
    ASSUME IInv, valkeyAsyncWrite
    PROVE  IInv'
<1> USE DEF ctxVars, streamVars, netVars, evVars, tmoVars, histVars
<1>1. QueueIsSuffix' /\ CallsMatchQueue'
  BY QueueUnchanged DEF valkeyAsyncWrite
<1>2. Called' = Called /\ attached
  BY DEF IInv, HandlersAttached, Called, valkeyAsyncWrite
<1>3. /\ {issued, sent, served, fed, parsed} \subseteq Nat
      /\ sent' \in Nat /\ sent <= sent' /\ sent' <= issued /\ issued <= MaxCmds
  <2>1. /\ issued \in 0..MaxCmds /\ sent \in 0..MaxCmds
        /\ served \in 0..MaxCmds /\ fed \in 0..MaxCmds
        /\ parsed \in 0..MaxCmds /\ MaxCmds \in Nat
    BY ONLY IInv, TypeFacts
  <2>2. sent' \in sent..issued
    <3>1. sent <= issued
      BY DEF IInv, PositionsOrdered
    <3>2. sent' \in sent..issued \/ sent' = sent
      BY DEF valkeyAsyncWrite
    <3> QED
      BY ONLY <2>1, <3>1, <3>2
  <2>3. {issued, sent, served, fed, parsed} \subseteq Nat
    BY ONLY <2>1
  <2> QED
    BY ONLY <2>1, <2>2, <2>3
<1>4. TypeOK'
  <2>1. sent' \in 0..MaxCmds
    BY <1>3, ConstantsAssumption
  <2>2. {attached', reading', writing', timer'} \subseteq BOOLEAN
    BY DEF IInv, TypeOK, valkeyAsyncWrite, refreshTimeout,
       valkeyAsyncDisconnectInternal, _EL_CLEANUP
  <2>3. timeout_reply_count' \in Nat \cup {INACTIVE}
    BY RefreshType DEF IInv, TypeOK, valkeyAsyncWrite
  <2>4. pc' \in PCs /\ flags' \subseteq Flags /\ err' \in Errors
    BY DEF IInv, TypeOK, PCs, CallbackPCs, Flags, Errors, valkeyAsyncWrite,
       valkeyAsyncDisconnectInternal
  <2> QED
    BY <2>1, <2>2, <2>3, <2>4 DEF IInv, TypeOK, valkeyAsyncWrite
<1>5. PositionsOrdered' /\ RefusalComesFirst'
  BY <1>3 DEF IInv, PositionsOrdered, RefusalComesFirst, valkeyAsyncWrite
<1>6. Aligned'
  BY <1>2 DEF IInv, Aligned, Receiving, valkeyAsyncWrite
<1>7. /\ HandlersAttached' /\ ClosedWhenDetached' /\ FailureHasError' /\ ReleasedEmpty'
      /\ ReadImpliesConnected' /\ ConnectedHandlers' /\ QuietWhenDetached' /\ AssertsHold'
  BY <1>2 DEF IInv, HandlersAttached, ClosedWhenDetached, FailureHasError, ReleasedEmpty,
     ReadImpliesConnected, ConnectedHandlers, QuietWhenDetached, AssertsHold,
     valkeyAsyncWrite, valkeyAsyncDisconnectInternal, _EL_CLEANUP
<1> QED
  BY <1>1, <1>4, <1>5, <1>6, <1>7 DEF IInv

\* A read event: reading fails, or moves a part of the stream to the reader.
LEMMA HandleReadStep ==
    ASSUME IInv, valkeyAsyncHandleRead
    PROVE  IInv'
<1> USE DEF ctxVars, streamVars, netVars, evVars, tmoVars, histVars
<1>1. QueueIsSuffix' /\ CallsMatchQueue'
  BY QueueUnchanged DEF valkeyAsyncHandleRead
<1>2. Called' = Called /\ attached /\ reading /\ "CONNECTED" \in flags
  BY DEF IInv, ReadImpliesConnected, Called, valkeyAsyncHandleRead
<1>3. /\ {served, fed, parsed, pushed, pushSock, pushRd} \subseteq Nat
      /\ fed' \in Nat /\ fed <= fed' /\ fed' <= served
      /\ pushSock' \in Nat /\ pushRd' \in Nat
      /\ pushSock' + pushRd' = pushSock + pushRd
  <2>1. {served, fed, parsed, pushed, pushSock, pushRd} \subseteq Nat /\ fed <= served
    BY ConstantsAssumption DEF IInv, TypeOK, PositionsOrdered
  <2>2. \/ fed' = fed /\ pushSock' = pushSock /\ pushRd' = pushRd
        \/ \E n \in fed..served, p \in 0..pushSock :
              fed' = n /\ pushSock' = pushSock - p /\ pushRd' = pushRd + p
    BY DEF valkeyAsyncHandleRead
  <2> QED
    BY <2>1, <2>2
<1>4. \/ tail' = tail /\ rend' = rend
      \/ tail' = "eof" /\ rend' = tail /\ tail \in {"garbage", "refused"}
  BY DEF valkeyAsyncHandleRead
<1>5. TypeOK'
  <2>1. fed' \in 0..MaxCmds
    BY <1>3, ConstantsAssumption DEF IInv, TypeOK
  <2>2. {pushSock', pushRd'} \subseteq 0..MaxPush
    <3>1. pushed <= MaxPush /\ pushSock' + pushRd' <= pushed /\ MaxPush \in Nat
      BY <1>3, ConstantsAssumption DEF IInv, TypeOK, PositionsOrdered
    <3> QED
      BY <1>3, <3>1
  <2>3. {attached', reading', writing', timer'} \subseteq BOOLEAN
    BY DEF IInv, TypeOK, valkeyAsyncHandleRead, refreshTimeout,
       valkeyAsyncDisconnectInternal, _EL_CLEANUP
  <2>4. timeout_reply_count' \in Nat \cup {INACTIVE}
    BY RefreshType DEF IInv, TypeOK, valkeyAsyncHandleRead
  <2>6. pc' \in PCs /\ flags' \subseteq Flags /\ err' \in Errors
    BY DEF IInv, TypeOK, PCs, CallbackPCs, Flags, Errors, valkeyAsyncHandleRead,
       valkeyAsyncDisconnectInternal
  <2>5. /\ tail' \in {"open"} \cup Endings \cup {"eof"}
        /\ rend' \in {"none", "garbage", "refused"}
    BY <1>4 DEF IInv, TypeOK
  <2> QED
    BY <2>1, <2>2, <2>3, <2>4, <2>5, <2>6 DEF IInv, TypeOK, valkeyAsyncHandleRead
<1>6. PositionsOrdered'
  BY <1>3 DEF IInv, PositionsOrdered, valkeyAsyncHandleRead
<1>7. RefusalComesFirst'
  BY <1>4 DEF IInv, RefusalComesFirst, valkeyAsyncHandleRead
<1>8. Aligned'
  BY <1>2, <1>4 DEF IInv, Aligned, Receiving, valkeyAsyncHandleRead
<1>9. /\ HandlersAttached' /\ ClosedWhenDetached' /\ FailureHasError' /\ ReleasedEmpty'
      /\ ReadImpliesConnected' /\ ConnectedHandlers' /\ QuietWhenDetached' /\ AssertsHold'
  BY <1>2 DEF IInv, HandlersAttached, ClosedWhenDetached, FailureHasError, ReleasedEmpty,
     ReadImpliesConnected, ConnectedHandlers, QuietWhenDetached, AssertsHold,
     valkeyAsyncHandleRead, valkeyAsyncDisconnectInternal, _EL_CLEANUP
<1> QED
  BY <1>1, <1>5, <1>6, <1>7, <1>8, <1>9 DEF IInv

\* A timer event.
LEMMA HandleTimeoutStep ==
    ASSUME IInv, valkeyAsyncHandleTimeout
    PROVE  IInv'
<1> USE DEF ctxVars, streamVars, netVars, evVars, tmoVars, histVars
<1>1. QueueIsSuffix' /\ CallsMatchQueue'
  BY QueueUnchanged DEF valkeyAsyncHandleTimeout
<1>2. Called' = Called /\ attached
  BY DEF Called, valkeyAsyncHandleTimeout
<1>3. \/ pc' = pc /\ UNCHANGED <<flags, err, events>>
      \/ /\ err' = IF err = "none" THEN "timeout" ELSE err
         /\ \/ pc' = "timeout" /\ UNCHANGED <<flags, events>>
            \/ /\ pc' = "timeout_connect_cb"
               /\ flags' = flags \cup {"IN_CALLBACK"}
               /\ events' = Append(events, "connect_err")
  BY DEF valkeyAsyncHandleTimeout
<1>4. TypeOK'
  <2>1. events' \in Seq({"connect_ok", "connect_err", "disconnect_ok", "disconnect_err"})
    <3>1. events' \in {events, Append(events, "connect_err")}
      BY <1>3
    <3>2. events \in Seq({"connect_ok", "connect_err", "disconnect_ok", "disconnect_err"})
      BY DEF IInv, TypeOK
    <3> QED
      BY ONLY <3>1, <3>2, AppendProperties
  <2>2. pc' \in PCs /\ flags' \subseteq Flags /\ err' \in Errors
    BY <1>3 DEF IInv, TypeOK, PCs, CallbackPCs, Flags, Errors
  <2>3. timer' \in BOOLEAN /\ timeout_reply_count' \in Nat \cup {INACTIVE}
    BY RefreshType DEF IInv, TypeOK, valkeyAsyncHandleTimeout, IdleTimeout
  <2> QED
    BY <2>1, <2>2, <2>3 DEF IInv, TypeOK, valkeyAsyncHandleTimeout
<1>5. PositionsOrdered' /\ RefusalComesFirst'
  BY DEF IInv, PositionsOrdered, RefusalComesFirst, valkeyAsyncHandleTimeout
<1>6. Aligned'
  BY <1>2, <1>3 DEF IInv, Aligned, Receiving, valkeyAsyncHandleTimeout
<1>7. /\ HandlersAttached' /\ ClosedWhenDetached' /\ FailureHasError' /\ ReleasedEmpty'
      /\ ReadImpliesConnected' /\ ConnectedHandlers' /\ QuietWhenDetached' /\ AssertsHold'
  BY <1>2, <1>3 DEF IInv, HandlersAttached, ClosedWhenDetached, FailureHasError,
     ReleasedEmpty, ReadImpliesConnected, ConnectedHandlers, QuietWhenDetached,
     AssertsHold, valkeyAsyncHandleTimeout
<1> QED
  BY <1>1, <1>4, <1>5, <1>6, <1>7 DEF IInv

\* A reply is taken from the reader and given to the head of the list.
LEMMA ProcessReplyStep ==
    ASSUME IInv, ProcessReply
    PROVE  IInv'
<1> USE DEF ctxVars, streamVars, netVars, evVars, tmoVars, histVars
<1>1. /\ {issued, sent, served, fed, parsed} \subseteq Nat
      /\ parsed < fed /\ fed <= served /\ served <= issued /\ fed <= MaxCmds
      /\ Len(replies) \in Nat
  BY ConstantsAssumption DEF IInv, TypeOK, PositionsOrdered, ProcessReply
<1>2. parsed = Called
  BY <1>1 DEF IInv, Aligned, Receiving, ProcessReply
<1>3. replies # <<>>
  BY <1>1, <1>2, EmptySeq DEF Called
<1>4. /\ replies' = valkeyShiftCallback(replies)
      /\ valkeyRunCallback(Head(replies), parsed + 1, "reply_cb", "process")
      /\ UNCHANGED <<issued, hasFn>>
  BY <1>3 DEF ProcessReply
<1>5. /\ QueueIsSuffix' /\ CallsMatchQueue' /\ Called' = Called + 1
      /\ replies' \in Seq([id : Cmds, fn : BOOLEAN])
      /\ calls' \in [Cmds -> Seq(Cmds \cup {NullReply, ErrorReply})]
  BY <1>2, <1>3, <1>4, ShiftAndRun
<1>6. /\ pc' \in {"reply_cb", "process"}
      /\ flags' \in {flags, flags \cup {"IN_CALLBACK"}}
  BY <1>4 DEF valkeyRunCallback, ProcessReply
<1>7. TypeOK'
  <2>1. parsed' \in 0..MaxCmds
    BY <1>1, ConstantsAssumption DEF ProcessReply
  <2>2. timeout_reply_count' \in Nat \cup {INACTIVE}
    BY DEF IInv, TypeOK, CountReply, ProcessReply
  <2>3. pc' \in PCs /\ flags' \subseteq Flags
    BY <1>6 DEF IInv, TypeOK, PCs, CallbackPCs, Flags
  <2> QED
    BY <1>5, <2>1, <2>2, <2>3 DEF IInv, TypeOK, ProcessReply
<1>8. PositionsOrdered' /\ RefusalComesFirst'
  BY <1>1 DEF IInv, PositionsOrdered, RefusalComesFirst, ProcessReply
<1>9. Aligned'
  BY <1>1, <1>2, <1>5 DEF Aligned, ProcessReply
<1>10. /\ HandlersAttached' /\ ClosedWhenDetached' /\ FailureHasError' /\ ReleasedEmpty'
       /\ ReadImpliesConnected' /\ ConnectedHandlers' /\ QuietWhenDetached' /\ AssertsHold'
  BY <1>6 DEF IInv, HandlersAttached, ClosedWhenDetached, FailureHasError, ReleasedEmpty,
     ReadImpliesConnected, ConnectedHandlers, QuietWhenDetached, AssertsHold, ProcessReply
<1> QED
  BY <1>5, <1>7, <1>8, <1>9, <1>10 DEF IInv

\* The error of a refused connection goes to the head of the list, or
\* disconnects if nobody waits.
LEMMA ProcessSpontaneousErrorStep ==
    ASSUME IInv, ProcessSpontaneousError
    PROVE  IInv'
<1> USE DEF ctxVars, streamVars, netVars, evVars, tmoVars, histVars
<1>1. served = 0 /\ tail # "open" /\ attached /\ "CONNECTED" \in flags
  BY DEF IInv, RefusalComesFirst, HandlersAttached, ConnectedHandlers,
     ProcessSpontaneousError
<1>2. PositionsOrdered' /\ RefusalComesFirst' /\ Aligned'
  BY <1>1 DEF IInv, PositionsOrdered, RefusalComesFirst, Aligned, ProcessSpontaneousError
<1>3. timeout_reply_count' \in Nat \cup {INACTIVE}
  BY DEF IInv, TypeOK, CountReply, ProcessSpontaneousError
<1>4. CASE replies # <<>>
  <2>1. /\ replies' = valkeyShiftCallback(replies)
        /\ valkeyRunCallback(Head(replies), ErrorReply, "reply_cb", "process")
        /\ UNCHANGED <<issued, hasFn, err, attached, reading, writing, timer>>
    BY <1>4 DEF ProcessSpontaneousError
  <2>2. /\ QueueIsSuffix' /\ CallsMatchQueue'
        /\ replies' \in Seq([id : Cmds, fn : BOOLEAN])
        /\ calls' \in [Cmds -> Seq(Cmds \cup {NullReply, ErrorReply})]
    BY <1>4, <2>1, ShiftAndRun
  <2>3. /\ pc' \in {"reply_cb", "process"}
        /\ flags' \in {flags, flags \cup {"IN_CALLBACK"}}
    BY <2>1 DEF valkeyRunCallback, ProcessSpontaneousError
  <2>4. TypeOK'
    <3>1. pc' \in PCs /\ flags' \subseteq Flags
      BY <2>3 DEF IInv, TypeOK, PCs, CallbackPCs, Flags
    <3> QED
      BY <1>3, <2>1, <2>2, <3>1 DEF IInv, TypeOK, ProcessSpontaneousError
  <2>5. /\ HandlersAttached' /\ ClosedWhenDetached' /\ FailureHasError' /\ ReleasedEmpty'
        /\ ReadImpliesConnected' /\ ConnectedHandlers' /\ QuietWhenDetached' /\ AssertsHold'
    BY <1>1, <2>1, <2>3 DEF IInv, HandlersAttached, ClosedWhenDetached, FailureHasError,
       ReleasedEmpty, ReadImpliesConnected, ConnectedHandlers, QuietWhenDetached, AssertsHold
  <2> QED
    BY <1>2, <2>2, <2>4, <2>5 DEF IInv
<1>5. CASE replies = <<>>
  <2>1. /\ valkeyAsyncDisconnectInternal(flags, "other")
        /\ UNCHANGED <<replies, issued, calls, hasFn>>
    BY <1>5 DEF ProcessSpontaneousError
  <2>2. QueueIsSuffix' /\ CallsMatchQueue'
    BY <2>1, QueueUnchanged
  <2>3. TypeOK'
    <3>1. /\ pc' \in PCs /\ flags' \subseteq Flags /\ err' \in Errors
          /\ {attached', reading', writing', timer'} \subseteq BOOLEAN
      BY <2>1 DEF IInv, TypeOK, PCs, CallbackPCs, Flags, Errors,
         valkeyAsyncDisconnectInternal, _EL_CLEANUP
    <3> QED
      BY <1>3, <2>1, <3>1 DEF IInv, TypeOK, ProcessSpontaneousError
  <2>4. /\ HandlersAttached' /\ ClosedWhenDetached' /\ FailureHasError' /\ ReleasedEmpty'
        /\ ReadImpliesConnected' /\ ConnectedHandlers' /\ QuietWhenDetached' /\ AssertsHold'
    BY <1>1, <2>1 DEF HandlersAttached, ClosedWhenDetached, FailureHasError, ReleasedEmpty,
       ReadImpliesConnected, ConnectedHandlers, QuietWhenDetached, AssertsHold,
       valkeyAsyncDisconnectInternal, _EL_CLEANUP
  <2> QED
    BY <1>2, <2>2, <2>3, <2>4 DEF IInv
<1> QED
  BY <1>4, <1>5

\* A turn of the loops that run pending callbacks with a NULL reply, on behalf
\* of valkeyAsyncHandleTimeout or valkeyAsyncFreeInternal.
LEMMA NullReplyStep ==
    ASSUME IInv, replies # <<>>,
           NEW turn \in {"timeout", "free"},
           NEW where \in {"timeout_cb", "free_cb"},
           pc = turn, where = IF turn = "free" THEN "free_cb" ELSE "timeout_cb",
           replies' = valkeyShiftCallback(replies),
           valkeyRunCallback(Head(replies), NullReply, where, turn),
           UNCHANGED <<err, streamVars, netVars, evVars, tmoVars, hasFn, events>>
    PROVE  IInv'
<1> USE DEF ctxVars, streamVars, netVars, evVars, tmoVars, histVars
<1>1. /\ QueueIsSuffix' /\ CallsMatchQueue'
      /\ replies' \in Seq([id : Cmds, fn : BOOLEAN])
      /\ calls' \in [Cmds -> Seq(Cmds \cup {NullReply, ErrorReply})]
  BY ShiftAndRun
<1>2. pc' \in {where, turn} /\ flags' \in {flags, flags \cup {"IN_CALLBACK"}}
  BY DEF valkeyRunCallback
<1>3. TypeOK'
  <2>1. pc' \in PCs /\ flags' \subseteq Flags
    BY <1>2 DEF IInv, TypeOK, PCs, CallbackPCs, Flags
  <2> QED
    BY <1>1, <2>1 DEF IInv, TypeOK
<1>4. PositionsOrdered' /\ RefusalComesFirst' /\ Aligned'
  BY <1>2 DEF IInv, PositionsOrdered, RefusalComesFirst, Aligned, Receiving
<1>5. /\ HandlersAttached' /\ ClosedWhenDetached' /\ FailureHasError' /\ ReleasedEmpty'
      /\ ReadImpliesConnected' /\ ConnectedHandlers' /\ QuietWhenDetached' /\ AssertsHold'
  BY <1>2 DEF IInv, HandlersAttached, ClosedWhenDetached, FailureHasError, ReleasedEmpty,
     ReadImpliesConnected, ConnectedHandlers, QuietWhenDetached, AssertsHold
<1> QED
  BY <1>1, <1>3, <1>4, <1>5 DEF IInv

\* The loop of valkeyAsyncHandleTimeout.
LEMMA TimeoutDrainStep ==
    ASSUME IInv, TimeoutDrain
    PROVE  IInv'
<1> USE DEF ctxVars, streamVars, netVars, evVars, tmoVars, histVars
<1>1. CASE replies # <<>>
  BY <1>1, NullReplyStep DEF TimeoutDrain
<1>2. CASE replies = <<>>
  <2>1. QueueIsSuffix' /\ CallsMatchQueue'
    BY <1>2, QueueUnchanged DEF TimeoutDrain
  <2>2. err # "none" /\ pc = "timeout"
    BY DEF IInv, FailureHasError, TimeoutDrain
  <2>3. TypeOK'
    <3>1. /\ pc' \in PCs /\ flags' \subseteq Flags /\ err' \in Errors
          /\ {attached', reading', writing', timer'} \subseteq BOOLEAN
      BY <1>2 DEF IInv, TypeOK, PCs, CallbackPCs, Flags, Errors, TimeoutDrain,
         valkeyAsyncDisconnectInternal, _EL_CLEANUP
    <3> QED
      BY <1>2, <3>1 DEF IInv, TypeOK, TimeoutDrain
  <2>4. PositionsOrdered' /\ RefusalComesFirst' /\ Aligned'
    BY <1>2 DEF IInv, PositionsOrdered, RefusalComesFirst, Aligned, Receiving,
       TimeoutDrain, valkeyAsyncDisconnectInternal, _EL_CLEANUP
  <2>5. /\ HandlersAttached' /\ ClosedWhenDetached' /\ FailureHasError' /\ ReleasedEmpty'
        /\ ReadImpliesConnected' /\ ConnectedHandlers' /\ QuietWhenDetached' /\ AssertsHold'
    BY <1>2, <2>2 DEF IInv, HandlersAttached, ClosedWhenDetached, FailureHasError,
       ReleasedEmpty, ReadImpliesConnected, ConnectedHandlers, QuietWhenDetached,
       AssertsHold, TimeoutDrain, valkeyAsyncDisconnectInternal, _EL_CLEANUP
  <2> QED
    BY <2>1, <2>3, <2>4, <2>5 DEF IInv
<1> QED
  BY <1>1, <1>2

\* valkeyAsyncFreeInternal.
LEMMA FreeInternalStep ==
    ASSUME IInv, valkeyAsyncFreeInternal
    PROVE  IInv'
<1> USE DEF ctxVars, streamVars, netVars, evVars, tmoVars, histVars
<1>1. CASE replies # <<>>
  BY <1>1, NullReplyStep DEF valkeyAsyncFreeInternal
<1>2. CASE replies = <<>>
  <2>1. /\ pc = "free" /\ _EL_CLEANUP /\ FinishFree
        /\ UNCHANGED <<replies, calls, err, streamVars, netVars, tmoVars, hasFn>>
    BY <1>2 DEF valkeyAsyncFreeInternal
  <2>2. QueueIsSuffix' /\ CallsMatchQueue'
    BY <2>1, QueueUnchanged
  <2>3. pc' \in {"disconnect_cb", "freed"}
        /\ flags' \in {flags, flags \cup {"IN_CALLBACK"}}
    BY <2>1 DEF FinishFree
  <2>4. TypeOK'
    <3>1. /\ pc' \in PCs /\ flags' \subseteq Flags
          /\ {attached', reading', writing', timer'} \subseteq BOOLEAN
      BY <2>1, <2>3 DEF IInv, TypeOK, PCs, CallbackPCs, Flags, _EL_CLEANUP
    <3>2. events' \in Seq({"connect_ok", "connect_err", "disconnect_ok", "disconnect_err"})
      <4>1. events' \in {events, Append(events, "disconnect_ok"),
                         Append(events, "disconnect_err")}
        BY <2>1 DEF FinishFree
      <4>2. events \in Seq({"connect_ok", "connect_err", "disconnect_ok", "disconnect_err"})
        BY DEF IInv, TypeOK
      <4> QED
        BY ONLY <4>1, <4>2, AppendProperties
    <3> QED
      BY <2>1, <3>1, <3>2 DEF IInv, TypeOK
  <2>5. PositionsOrdered' /\ RefusalComesFirst' /\ Aligned'
    BY <2>1, <2>3 DEF IInv, PositionsOrdered, RefusalComesFirst, Aligned, Receiving,
       _EL_CLEANUP
  <2>6. /\ HandlersAttached' /\ ClosedWhenDetached' /\ FailureHasError' /\ ReleasedEmpty'
        /\ ReadImpliesConnected' /\ ConnectedHandlers' /\ QuietWhenDetached' /\ AssertsHold'
    BY <1>2, <2>1, <2>3 DEF IInv, HandlersAttached, ClosedWhenDetached, FailureHasError,
       ReleasedEmpty, ReadImpliesConnected, ConnectedHandlers, QuietWhenDetached,
       AssertsHold, _EL_CLEANUP
  <2> QED
    BY <2>2, <2>4, <2>5, <2>6 DEF IInv
<1> QED
  BY <1>1, <1>2

-----------------------------------------------------------------------------
(* The theorems. *)

\* IInv is inductive: every handler, callback, user call and network event of
\* module Async preserves it.
THEOREM InductiveInvariant == Spec => []IInv
<1>1. Init => IInv
  BY InitIInv
<1>2. IInv /\ [Next]_vars => IInv'
  <2> SUFFICES ASSUME IInv, [Next]_vars PROVE IInv'
    OBVIOUS
  <2>1. CASE User
    BY <2>1, CommandStep, UserSteps DEF User
  <2>2. CASE Loop
    BY <2>2, HandleReadStep, HandleWriteStep, HandleTimeoutStep DEF Loop
  <2>3. CASE Returns
    BY <2>3, ReturnSteps DEF Returns
  <2>4. CASE Inside
    BY <2>4, WriteStep, ProcessReplyStep, ProcessSteps, ProcessSpontaneousErrorStep,
       TimeoutDrainStep, FreeInternalStep DEF Inside
  <2>5. CASE Environment
    BY <2>5, EnvironmentSteps DEF Environment
  <2>6. CASE UNCHANGED vars
    <3> USE DEF vars, ctxVars, streamVars, netVars, evVars, tmoVars, histVars
    <3>1. QueueIsSuffix' /\ CallsMatchQueue'
      BY <2>6, QueueUnchanged
    <3>2. TypeOK' /\ PositionsOrdered' /\ RefusalComesFirst' /\ Aligned'
      BY <2>6 DEF IInv, TypeOK, PositionsOrdered, RefusalComesFirst, Aligned, Receiving,
         Called
    <3>3. /\ HandlersAttached' /\ ClosedWhenDetached' /\ FailureHasError'
          /\ ReleasedEmpty' /\ ReadImpliesConnected' /\ ConnectedHandlers'
          /\ QuietWhenDetached' /\ AssertsHold'
      BY <2>6 DEF IInv, HandlersAttached, ClosedWhenDetached, FailureHasError,
         ReleasedEmpty, ReadImpliesConnected, ConnectedHandlers, QuietWhenDetached,
         AssertsHold
    <3> QED
      BY <3>1, <3>2, <3>3 DEF IInv
  <2> QED
    BY <2>1, <2>2, <2>3, <2>4, <2>5, <2>6 DEF Next
<1> QED
  BY <1>1, <1>2, PTL DEF Spec

\* Every variable keeps its type: in particular no stream position overtakes
\* another and no counter leaves its range.
THEOREM TypeCorrect == Spec => []TypeOK
<1>1. IInv => TypeOK
  BY DEF IInv
<1> QED
  BY <1>1, InductiveInvariant, PTL

\* The callback of a command runs at most once, and never with the reply to
\* another command.
THEOREM OwnReply == Spec => []CallbackOnceWithOwnReply
<1>1. IInv => CallbackOnceWithOwnReply
  BY DEF IInv, CallsMatchQueue, CallbackOnceWithOwnReply
<1> QED
  BY <1>1, InductiveInvariant, PTL

\* Callbacks run in the order of the commands.
THEOREM Ordered == Spec => []CallbacksInOrder
<1>1. IInv => CallbacksInOrder
  <2> SUFFICES ASSUME IInv, NEW i \in hasFn, NEW j \in hasFn, i < j, calls[j] # <<>>
               PROVE  calls[i] # <<>>
    BY DEF CallbacksInOrder
  <2>1. i \in Cmds /\ j \in Cmds /\ MaxCmds \in Nat
    BY ConstantsAssumption DEF IInv, TypeOK
  <2>2. j <= Called
    BY <2>1 DEF IInv, CallsMatchQueue
  <2>3. Called \in Int
    BY DEF IInv, TypeOK, Called
  <2>4. i <= Called
    BY <2>1, <2>2, <2>3 DEF Cmds
  <2>5. calls[i] \in {<<i>>, <<NullReply>>, <<ErrorReply>>}
    BY <2>1, <2>4 DEF IInv, CallsMatchQueue
  <2> QED
    BY <2>5
<1> QED
  BY <1>1, InductiveInvariant, PTL

\* No accepted command is forgotten when the context is released.
THEOREM NothingLost == Spec => []NoCallbackLost
<1>1. IInv => NoCallbackLost
  <2> SUFFICES ASSUME IInv, pc = "freed", NEW i \in hasFn
               PROVE  calls[i] # <<>>
    BY DEF NoCallbackLost
  <2>1. replies = <<>>
    BY DEF IInv, ReleasedEmpty
  <2>2. Len(replies) = 0
    BY <2>1
  <2>3. i \in Cmds /\ i <= issued /\ issued \in Nat
    BY ConstantsAssumption DEF IInv, TypeOK, QueueIsSuffix
  <2>4. i <= Called
    BY <2>2, <2>3 DEF Called
  <2>5. calls[i] \in {<<i>>, <<NullReply>>, <<ErrorReply>>}
    BY <2>3, <2>4 DEF IInv, CallsMatchQueue
  <2> QED
    BY <2>5
<1> QED
  BY <1>1, InductiveInvariant, PTL

\* What the application is promised about its callbacks, all of it: each runs at
\* most once, with its own reply, in order, and none is forgotten.
THEOREM CallbackContract == Spec => []CallbacksSound
<1>1. CallbackOnceWithOwnReply /\ CallbacksInOrder /\ NoCallbackLost => CallbacksSound
  BY DEF CallbacksSound
<1> QED
  BY <1>1, OwnReply, Ordered, NothingLost, PTL

\* The asserts of valkeyAsyncDisconnectInternal and valkeyProcessCallbacks never
\* fail.
THEOREM AssertsNeverFail == Spec => []AssertsHold
<1>1. IInv => AssertsHold
  BY DEF IInv
<1> QED
  BY <1>1, InductiveInvariant, PTL

\* The event library's hooks are not called after its data was released.
THEOREM HooksQuiet == Spec => []QuietWhenDetached
<1>1. IInv => QuietWhenDetached
  BY DEF IInv
<1> QED
  BY <1>1, InductiveInvariant, PTL

-----------------------------------------------------------------------------
(* The invariants. *)

\* Where a context can be after the calls of onConnect and onDisconnect it made.
NothingReported ==
    /\ events = <<>> /\ "CONNECTED" \notin flags
    /\ pc \notin {"connect_cb", "connect_err_cb", "timeout_connect_cb", "timeout",
                  "timeout_cb", "disconnect_cb"}
FailureReported ==
    /\ events = <<"connect_err">> /\ "CONNECTED" \notin flags
    /\ pc # "disconnect_cb" /\ (pc = "idle" => ~attached)
ConnectReported ==
    /\ events = <<"connect_ok">> /\ "CONNECTED" \in flags
    /\ pc \notin {"disconnect_cb", "freed"}
DisconnectReported ==
    /\ events \in {<<"connect_ok", "disconnect_ok">>, <<"connect_ok", "disconnect_err">>}
    /\ pc \in {"disconnect_cb", "freed"}
EventsFollow ==
    NothingReported \/ FailureReported \/ ConnectReported \/ DisconnectReported

\* Neither an error nor valkeyAsyncFree has cut the context short.
Graceful == err = "none" /\ "FREEING" \notin flags

\* The context has left the event library or is being released.
Ended == ~attached \/ pc \in {"free", "free_cb", "disconnect_cb", "freed"}

\* A context that went down gracefully so far has given nobody NULL, and nothing
\* is left to be sent or answered once it has ended.
NobodyCutOff ==
    Graceful =>
        /\ \A i \in Cmds : calls[i] # <<NullReply>>
        /\ Ended => replies = <<>> /\ (sent = issued \/ tail # "open")

\* Replies are counted only with a command timeout and, in the event loop and in
\* the handlers that return to it, with a timer.
TimerFollows ==
    timeout_reply_count # INACTIVE =>
        /\ command_timeout
        /\ (attached /\ pc \in {"idle", "connect_cb", "write", "process", "reply_cb",
                                "push_cb"}) => timer

-----------------------------------------------------------------------------
(* The command timer. *)

\* What refreshTimeout leaves: whoever finds replies counted finds a timer.
LEMMA RefreshArms ==
    ASSUME NEW fl, NEW tm \in BOOLEAN, NEW count,
           refreshTimeout(fl, tm, count),
           count # INACTIVE => tm /\ command_timeout
    PROVE  timeout_reply_count' # INACTIVE => timer' /\ command_timeout
BY DEF refreshTimeout

\* A step that touches neither the timer nor the count, and does not bring a
\* context back to the loop.
LEMMA TimerUntouched ==
    ASSUME TimerFollows, UNCHANGED <<timer, timeout_reply_count, command_timeout>>,
           attached' => attached,
           pc' \in {"idle", "connect_cb", "write", "process", "reply_cb", "push_cb"} =>
              pc \in {"idle", "connect_cb", "write", "process", "reply_cb", "push_cb"}
              \/ ~attached'
    PROVE  TimerFollows'
BY DEF TimerFollows

\* valkeyAsyncDisconnectInternal takes the timer away with the event library.
LEMMA TimerCleanedUp ==
    ASSUME TimerFollows, _EL_CLEANUP, UNCHANGED command_timeout,
           timeout_reply_count' # INACTIVE => timeout_reply_count # INACTIVE
    PROVE  TimerFollows'
BY DEF TimerFollows, _EL_CLEANUP

\* A step that counts a reply keeps an inactive count inactive.
LEMMA CountKeepsInactive ==
    ASSUME CountReply, timeout_reply_count' # INACTIVE
    PROVE  timeout_reply_count # INACTIVE
BY DEF CountReply

\* Every step of an application that never sets the command timeout to zero keeps
\* the timer and the count together.
LEMMA TimerStep ==
    ASSUME FALSE \notin SetTimeouts, IInv, TimerFollows, [Next]_vars
    PROVE  TimerFollows'
<1> USE DEF streamVars, netVars, evVars, tmoVars, histVars, ctxVars
<1>0. timer \in BOOLEAN
  BY DEF IInv, TypeOK
<1>1. CASE AsyncCommand
  <2>1. attached /\ pc \notin {"free", "free_cb"}
    BY <1>1 DEF AsyncCommand, IInv, ClosedWhenDetached
  <2>2. CASE pc \in {"idle", "connect_cb", "reply_cb", "push_cb"}
    <3>1. timeout_reply_count # INACTIVE => timer /\ command_timeout
      BY <2>1, <2>2 DEF TimerFollows
    <3>2. refreshTimeout(flags, timer, timeout_reply_count)
      BY <1>1 DEF AsyncCommand
    <3>3. command_timeout' = command_timeout
      BY <1>1 DEF AsyncCommand
    <3> QED
      BY <1>0, <3>1, <3>2, <3>3, RefreshArms DEF TimerFollows
  <2>3. CASE pc \in {"connect_err_cb", "timeout_connect_cb", "timeout_cb"}
    <3>1. pc' = pc /\ command_timeout' = command_timeout
      BY <1>1 DEF AsyncCommand
    <3>2. timeout_reply_count' # INACTIVE => command_timeout
      BY <1>1 DEF AsyncCommand, refreshTimeout, TimerFollows
    <3> QED
      BY <2>3, <3>1, <3>2 DEF TimerFollows
  <2> QED
    BY <1>1, <2>1, <2>2, <2>3 DEF AsyncCommand, UserRuns, CallbackPCs
<1>2. CASE valkeyAsyncDisconnect
  <2>1. UNCHANGED <<timeout_reply_count, command_timeout>>
    BY <1>2 DEF valkeyAsyncDisconnect
  <2>2. CASE _EL_CLEANUP
    BY <2>1, <2>2, TimerCleanedUp
  <2>3. CASE pc' = pc /\ UNCHANGED evVars
    BY <2>1, <2>3, TimerUntouched
  <2> QED
    BY <1>2, <2>2, <2>3 DEF valkeyAsyncDisconnect, DisconnectBody,
       valkeyAsyncDisconnectInternal
<1>3. CASE valkeyAsyncFree
  BY <1>3, TimerUntouched DEF valkeyAsyncFree
<1>4. CASE valkeyAsyncSetTimeout
  <2>1. PICK t \in SetTimeouts : command_timeout' = t
    BY <1>4 DEF valkeyAsyncSetTimeout
  <2>2. t = TRUE
    BY ConstantsAssumption
  <2>3. UNCHANGED <<pc, attached, timer, timeout_reply_count>>
    BY <1>4 DEF valkeyAsyncSetTimeout
  <2> QED
    BY <2>1, <2>2, <2>3 DEF TimerFollows
<1>5. CASE valkeyAsyncHandleRead
  <2>1. pc = "idle" /\ attached /\ command_timeout' = command_timeout
    BY <1>5 DEF valkeyAsyncHandleRead
  <2>2. CASE _EL_CLEANUP /\ UNCHANGED timeout_reply_count
    BY <2>1, <2>2, TimerCleanedUp
  <2>3. CASE refreshTimeout(flags, timer, timeout_reply_count)
    <3>1. timeout_reply_count # INACTIVE => timer /\ command_timeout
      BY <2>1 DEF TimerFollows
    <3> QED
      BY <1>0, <2>1, <2>3, <3>1, RefreshArms DEF TimerFollows
  <2> QED
    BY <1>5, <2>2, <2>3 DEF valkeyAsyncHandleRead, valkeyAsyncDisconnectInternal
<1>6. CASE valkeyAsyncHandleWrite
  BY <1>6, TimerUntouched DEF valkeyAsyncHandleWrite
<1>7. CASE valkeyAsyncHandleTimeout
  <2>1. /\ pc = "idle" /\ attached /\ command_timeout' = command_timeout
        /\ timeout_reply_count # INACTIVE => command_timeout
    BY <1>7 DEF valkeyAsyncHandleTimeout, TimerFollows
  <2>2. CASE timeout_reply_count' = INACTIVE
    BY <2>2 DEF TimerFollows
  <2>3. CASE refreshTimeout(flags, FALSE, INACTIVE)
    BY <2>1, <2>3, RefreshArms DEF TimerFollows
  <2>4. CASE UNCHANGED timeout_reply_count /\ ~command_timeout
    BY <2>1, <2>4 DEF TimerFollows
  <2>5. CASE UNCHANGED timeout_reply_count /\ pc' \in {"timeout", "timeout_connect_cb"}
    BY <2>1, <2>5 DEF TimerFollows
  <2> QED
    BY <1>7, <2>2, <2>3, <2>4, <2>5 DEF valkeyAsyncHandleTimeout, IdleTimeout
<1>8. CASE Returns
  <2>1. UNCHANGED <<timeout_reply_count, command_timeout>>
    BY <1>8 DEF Returns, ConnectCallbackReturns, ConnectFailureCallbackReturns,
       ReplyCallbackReturns, PushCallbackReturns, TimeoutCallbackReturns,
       FreeCallbackReturns, DisconnectCallbackReturns
  <2>2. CASE _EL_CLEANUP
    BY <2>1, <2>2, TimerCleanedUp
  <2>3. CASE UNCHANGED evVars /\ pc \in {"connect_cb", "reply_cb", "push_cb"}
    BY <2>1, <2>3, TimerUntouched
  <2>4. CASE UNCHANGED evVars /\ pc' \in {"timeout", "free", "freed"}
    BY <2>1, <2>4, TimerUntouched
  <2> QED
    BY <1>8, <2>2, <2>3, <2>4 DEF Returns, ConnectCallbackReturns,
       ConnectFailureCallbackReturns, ReplyCallbackReturns, PushCallbackReturns,
       TimeoutCallbackReturns, FreeCallbackReturns, DisconnectCallbackReturns,
       DisconnectBody, valkeyAsyncDisconnectInternal
<1>9. CASE valkeyAsyncWrite
  <2>1. pc = "write" /\ attached /\ command_timeout' = command_timeout
    BY <1>9 DEF valkeyAsyncWrite, IInv, HandlersAttached
  <2>2. CASE _EL_CLEANUP /\ UNCHANGED timeout_reply_count
    BY <2>1, <2>2, TimerCleanedUp
  <2>3. CASE refreshTimeout(flags, timer, timeout_reply_count)
    <3>1. timeout_reply_count # INACTIVE => timer /\ command_timeout
      BY <2>1 DEF TimerFollows
    <3> QED
      BY <1>0, <2>1, <2>3, <3>1, RefreshArms DEF TimerFollows
  <2> QED
    BY <1>9, <2>2, <2>3 DEF valkeyAsyncWrite, valkeyAsyncDisconnectInternal
<1>10. CASE ProcessReply \/ ProcessPush \/ ProcessSpontaneousError
  <2>1. pc = "process" /\ CountReply /\ command_timeout' = command_timeout
    BY <1>10 DEF ProcessReply, ProcessPush, ProcessSpontaneousError
  <2>2. CASE _EL_CLEANUP
    BY <2>1, <2>2, CountKeepsInactive, TimerCleanedUp
  <2>3. CASE UNCHANGED evVars
    BY <2>1, <2>3, CountKeepsInactive DEF TimerFollows
  <2> QED
    BY <1>10, <2>2, <2>3 DEF ProcessReply, ProcessPush, ProcessSpontaneousError,
       valkeyAsyncDisconnectInternal
<1>11. CASE ProcessEnd \/ TimeoutDrain
  <2>1. pc \in {"process", "timeout"} /\ UNCHANGED <<timeout_reply_count, command_timeout>>
    BY <1>11 DEF ProcessEnd, TimeoutDrain
  <2>2. CASE _EL_CLEANUP
    BY <2>1, <2>2, TimerCleanedUp
  <2>3. CASE /\ UNCHANGED evVars
             /\ pc' \in {"timeout", "timeout_cb"} \/ pc = "process"
    BY <2>1, <2>3, TimerUntouched
  <2> QED
    BY <1>11, <2>2, <2>3 DEF ProcessEnd, TimeoutDrain, valkeyAsyncDisconnectInternal,
       valkeyRunCallback
<1>12. CASE valkeyAsyncFreeInternal
  <2>1. /\ UNCHANGED <<timeout_reply_count, command_timeout>>
        /\ pc' \in {"free", "free_cb", "disconnect_cb", "freed"}
    BY <1>12 DEF valkeyAsyncFreeInternal, valkeyRunCallback, FinishFree
  <2> QED
    BY <2>1 DEF TimerFollows
<1>13. CASE Environment \/ UNCHANGED vars
  BY <1>13, TimerUntouched DEF Environment, LinkResolves, ServerReply, ServerPush,
     ServerEnd, vars
<1> QED
  BY <1>1, <1>2, <1>3, <1>4, <1>5, <1>6, <1>7, <1>8, <1>9, <1>10, <1>11, <1>12, <1>13
     DEF Next, User, Loop, Inside

\* async.h: the count of replies is active only while a timer runs.  It holds for
\* every application that never sets the command timeout to zero: the belated
\* timer of valkeyAsyncHandleTimeout leaves the count active.
THEOREM TimerArmed ==
    ASSUME FALSE \notin SetTimeouts
    PROVE  Spec => []CommandTimerArmed
<1>1. Init => TimerFollows
  BY DEF Init, TimerFollows
<1>2. IInv /\ TimerFollows /\ [Next]_vars => TimerFollows'
  BY TimerStep
<1>3. TimerFollows => CommandTimerArmed
  BY DEF TimerFollows, CommandTimerArmed
<1> QED
  BY <1>1, <1>2, <1>3, InductiveInvariant, PTL DEF Spec

-----------------------------------------------------------------------------
(* onConnect and onDisconnect. *)

\* The sequences of reports that arise.
LEMMA EventSequences ==
    ASSUME NEW x, NEW y
    PROVE  Append(<<>>, x) = <<x>> /\ Append(<<x>>, y) = <<x, y>>
<1>1. Append(<<>>, x) = <<x>>
  OBVIOUS
<1>2. Append(<<x>>, y) = <<x, y>>
  <2>1. <<x>> \in Seq({x, y}) /\ <<x, y>> \in Seq({x, y})
    OBVIOUS
  <2>2. /\ Append(<<x>>, y) \in Seq({x, y})
        /\ Len(Append(<<x>>, y)) = 2
        /\ Append(<<x>>, y)[1] = x /\ Append(<<x>>, y)[2] = y
    BY <2>1, AppendProperties
  <2>3. Len(<<x, y>>) = 2 /\ <<x, y>>[1] = x /\ <<x, y>>[2] = y
    OBVIOUS
  <2>4. \A i \in 1..2 : Append(<<x>>, y)[i] = <<x, y>>[i]
    BY <2>2, <2>3
  <2> QED
    BY ONLY <2>1, <2>2, <2>3, <2>4, SeqEqual
<1> QED
  BY <1>1, <1>2

\* A step that reports nothing and leaves the connection flag alone.
LEMMA NothingToReport ==
    ASSUME EventsFollow, events' = events,
           "CONNECTED" \in flags' <=> "CONNECTED" \in flags,
           pc \notin {"disconnect_cb", "freed"}, pc' # "disconnect_cb",
           pc' = "freed" => "CONNECTED" \notin flags,
           pc' \in {"connect_cb", "connect_err_cb", "timeout_connect_cb", "timeout",
                    "timeout_cb"} =>
              "CONNECTED" \in flags \/
              pc \in {"connect_cb", "connect_err_cb", "timeout_connect_cb", "timeout",
                      "timeout_cb"},
           pc' = "idle" /\ attached' => "CONNECTED" \in flags \/ (pc = "idle" /\ attached)
    PROVE  EventsFollow'
BY DEF EventsFollow, NothingReported, FailureReported, ConnectReported,
       DisconnectReported

\* The loop finds an attached context that is not connected: nothing was reported.
LEMMA FirstReport ==
    ASSUME EventsFollow, pc = "idle", attached, "CONNECTED" \notin flags
    PROVE  events = <<>>
BY DEF EventsFollow, NothingReported, FailureReported, ConnectReported,
       DisconnectReported

\* valkeyAsyncDisconnectInternal leaves the reports to valkeyAsyncFreeInternal.
LEMMA InternalReportsNothing ==
    ASSUME EventsFollow, events' = events, pc \notin {"disconnect_cb", "freed"},
           NEW fl, NEW e, valkeyAsyncDisconnectInternal(fl, e),
           "CONNECTED" \in fl <=> "CONNECTED" \in flags
    PROVE  EventsFollow'
<1>1. /\ "CONNECTED" \in flags' <=> "CONNECTED" \in flags
      /\ pc' \in {"abort", "idle", "free"} /\ ~attached'
  BY DEF valkeyAsyncDisconnectInternal, _EL_CLEANUP
<1> QED
  BY <1>1, NothingToReport

\* Every step keeps the reports in line with where the context is.
LEMMA EventsStep ==
    ASSUME IInv, EventsFollow, [Next]_vars
    PROVE  EventsFollow'
<1> USE DEF streamVars, netVars, evVars, tmoVars, histVars, ctxVars
<1>1. CASE AsyncCommand \/ valkeyAsyncFree \/ valkeyAsyncSetTimeout
  <2>1. /\ events' = events /\ attached' = attached
        /\ "CONNECTED" \in flags' <=> "CONNECTED" \in flags
        /\ pc \notin {"disconnect_cb", "freed"} /\ pc' \in {pc, "free"}
    BY <1>1 DEF AsyncCommand, valkeyAsyncFree, valkeyAsyncSetTimeout, UserRuns,
       CallbackPCs
  <2> QED
    BY <2>1, NothingToReport
<1>2. CASE valkeyAsyncDisconnect
  <2> DEFINE closing == (flags \cup {"DISCONNECTING"}) \ {"NO_AUTO_FREE"}
  <2>1. events' = events /\ pc \notin {"disconnect_cb", "freed"}
    BY <1>2 DEF valkeyAsyncDisconnect, UserRuns, CallbackPCs
  <2>2. "CONNECTED" \in closing <=> "CONNECTED" \in flags
    OBVIOUS
  <2>3. CASE valkeyAsyncDisconnectInternal(closing, err)
    BY <2>1, <2>2, <2>3, InternalReportsNothing
  <2>4. CASE flags' = closing /\ pc' = pc /\ UNCHANGED evVars
    BY <2>1, <2>2, <2>4, NothingToReport
  <2> QED
    BY <1>2, <2>3, <2>4 DEF valkeyAsyncDisconnect, DisconnectBody
<1>3. CASE valkeyAsyncHandleRead
  <2>1. pc = "idle" /\ events' = events
    BY <1>3 DEF valkeyAsyncHandleRead
  <2>2. CASE \E e \in Errors : valkeyAsyncDisconnectInternal(flags, e)
    BY <2>1, <2>2, InternalReportsNothing
  <2>3. CASE pc' = "process" /\ flags' = flags
    BY <2>1, <2>3, NothingToReport
  <2> QED
    BY <1>3, <2>2, <2>3 DEF valkeyAsyncHandleRead, Errors
<1>4. CASE valkeyAsyncHandleWrite
  <2>1. pc = "idle" /\ attached /\ attached' = attached
    BY <1>4 DEF valkeyAsyncHandleWrite
  <2>2. CASE "CONNECTED" \in flags
    BY <1>4, <2>1, <2>2, NothingToReport DEF valkeyAsyncHandleWrite
  <2>3. CASE "CONNECTED" \notin flags
    <3>1. events = <<>>
      BY <2>1, <2>3, FirstReport
    <3>2. CASE link = "up"
      <4>1. /\ "CONNECTED" \in flags' /\ pc' = "connect_cb"
            /\ events' = <<"connect_ok">>
        BY <1>4, <2>3, <3>1, <3>2, EventSequences DEF valkeyAsyncHandleWrite
      <4> QED
        BY <4>1 DEF EventsFollow, ConnectReported
    <3>3. CASE link # "up"
      <4>1. /\ "CONNECTED" \notin flags' /\ pc' = "connect_err_cb"
            /\ events' = <<"connect_err">>
        BY <1>4, <2>3, <3>1, <3>3, EventSequences DEF valkeyAsyncHandleWrite
      <4> QED
        BY <4>1 DEF EventsFollow, FailureReported
    <3> QED
      BY <3>2, <3>3
  <2> QED
    BY <2>2, <2>3
<1>5. CASE valkeyAsyncHandleTimeout
  <2>1. pc = "idle" /\ attached /\ attached' = attached
    BY <1>5 DEF valkeyAsyncHandleTimeout
  <2>2. CASE "CONNECTED" \in flags
    <3>1. events' = events /\ flags' = flags /\ pc' \in {pc, "timeout"}
      BY <1>5, <2>2 DEF valkeyAsyncHandleTimeout
    <3> QED
      BY <2>1, <2>2, <3>1, NothingToReport
  <2>3. CASE "CONNECTED" \notin flags
    <3>1. events = <<>>
      BY <2>1, <2>3, FirstReport
    <3>2. /\ "CONNECTED" \notin flags' /\ pc' = "timeout_connect_cb"
          /\ events' = Append(events, "connect_err")
      <4>1. /\ pc' = "timeout_connect_cb"
            /\ flags' = flags \cup {"IN_CALLBACK"}
            /\ events' = Append(events, "connect_err")
        BY ONLY <1>5, <2>3 DEF valkeyAsyncHandleTimeout
      <4> QED
        BY ONLY <2>3, <4>1
    <3>3. events' = <<"connect_err">>
      BY <3>1, <3>2, EventSequences
    <3> QED
      BY <3>2, <3>3 DEF EventsFollow, FailureReported
  <2> QED
    BY <2>2, <2>3
<1>6. CASE ConnectCallbackReturns
  <2> DEFINE fl == flags \ {"IN_CALLBACK"}
             closing == (fl \cup {"DISCONNECTING"}) \ {"NO_AUTO_FREE"}
  <2>1. events' = events /\ pc = "connect_cb" /\ "CONNECTED" \in flags
    BY <1>6 DEF ConnectCallbackReturns, IInv, ConnectedHandlers
  <2>2. CASE valkeyAsyncDisconnectInternal(closing, err)
    BY <2>1, <2>2, InternalReportsNothing
  <2>3. CASE flags' \in {closing, fl} /\ pc' \in {"idle", "free", "write"}
    BY <2>1, <2>3, NothingToReport
  <2> QED
    BY <1>6, <2>2, <2>3 DEF ConnectCallbackReturns, DisconnectBody
<1>7. CASE ConnectFailureCallbackReturns
  BY <1>7, InternalReportsNothing DEF ConnectFailureCallbackReturns
<1>8. CASE \/ ReplyCallbackReturns \/ PushCallbackReturns
           \/ TimeoutCallbackReturns \/ FreeCallbackReturns
  <2>1. /\ events' = events /\ pc \notin {"disconnect_cb", "freed"}
        /\ flags' = flags \ {"IN_CALLBACK"}
        /\ pc' \in {"free", "process", "timeout"}
        /\ pc' = "timeout" => pc \in {"timeout_connect_cb", "timeout_cb"}
    BY <1>8 DEF ReplyCallbackReturns, PushCallbackReturns, TimeoutCallbackReturns,
       FreeCallbackReturns
  <2> QED
    BY <2>1, NothingToReport
<1>9. CASE DisconnectCallbackReturns
  <2>1. events' = events /\ pc = "disconnect_cb" /\ pc' = "freed"
    BY <1>9 DEF DisconnectCallbackReturns
  <2> QED
    BY <2>1 DEF EventsFollow, NothingReported, FailureReported, ConnectReported,
       DisconnectReported
<1>10. CASE valkeyAsyncWrite
  <2>1. events' = events /\ pc = "write" /\ "CONNECTED" \in flags
    BY <1>10 DEF valkeyAsyncWrite, IInv, ConnectedHandlers
  <2>2. CASE valkeyAsyncDisconnectInternal(flags, "io")
    BY <2>1, <2>2, InternalReportsNothing
  <2>3. CASE flags' = flags /\ pc' = "idle"
    BY <2>1, <2>3, NothingToReport
  <2> QED
    BY <1>10, <2>2, <2>3 DEF valkeyAsyncWrite
<1>11. CASE ProcessReply \/ ProcessPush \/ ProcessSpontaneousError \/ ProcessEnd
  <2>1. events' = events /\ pc = "process" /\ "CONNECTED" \in flags
    BY <1>11 DEF ProcessReply, ProcessPush, ProcessSpontaneousError, ProcessEnd,
       IInv, ConnectedHandlers
  <2>2. CASE \E e \in {err, "other", "protocol"} : valkeyAsyncDisconnectInternal(flags, e)
    BY <2>1, <2>2, InternalReportsNothing
  <2>3. CASE /\ flags' \in {flags, flags \cup {"IN_CALLBACK"}}
             /\ pc' \in {"idle", "process", "reply_cb", "push_cb", "abort"}
    BY <2>1, <2>3, NothingToReport
  <2> QED
    BY <1>11, <2>2, <2>3 DEF ProcessReply, ProcessPush, ProcessSpontaneousError,
       ProcessEnd, valkeyRunCallback
<1>12. CASE TimeoutDrain
  <2>1. events' = events /\ pc = "timeout"
    BY <1>12 DEF TimeoutDrain
  <2>2. CASE valkeyAsyncDisconnectInternal(flags, err)
    BY <2>1, <2>2, InternalReportsNothing
  <2>3. CASE /\ flags' \in {flags, flags \cup {"IN_CALLBACK"}}
             /\ pc' \in {"timeout", "timeout_cb"}
    BY <2>1, <2>3, NothingToReport
  <2> QED
    BY <1>12, <2>2, <2>3 DEF TimeoutDrain, valkeyRunCallback
<1>13. CASE valkeyAsyncFreeInternal
  <2>1. pc = "free"
    BY <1>13 DEF valkeyAsyncFreeInternal
  <2>2. CASE replies # <<>>
    <3>1. /\ events' = events /\ pc' \in {"free", "free_cb"}
          /\ flags' \in {flags, flags \cup {"IN_CALLBACK"}}
      BY <1>13, <2>2 DEF valkeyAsyncFreeInternal, valkeyRunCallback
    <3> QED
      BY <2>1, <3>1, NothingToReport
  <2>3. CASE replies = <<>> /\ "CONNECTED" \notin flags
    <3>1. events' = events /\ pc' = "freed" /\ flags' = flags
      BY <1>13, <2>3 DEF valkeyAsyncFreeInternal, FinishFree
    <3> QED
      BY <2>1, <2>3, <3>1, NothingToReport
  <2>4. CASE replies = <<>> /\ "CONNECTED" \in flags
    <3>1. events = <<"connect_ok">>
      BY <2>1, <2>4 DEF EventsFollow, NothingReported, FailureReported,
         ConnectReported, DisconnectReported
    <3>2. /\ pc' = "disconnect_cb"
          /\ \E d \in {"disconnect_ok", "disconnect_err"} : events' = Append(events, d)
      BY <1>13, <2>4 DEF valkeyAsyncFreeInternal, FinishFree
    <3>3. events' \in {<<"connect_ok", "disconnect_ok">>,
                       <<"connect_ok", "disconnect_err">>}
      BY <3>1, <3>2, EventSequences
    <3> QED
      BY <3>2, <3>3 DEF EventsFollow, DisconnectReported
  <2> QED
    BY <2>2, <2>3, <2>4
<1>14. CASE Environment \/ UNCHANGED vars
  <2>1. UNCHANGED <<pc, flags, events, attached>>
    BY <1>14 DEF Environment, LinkResolves, ServerReply, ServerPush, ServerEnd, vars
  <2> QED
    BY <2>1 DEF EventsFollow, NothingReported, FailureReported, ConnectReported,
       DisconnectReported
<1> QED
  BY <1>1, <1>2, <1>3, <1>4, <1>5, <1>6, <1>7, <1>8, <1>9, <1>10, <1>11, <1>12,
     <1>13, <1>14 DEF Next, User, Loop, Returns, Inside

\* onConnect and onDisconnect pair up, wherever the application disconnects,
\* frees or is cut off, and whichever of the three places that report a failed
\* connect comes first.
THEOREM Paired == Spec => []ConnectDisconnectPaired
<1>1. Init => EventsFollow
  BY DEF Init, EventsFollow, NothingReported
<1>2. IInv /\ EventsFollow /\ [Next]_vars => EventsFollow'
  BY EventsStep
<1>3. EventsFollow => ConnectDisconnectPaired
  <2> SUFFICES ASSUME EventsFollow PROVE ConnectDisconnectPaired
    OBVIOUS
  <2>1. CASE events = <<>>
    BY <2>1 DEF ConnectDisconnectPaired
  <2>2. CASE events = <<"connect_err">>
    BY <2>2 DEF ConnectDisconnectPaired
  <2>3. CASE events = <<"connect_ok">> /\ pc # "freed"
    BY <2>3 DEF ConnectDisconnectPaired
  <2>4. CASE /\ pc \in {"disconnect_cb", "freed"}
             /\ \E d \in {"disconnect_ok", "disconnect_err"} : events = <<"connect_ok", d>>
    BY <2>4 DEF ConnectDisconnectPaired
  <2> QED
    BY <2>1, <2>2, <2>3, <2>4 DEF EventsFollow, NothingReported, FailureReported,
       ConnectReported, DisconnectReported
<1> QED
  BY <1>1, <1>2, <1>3, InductiveInvariant, PTL DEF Spec

-----------------------------------------------------------------------------
(* Graceful disconnect. *)

\* With no callback waiting, every command was sent: replies are in step with
\* callbacks, and a reply is read after its command was sent.
LEMMA AllSent ==
    ASSUME IInv, Receiving, replies = <<>>
    PROVE  sent = issued \/ tail # "open"
<1>1. /\ issued \in 0..MaxCmds /\ sent \in 0..MaxCmds /\ served \in 0..MaxCmds
      /\ fed \in 0..MaxCmds /\ parsed \in 0..MaxCmds /\ MaxCmds \in Nat
  BY TypeFacts
<1>2. Called = issued
  BY <1>1 DEF Called
<1>3. parsed = Called \/ tail # "open"
  BY DEF IInv, Aligned
<1> QED
  BY <1>1, <1>2, <1>3 DEF IInv, PositionsOrdered

\* A step that leaves the queue, the output buffer and the calls alone and does
\* not end the context.
LEMMA NothingCut ==
    ASSUME NobodyCutOff, UNCHANGED <<replies, calls, issued, sent>>,
           Graceful' => Graceful, tail' = "open" => tail = "open",
           Graceful' /\ Ended' => Ended
    PROVE  NobodyCutOff'
BY DEF NobodyCutOff

\* valkeyAsyncDisconnectInternal without an error, called from a handler or for a
\* context that had ended: its assert says that no callback is left.
LEMMA InternalCutsNothing ==
    ASSUME IInv, NobodyCutOff, UNCHANGED <<replies, calls, issued, sent>>,
           tail' = "open" => tail = "open",
           NEW fl, NEW e, valkeyAsyncDisconnectInternal(fl, e),
           e = "none" => err = "none" /\ replies = <<>> /\ (Receiving \/ Ended),
           "FREEING" \in flags => "FREEING" \in fl
    PROVE  NobodyCutOff'
<1>1. CASE e # "none"
  BY <1>1 DEF valkeyAsyncDisconnectInternal, NobodyCutOff, Graceful
<1>2. CASE e = "none"
  <2>1. Graceful' => Graceful
    BY <1>2 DEF valkeyAsyncDisconnectInternal, Graceful
  <2>2. CASE Ended
    BY <2>1, <2>2, NothingCut
  <2>3. CASE Receiving
    <3>1. sent = issued \/ tail # "open"
      BY <1>2, <2>3, AllSent
    <3> QED
      BY <1>2, <2>1, <3>1 DEF NobodyCutOff
  <2> QED
    BY <1>2, <2>2, <2>3
<1> QED
  BY <1>1, <1>2

\* valkeyRunCallback with a reply that is not NULL, from valkeyProcessCallbacks.
LEMMA RealReply ==
    ASSUME IInv, NobodyCutOff, replies # <<>>, UNCHANGED <<issued, sent, attached, err>>,
           tail' = tail, pc = "process",
           NEW r \in Int, r # NullReply,
           valkeyRunCallback(Head(replies), r, "reply_cb", "process")
    PROVE  NobodyCutOff'
<1>1. attached /\ pc' \in {"reply_cb", "process"}
  BY DEF IInv, HandlersAttached, valkeyRunCallback
<1>2. ~Ended'
  BY <1>1 DEF Ended
<1>3. Graceful' => Graceful
  BY DEF valkeyRunCallback, Graceful
<1>4. ASSUME Graceful, NEW i \in Cmds
      PROVE  calls'[i] # <<NullReply>>
  <2>1. calls[i] # <<NullReply>>
    BY <1>4 DEF NobodyCutOff
  <2>2. calls \in [Cmds -> Seq(Cmds \cup {NullReply, ErrorReply})]
    BY TypeFacts
  <2>3. CASE calls'[i] = calls[i]
    BY <2>1, <2>3
  <2>4. CASE calls'[i] = Append(calls[i], r)
    <3>1. calls[i] \in Seq(Int)
      BY <2>2 DEF Cmds, NullReply, ErrorReply
    <3>2. /\ Append(calls[i], r)[Len(calls[i]) + 1] = r
          /\ Len(Append(calls[i], r)) = Len(calls[i]) + 1
      BY <3>1
    <3>3. Len(<<NullReply>>) = 1 /\ <<NullReply>>[1] = NullReply /\ Len(calls[i]) \in Nat
      BY <3>1
    <3> QED
      BY ONLY <2>4, <3>2, <3>3, r # NullReply
  <2> QED
    BY <2>2, <2>3, <2>4 DEF valkeyRunCallback
<1> QED
  BY <1>2, <1>3, <1>4 DEF NobodyCutOff

\* No step of a context that has no error and was not freed cuts anybody off.
LEMMA DeliveryStep ==
    ASSUME IInv, NobodyCutOff, [Next]_vars
    PROVE  NobodyCutOff'
<1> USE DEF streamVars, netVars, evVars, tmoVars, histVars, ctxVars
<1>1. CASE AsyncCommand
  <2>1. ~Ended
    BY <1>1 DEF AsyncCommand, IInv, ClosedWhenDetached, Ended
  <2>2. UNCHANGED <<pc, attached, flags, err, calls>>
    BY <1>1 DEF AsyncCommand
  <2> QED
    BY <2>1, <2>2 DEF NobodyCutOff, Ended, Graceful
<1>2. CASE valkeyAsyncDisconnect
  <2> DEFINE closing == (flags \cup {"DISCONNECTING"}) \ {"NO_AUTO_FREE"}
  <2>1. UNCHANGED <<replies, calls, issued, sent, tail>>
    BY <1>2 DEF valkeyAsyncDisconnect
  <2>2. CASE /\ valkeyAsyncDisconnectInternal(closing, err) /\ replies = <<>>
    <3>1. err = "none" => Receiving \/ Ended
      BY <1>2 DEF valkeyAsyncDisconnect, UserRuns, CallbackPCs, Receiving, Ended,
         IInv, FailureHasError
    <3> QED
      BY <2>1, <2>2, <3>1, InternalCutsNothing
  <2>3. CASE flags' = closing /\ pc' = pc /\ UNCHANGED <<err, evVars>>
    BY <2>1, <2>3, NothingCut DEF Graceful, Ended
  <2> QED
    BY <1>2, <2>2, <2>3 DEF valkeyAsyncDisconnect, DisconnectBody
<1>3. CASE valkeyAsyncFree
  BY <1>3 DEF valkeyAsyncFree, NobodyCutOff, Graceful
<1>4. CASE valkeyAsyncSetTimeout
  BY <1>4, NothingCut DEF valkeyAsyncSetTimeout, Graceful, Ended
<1>5. CASE valkeyAsyncHandleRead
  <2>1. UNCHANGED <<replies, calls, issued, sent>>
    BY <1>5 DEF valkeyAsyncHandleRead
  <2>2. tail' = "open" => tail = "open"
    BY <1>5 DEF valkeyAsyncHandleRead
  <2>3. CASE \E e \in {"eof", "io"} : valkeyAsyncDisconnectInternal(flags, e)
    BY <2>1, <2>2, <2>3, InternalCutsNothing
  <2>4. CASE UNCHANGED <<flags, err, attached>> /\ pc' = "process"
    BY <2>1, <2>2, <2>4, NothingCut DEF Graceful, Ended
  <2> QED
    BY <1>5, <2>3, <2>4 DEF valkeyAsyncHandleRead
<1>6. CASE valkeyAsyncHandleWrite
  <2>1. UNCHANGED <<replies, calls, issued, sent, tail, attached>>
    BY <1>6 DEF valkeyAsyncHandleWrite
  <2>2. pc' \notin {"free", "free_cb", "disconnect_cb", "freed"}
    BY <1>6 DEF valkeyAsyncHandleWrite
  <2>3. Graceful' => Graceful
    BY <1>6 DEF valkeyAsyncHandleWrite, Graceful
  <2> QED
    BY <2>1, <2>2, <2>3, NothingCut DEF Ended
<1>7. CASE valkeyAsyncHandleTimeout
  <2>1. UNCHANGED <<replies, calls, issued, sent, tail, attached>>
    BY <1>7 DEF valkeyAsyncHandleTimeout
  <2>2. /\ pc' \in {"idle", "timeout", "timeout_connect_cb"}
        /\ err' = "none" => err = "none"
        /\ flags \subseteq flags'
    BY <1>7 DEF valkeyAsyncHandleTimeout
  <2>3. Graceful' => Graceful
    BY <2>2 DEF Graceful
  <2> QED
    BY <2>1, <2>2, <2>3, NothingCut DEF Ended
<1>8. CASE ConnectCallbackReturns
  <2> DEFINE fl == flags \ {"IN_CALLBACK"}
             closing == (fl \cup {"DISCONNECTING"}) \ {"NO_AUTO_FREE"}
  <2>1. UNCHANGED <<replies, calls, issued, sent, tail>> /\ Receiving
    BY <1>8 DEF ConnectCallbackReturns, Receiving
  <2>2. CASE valkeyAsyncDisconnectInternal(closing, err) /\ replies = <<>>
    BY <2>1, <2>2, InternalCutsNothing
  <2>3. CASE /\ flags' \in {closing, fl} /\ UNCHANGED <<err, attached>>
             /\ pc' \in {"idle", "write"} \/ (pc' = "free" /\ "FREEING" \in flags')
    BY <2>1, <2>3, NothingCut DEF Graceful, Ended
  <2> QED
    BY <1>8, <2>2, <2>3 DEF ConnectCallbackReturns, DisconnectBody
<1>9. CASE ConnectFailureCallbackReturns
  <2>1. UNCHANGED <<replies, calls, issued, sent, tail>> /\ err # "none"
    BY <1>9 DEF ConnectFailureCallbackReturns, IInv, FailureHasError
  <2> QED
    BY <1>9, <2>1, InternalCutsNothing DEF ConnectFailureCallbackReturns
<1>10. CASE \/ ReplyCallbackReturns \/ PushCallbackReturns \/ TimeoutCallbackReturns
            \/ FreeCallbackReturns \/ DisconnectCallbackReturns
  <2>1. /\ UNCHANGED <<replies, calls, issued, sent, tail, err, attached>>
        /\ flags' = flags \ {"IN_CALLBACK"}
    BY <1>10 DEF ReplyCallbackReturns, PushCallbackReturns, TimeoutCallbackReturns,
       FreeCallbackReturns, DisconnectCallbackReturns
  <2>2. \/ pc' \in {"process", "timeout"}
        \/ pc' = "free" /\ "FREEING" \in flags'
        \/ pc \in {"free_cb", "disconnect_cb"}
    BY <1>10 DEF ReplyCallbackReturns, PushCallbackReturns, TimeoutCallbackReturns,
       FreeCallbackReturns, DisconnectCallbackReturns
  <2> QED
    BY <2>1, <2>2, NothingCut DEF Graceful, Ended
<1>11. CASE valkeyAsyncWrite
  <2>1. CASE /\ valkeyAsyncDisconnectInternal(flags, "io")
             /\ UNCHANGED <<replies, calls, issued, sent, tail>>
    BY <2>1, InternalCutsNothing
  <2>2. CASE UNCHANGED <<flags, err, attached, calls>> /\ pc' = "idle"
    <3>1. attached
      BY <1>11 DEF valkeyAsyncWrite, IInv, HandlersAttached
    <3> QED
      BY <2>2, <3>1 DEF NobodyCutOff, Graceful, Ended
  <2> QED
    BY <1>11, <2>1, <2>2 DEF valkeyAsyncWrite
<1>12. CASE ProcessReply
  <2>1. CASE replies # <<>>
    <3>1. parsed + 1 \in Int /\ parsed + 1 # NullReply
      <4>1. parsed \in 0..MaxCmds /\ MaxCmds \in Nat
        BY TypeFacts
      <4> QED
        BY <4>1 DEF NullReply
    <3> QED
      BY <1>12, <2>1, <3>1, RealReply DEF ProcessReply
  <2>2. CASE replies = <<>>
    BY <1>12, <2>2, NothingCut DEF ProcessReply, Graceful, Ended
  <2> QED
    BY <2>1, <2>2
<1>13. CASE ProcessPush
  BY <1>13, NothingCut DEF ProcessPush, Graceful, Ended
<1>14. CASE ProcessSpontaneousError
  <2>1. CASE replies # <<>>
    <3>1. ErrorReply \in Int /\ ErrorReply # NullReply
      BY DEF ErrorReply, NullReply
    <3> QED
      BY <1>14, <2>1, <3>1, RealReply DEF ProcessSpontaneousError
  <2>2. CASE replies = <<>>
    BY <1>14, <2>2, InternalCutsNothing DEF ProcessSpontaneousError
  <2> QED
    BY <2>1, <2>2
<1>15. CASE ProcessEnd
  <2>1. UNCHANGED <<replies, calls, issued, sent, tail>> /\ Receiving
    BY <1>15 DEF ProcessEnd, Receiving
  <2>2. CASE valkeyAsyncDisconnectInternal(flags, err) /\ replies = <<>>
    BY <2>1, <2>2, InternalCutsNothing
  <2>3. CASE valkeyAsyncDisconnectInternal(flags, "protocol")
    BY <2>1, <2>3, InternalCutsNothing
  <2>4. CASE UNCHANGED <<flags, err, attached>> /\ pc' = "idle"
    BY <2>1, <2>4, NothingCut DEF Graceful, Ended
  <2> QED
    BY <1>15, <2>2, <2>3, <2>4 DEF ProcessEnd
<1>16. CASE TimeoutDrain
  <2>1. err # "none"
    BY <1>16 DEF TimeoutDrain, IInv, FailureHasError
  <2>2. err' = err
    BY <1>16 DEF TimeoutDrain, valkeyAsyncDisconnectInternal
  <2> QED
    BY <2>1, <2>2 DEF NobodyCutOff, Graceful
<1>17. CASE valkeyAsyncFreeInternal
  <2>1. Ended /\ err' = err
    BY <1>17 DEF valkeyAsyncFreeInternal, Ended
  <2>2. Graceful' => Graceful
    BY <1>17 DEF valkeyAsyncFreeInternal, valkeyRunCallback, FinishFree, Graceful
  <2>3. CASE replies # <<>>
    BY <2>1, <2>2, <2>3 DEF NobodyCutOff
  <2>4. CASE replies = <<>>
    BY <1>17, <2>1, <2>2, <2>4, NothingCut DEF valkeyAsyncFreeInternal
  <2> QED
    BY <2>3, <2>4
<1>18. CASE Environment \/ UNCHANGED vars
  <2>1. UNCHANGED <<pc, flags, err, attached, replies, calls, issued, sent>>
    BY <1>18 DEF Environment, LinkResolves, ServerReply, ServerPush, ServerEnd, vars
  <2>2. tail' = "open" => tail = "open"
    BY <1>18 DEF Environment, LinkResolves, ServerReply, ServerPush, ServerEnd, vars
  <2> QED
    BY <2>1, <2>2, NothingCut DEF Graceful, Ended
<1> QED
  BY <1>1, <1>2, <1>3, <1>4, <1>5, <1>6, <1>7, <1>8, <1>9, <1>10, <1>11, <1>12,
     <1>13, <1>14, <1>15, <1>16, <1>17, <1>18 DEF Next, User, Loop, Returns, Inside

\* docs/standalone.md: a context that valkeyAsyncDisconnect took down, with no
\* error and no valkeyAsyncFree, has sent what was issued and cut off nobody.
THEOREM GracefulDelivery == Spec => []GracefulDisconnectDelivers
<1>1. Init => NobodyCutOff
  BY DEF Init, NobodyCutOff, Ended
<1>2. IInv /\ NobodyCutOff /\ [Next]_vars => NobodyCutOff'
  BY DeliveryStep
<1>3. IInv /\ NobodyCutOff => GracefulDisconnectDelivers
  <2> SUFFICES ASSUME IInv, NobodyCutOff PROVE GracefulDisconnectDelivers
    OBVIOUS
  <2>1. hasFn \subseteq Cmds
    BY TypeFacts
  <2> QED
    BY <2>1 DEF NobodyCutOff, Graceful, Ended, GracefulDisconnectDelivers
<1> QED
  BY <1>1, <1>2, <1>3, InductiveInvariant, PTL DEF Spec

-----------------------------------------------------------------------------
(* The steps of the queue. *)

\* A step that leaves the queue alone and does not release the context stutters
\* or closes it, since a closing context stays closing.
LEMMA StutterOrClose ==
    ASSUME UNCHANGED <<issued, replies, calls>>,
           pc # "freed", pc' # "freed", Closing => Closing'
    PROVE  [Queue!Next]_(Queue!vars)
<1>1. CASE Closing' = Closing
  BY <1>1 DEF Queue!vars
<1>2. CASE Closing' # Closing
  <2>1. ~Closing /\ Closing' = TRUE
    BY <1>2 DEF Closing
  <2>2. Queue!Close
    BY <2>1 DEF Queue!Close
  <2> QED
    BY <2>2 DEF Queue!Next
<1> QED
  BY <1>1, <1>2

\* The head of ac->replies is finished with reply r.
LEMMA FinishHead ==
    ASSUME replies # <<>>, UNCHANGED issued,
           NEW r, NEW where, NEW back,
           replies' = valkeyShiftCallback(replies),
           valkeyRunCallback(Head(replies), r, where, back),
           pc # "freed", pc' # "freed", Closing' = Closing
    PROVE  Queue!Finish(r)
<1>1. replies' = Tail(replies)
  BY DEF valkeyShiftCallback
<1>2. calls' = IF Head(replies).fn
               THEN [calls EXCEPT ![Head(replies).id] = Append(@, r)] ELSE calls
  BY DEF valkeyRunCallback
<1> QED
  BY <1>1, <1>2 DEF Queue!Finish

\* A callback called with NULL from a context that is closing.
LEMMA FailHead ==
    ASSUME replies # <<>>, UNCHANGED issued,
           NEW where, NEW back,
           replies' = valkeyShiftCallback(replies),
           valkeyRunCallback(Head(replies), NullReply, where, back),
           pc # "freed", pc' # "freed", Closing, Closing' = Closing
    PROVE  [Queue!Next]_(Queue!vars)
<1>1. Queue!Finish(NullReply)
  BY FinishHead
<1> QED
  BY <1>1 DEF Queue!Next, Queue!Fail

\* valkeyAsyncDisconnectInternal leaves the event library.
LEMMA InternalCloses ==
    ASSUME NEW fl, NEW e, valkeyAsyncDisconnectInternal(fl, e)
    PROVE  Closing' /\ pc' # "freed"
BY DEF valkeyAsyncDisconnectInternal, _EL_CLEANUP, Closing

\* A context that calls valkeyProcessCallbacks is not closing.
LEMMA ProcessingIsOpen ==
    ASSUME IInv, pc = "process"
    PROVE  ~Closing
BY DEF IInv, HandlersAttached, Closing

-----------------------------------------------------------------------------
(* The steps of the context, by kind. *)

\* AsyncCommand is Issue.
LEMMA IssueStep ==
    ASSUME IInv, AsyncCommand
    PROVE  [Queue!Next]_(Queue!vars)
<1>1. pc # "freed" /\ pc' = pc /\ attached' = attached /\ calls' = calls
  BY DEF AsyncCommand, UserRuns, CallbackPCs
<1>2. Closing' = Closing
  BY <1>1 DEF Closing
<1>3. issued' = issued + 1 /\ issued + 1 \in Cmds
  <2>1. issued \in 0..MaxCmds /\ MaxCmds \in Nat
    BY TypeFacts
  <2> QED
    BY <2>1 DEF AsyncCommand, Cmds
<1>4. PICK fn \in Fns : replies' = Append(replies, [id |-> issued + 1, fn |-> fn])
  BY DEF AsyncCommand, valkeyPushCallback
<1>5. fn \in BOOLEAN
  BY ConstantsAssumption
<1>6. Queue!Issue
  BY <1>1, <1>2, <1>3, <1>4, <1>5 DEF Queue!Issue
<1> QED
  BY <1>6 DEF Queue!Next

\* The other calls of the user do not touch the queue.
LEMMA UserStep ==
    ASSUME valkeyAsyncDisconnect \/ valkeyAsyncFree \/ valkeyAsyncSetTimeout
    PROVE  [Queue!Next]_(Queue!vars)
<1>1. UNCHANGED <<issued, replies, calls>> /\ pc # "freed"
  BY DEF valkeyAsyncDisconnect, valkeyAsyncFree, valkeyAsyncSetTimeout, UserRuns,
         CallbackPCs, streamVars, histVars, ctxVars
<1>2. pc' # "freed" /\ (Closing => Closing')
  <2>1. CASE valkeyAsyncDisconnect
    <3>1. CASE valkeyAsyncDisconnectInternal(
                 (flags \cup {"DISCONNECTING"}) \ {"NO_AUTO_FREE"}, err)
      BY <3>1, InternalCloses
    <3>2. CASE pc' = pc /\ UNCHANGED evVars
      BY <1>1, <3>2 DEF evVars, Closing
    <3> QED
      BY <2>1, <3>1, <3>2 DEF valkeyAsyncDisconnect, DisconnectBody
  <2>2. CASE valkeyAsyncFree
    BY <1>1, <2>2 DEF valkeyAsyncFree, evVars, Closing
  <2>3. CASE valkeyAsyncSetTimeout
    BY <1>1, <2>3 DEF valkeyAsyncSetTimeout, evVars, Closing
  <2> QED
    BY <2>1, <2>2, <2>3
<1> QED
  BY <1>1, <1>2, StutterOrClose

\* Events: a handler that finds the connection gone, or the deadline passed,
\* closes the context; otherwise nothing happens to the queue yet.
LEMMA LoopStep ==
    ASSUME Loop
    PROVE  [Queue!Next]_(Queue!vars)
<1>1. UNCHANGED <<issued, replies, calls>> /\ pc = "idle" /\ attached
  BY DEF Loop, valkeyAsyncHandleRead, valkeyAsyncHandleWrite, valkeyAsyncHandleTimeout,
         streamVars, histVars
<1>2. ~Closing
  BY <1>1 DEF Closing
<1>3. pc' # "freed"
  <2>1. CASE valkeyAsyncHandleRead
    BY <2>1 DEF valkeyAsyncHandleRead, valkeyAsyncDisconnectInternal
  <2>2. CASE valkeyAsyncHandleWrite
    BY <2>2 DEF valkeyAsyncHandleWrite
  <2>3. CASE valkeyAsyncHandleTimeout
    BY <1>1, <2>3 DEF valkeyAsyncHandleTimeout
  <2> QED
    BY <2>1, <2>2, <2>3 DEF Loop
<1> QED
  BY <1>1, <1>2, <1>3, StutterOrClose

\* The network and the server do not reach into the context.
LEMMA EnvironmentStep ==
    ASSUME Environment
    PROVE  UNCHANGED Queue!vars
BY DEF Environment, LinkResolves, ServerReply, ServerPush, ServerEnd, ctxVars, evVars,
       streamVars, histVars, Queue!vars, Closing

\* Callbacks return: a closing context goes on closing, and the last one
\* returns to the release of the context.
LEMMA ReturnStep ==
    ASSUME IInv, Returns
    PROVE  [Queue!Next]_(Queue!vars)
<1>1. UNCHANGED <<issued, replies, calls>> /\ pc # "freed"
  BY DEF Returns, ConnectCallbackReturns, ConnectFailureCallbackReturns,
         ReplyCallbackReturns, PushCallbackReturns, TimeoutCallbackReturns,
         FreeCallbackReturns, DisconnectCallbackReturns, streamVars, histVars
<1>2. CASE ConnectCallbackReturns
  <2>1. CASE valkeyAsyncDisconnectInternal(
               ((flags \ {"IN_CALLBACK"}) \cup {"DISCONNECTING"}) \ {"NO_AUTO_FREE"}, err)
    BY <1>1, <2>1, InternalCloses, StutterOrClose
  <2>2. CASE pc' \in {"idle", "free", "write"} /\ UNCHANGED evVars
    <3>1. ~Closing
      BY <1>2 DEF ConnectCallbackReturns, IInv, HandlersAttached, Closing
    <3> QED
      BY <1>1, <2>2, <3>1, StutterOrClose
  <2> QED
    BY <1>2, <2>1, <2>2 DEF ConnectCallbackReturns, DisconnectBody
<1>3. CASE ConnectFailureCallbackReturns
  BY <1>1, <1>3, InternalCloses, StutterOrClose DEF ConnectFailureCallbackReturns
<1>4. CASE ReplyCallbackReturns \/ PushCallbackReturns
  <2>1. pc' # "freed" /\ (Closing => Closing')
    BY <1>4 DEF ReplyCallbackReturns, PushCallbackReturns, evVars, Closing
  <2> QED
    BY <1>1, <2>1, StutterOrClose
<1>5. CASE TimeoutCallbackReturns \/ FreeCallbackReturns
  <2>1. pc' # "freed" /\ Closing'
    BY <1>5 DEF TimeoutCallbackReturns, FreeCallbackReturns, Closing
  <2> QED
    BY <1>1, <2>1, StutterOrClose
<1>6. CASE DisconnectCallbackReturns
  <2>1. pc = "disconnect_cb" /\ pc' = "freed" /\ replies = <<>>
    BY <1>6 DEF DisconnectCallbackReturns, IInv, ReleasedEmpty
  <2>2. Closing /\ Closing' = Closing
    BY <2>1 DEF Closing
  <2>3. Queue!Release
    BY <1>1, <2>1, <2>2 DEF Queue!Release
  <2> QED
    BY <2>3 DEF Queue!Next
<1> QED
  BY <1>2, <1>3, <1>4, <1>5, <1>6 DEF Returns

\* A turn of valkeyProcessCallbacks: the reply it takes from the reader is the
\* answer to the head of the queue, because the two are aligned.
LEMMA ProcessStep ==
    ASSUME IInv, ProcessReply \/ ProcessPush \/ ProcessSpontaneousError \/ ProcessEnd
    PROVE  [Queue!Next]_(Queue!vars)
<1>1. pc = "process" /\ ~Closing /\ attached
  BY ProcessingIsOpen DEF ProcessReply, ProcessPush, ProcessSpontaneousError, ProcessEnd,
     Closing
<1>2. CASE ProcessReply
  <2>1. issued' = issued /\ attached' = attached
    BY <1>2 DEF ProcessReply, evVars
  <2>2. CASE replies # <<>>
    <3>1. /\ replies' = valkeyShiftCallback(replies)
          /\ valkeyRunCallback(Head(replies), parsed + 1, "reply_cb", "process")
      BY <1>2, <2>2 DEF ProcessReply
    <3>2. pc' \in {"reply_cb", "process"}
      BY <3>1 DEF valkeyRunCallback
    <3>3. Closing' = Closing
      BY <1>1, <2>1, <3>2 DEF Closing
    <3>4. Queue!Finish(parsed + 1)
      BY <1>1, <2>1, <2>2, <3>1, <3>2, <3>3, FinishHead
    <3>5. Head(replies).id = parsed + 1
      <4>1. /\ issued \in 0..MaxCmds /\ parsed \in 0..MaxCmds /\ fed \in 0..MaxCmds
            /\ served \in 0..MaxCmds /\ MaxCmds \in Nat
            /\ replies \in Seq([id : Cmds, fn : BOOLEAN])
        BY TypeFacts
      <4>2. Len(replies) \in Nat /\ Len(replies) > 0 /\ Head(replies) = replies[1]
        BY <2>2, <4>1, EmptySeq
      <4>3. Head(replies).id = Called + 1
        BY <4>2 DEF IInv, QueueIsSuffix
      <4>4. served # 0
        BY <1>2, <4>1 DEF ProcessReply, IInv, PositionsOrdered
      <4>5. parsed = Called
        BY <1>1, <4>4 DEF IInv, Aligned, Receiving
      <4> QED
        BY <4>3, <4>5
    <3>6. Queue!Answer
      BY <1>1, <2>2, <3>4, <3>5 DEF Queue!Answer
    <3> QED
      BY <3>6 DEF Queue!Next
  <2>3. CASE replies = <<>>
    <3>1. UNCHANGED <<issued, replies, calls>> /\ pc' # "freed"
      BY <1>2, <2>3 DEF ProcessReply
    <3> QED
      BY <1>1, <3>1, StutterOrClose
  <2> QED
    BY <2>2, <2>3
<1>3. CASE ProcessPush
  <2>1. UNCHANGED <<issued, replies, calls>> /\ pc' # "freed"
    BY <1>3 DEF ProcessPush, histVars
  <2> QED
    BY <1>1, <2>1, StutterOrClose
<1>4. CASE ProcessSpontaneousError
  <2>1. CASE replies # <<>>
    <3>1. /\ replies' = valkeyShiftCallback(replies) /\ issued' = issued
          /\ valkeyRunCallback(Head(replies), ErrorReply, "reply_cb", "process")
          /\ attached' = attached
      BY <1>4, <2>1 DEF ProcessSpontaneousError, streamVars, evVars
    <3>2. pc' \in {"reply_cb", "process"}
      BY <3>1 DEF valkeyRunCallback
    <3>3. Closing' = Closing
      BY <1>1, <3>1, <3>2 DEF Closing
    <3>4. Queue!Finish(ErrorReply)
      BY <1>1, <2>1, <3>1, <3>2, <3>3, FinishHead
    <3> QED
      BY <1>1, <3>4 DEF Queue!Next, Queue!Refuse
  <2>2. CASE replies = <<>>
    <3>1. /\ UNCHANGED <<issued, replies, calls>>
          /\ valkeyAsyncDisconnectInternal(flags, "other")
      BY <1>4, <2>2 DEF ProcessSpontaneousError, streamVars
    <3> QED
      BY <1>1, <3>1, InternalCloses, StutterOrClose
  <2> QED
    BY <2>1, <2>2
<1>5. CASE ProcessEnd
  <2>1. UNCHANGED <<issued, replies, calls>>
    BY <1>5 DEF ProcessEnd, streamVars, histVars
  <2>2. pc' # "freed"
    BY <1>5 DEF ProcessEnd, valkeyAsyncDisconnectInternal
  <2> QED
    BY <1>1, <2>1, <2>2, StutterOrClose
<1> QED
  BY <1>2, <1>3, <1>4, <1>5

\* The loops that call the callbacks left with NULL, and the end of
\* valkeyAsyncFreeInternal.
LEMMA DrainStep ==
    ASSUME TimeoutDrain \/ valkeyAsyncFreeInternal
    PROVE  [Queue!Next]_(Queue!vars)
<1>1. pc \in {"timeout", "free"} /\ Closing /\ issued' = issued
  BY DEF TimeoutDrain, valkeyAsyncFreeInternal, Closing, streamVars
<1>2. CASE TimeoutDrain /\ replies # <<>>
  <2>1. /\ replies' = valkeyShiftCallback(replies)
        /\ valkeyRunCallback(Head(replies), NullReply, "timeout_cb", "timeout")
    BY <1>2 DEF TimeoutDrain
  <2>2. pc' \in {"timeout_cb", "timeout"}
    BY <2>1 DEF valkeyRunCallback
  <2>3. Closing' = Closing
    BY <1>1, <2>2 DEF Closing
  <2> QED
    BY <1>1, <1>2, <2>1, <2>2, <2>3, FailHead
<1>3. CASE TimeoutDrain /\ replies = <<>>
  <2>1. /\ UNCHANGED <<replies, calls>>
        /\ valkeyAsyncDisconnectInternal(flags, err)
    BY <1>3 DEF TimeoutDrain
  <2> QED
    BY <1>1, <2>1, InternalCloses, StutterOrClose
<1>4. CASE valkeyAsyncFreeInternal /\ replies # <<>>
  <2>1. /\ replies' = valkeyShiftCallback(replies)
        /\ valkeyRunCallback(Head(replies), NullReply, "free_cb", "free")
    BY <1>4 DEF valkeyAsyncFreeInternal
  <2>2. pc' \in {"free_cb", "free"}
    BY <2>1 DEF valkeyRunCallback
  <2>3. Closing' = Closing
    BY <1>1, <2>2 DEF Closing
  <2> QED
    BY <1>1, <1>4, <2>1, <2>2, <2>3, FailHead
<1>5. CASE valkeyAsyncFreeInternal /\ replies = <<>>
  <2>1. UNCHANGED <<replies, calls>> /\ FinishFree
    BY <1>5 DEF valkeyAsyncFreeInternal
  <2>2. CASE pc' = "disconnect_cb"
    BY <1>1, <2>1, <2>2, StutterOrClose DEF Closing
  <2>3. CASE pc' = "freed"
    <3>1. Closing' = Closing
      BY <1>1, <2>3 DEF Closing
    <3>2. Queue!Release
      BY <1>1, <1>5, <2>1, <2>3, <3>1 DEF Queue!Release
    <3> QED
      BY <3>2 DEF Queue!Next
  <2> QED
    BY <2>1, <2>2, <2>3 DEF FinishFree
<1> QED
  BY <1>2, <1>3, <1>4, <1>5

\* Writing does not touch the queue.
LEMMA WritingStep ==
    ASSUME IInv, valkeyAsyncWrite
    PROVE  [Queue!Next]_(Queue!vars)
<1>1. UNCHANGED <<issued, replies, calls>> /\ pc = "write"
  BY DEF valkeyAsyncWrite, histVars
<1>2. ~Closing
  BY <1>1 DEF IInv, HandlersAttached, Closing
<1>3. pc' # "freed"
  BY DEF valkeyAsyncWrite, valkeyAsyncDisconnectInternal
<1> QED
  BY <1>1, <1>2, <1>3, StutterOrClose

-----------------------------------------------------------------------------
(* The theorem. *)

\* An asynchronous context implements the queue of commands that
\* docs/standalone.md describes: whatever the handlers, callbacks, timers and the
\* connection do, commands are answered in order with their own replies, and
\* with NULL, all of them, once the context is closing; it is released when none
\* is left.
THEOREM Refinement == Spec => ImplementsQueue
<1>1. Init => Queue!Init
  <2> SUFFICES ASSUME Init PROVE Queue!Init
    OBVIOUS
  <2>1. Closing = FALSE
    BY DEF Init, Closing
  <2> QED
    BY <2>1 DEF Init, Queue!Init
<1>2. IInv /\ [Next]_vars => [Queue!Next]_(Queue!vars)
  <2> SUFFICES ASSUME IInv, [Next]_vars PROVE [Queue!Next]_(Queue!vars)
    OBVIOUS
  <2>1. CASE User
    BY <2>1, IssueStep, UserStep DEF User
  <2>2. CASE Loop
    BY <2>2, LoopStep
  <2>3. CASE Returns
    BY <2>3, ReturnStep
  <2>4. CASE Inside
    BY <2>4, ProcessStep, DrainStep, WritingStep DEF Inside
  <2>5. CASE Environment
    BY <2>5, EnvironmentStep
  <2>6. CASE UNCHANGED vars
    BY <2>6 DEF vars, ctxVars, evVars, streamVars, histVars, Queue!vars, Closing
  <2> QED
    BY <2>1, <2>2, <2>3, <2>4, <2>5, <2>6 DEF Next
<1> QED
  BY <1>1, <1>2, InductiveInvariant, PTL DEF Spec, ImplementsQueue, Queue!Spec

=============================================================================
