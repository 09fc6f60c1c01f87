------------------------------- MODULE PubSub -------------------------------
(***************************************************************************)
(* Subscriptions on a valkeyAsyncContext (src/src/async.c): the three      *)
(* dictionaries of subscription callbacks, the counter of unsubscribe      *)
(* replies to be ignored, the SUBSCRIBED flag, and the two lists of        *)
(* regular callbacks, ac->replies and ac->sub.replies, that the flag       *)
(* chooses between.  The hard part is that (un)subscribe replies match no  *)
(* callback list: they are recognised by their content while commands are  *)
(* pipelined.                                                              *)
(*                                                                         *)
(* Connecting, timeouts and the deferral of shutdown by callbacks are the  *)
(* subject of module Async.  Here a turn of valkeyProcessCallbacks is one  *)
(* action: its callback is the last thing that happens in it, so that what *)
(* the callback calls is a user step after it.                             *)
(***************************************************************************)
EXTENDS Integers, Sequences, FiniteSets

CONSTANTS Kind,        \* [channel name -> "channels", "patterns" or "schannels"]
          MaxMsgs,     \* bound: messages published
          MaxArgs,     \* bound: channels named in one command
          Cases        \* what a behaviour may do: a subset of CaseType

Keys == DOMAIN Kind
Kinds == {"channels", "patterns", "schannels"}
ErrorKinds == {"moved", "other"}   \* MOVED or CROSSSLOT; any other error

\* Channels used, a bound on the commands issued, the errors the server may
\* send, whether the user may unsubscribe what is already unsubscribed, and
\* SSUBSCRIBE on a subscribed context.
CaseType == [keys : SUBSET Keys, cmds : Nat, refusals : SUBSET ErrorKinds,
             repeats : BOOLEAN, nested : BOOLEAN]

ASSUME PubSubConstants ==
    /\ \A k \in Keys : Kind[k] \in Kinds
    /\ {MaxMsgs, MaxArgs} \subseteq Nat
    /\ Cases \subseteq CaseType

VARIABLES
    mode,            \* one of Modes
    SUBSCRIBED,      \* c->flags & VALKEY_SUBSCRIBED
    replies,         \* ac->replies
    subReplies,      \* ac->sub.replies
    dict,            \* ac->sub.channels, patterns and schannels together
    pending_unsubs,  \* ac->sub.pending_unsubs
    wire,            \* commands on their way to the server
    srv,             \* the channels the server has this client subscribed to
    sock,            \* replies and messages on their way to the client
    issued, published,
    case,            \* the member of Cases this behaviour is about
    \* History, read by the properties only:
    wanted,          \* channels whose last command was a subscribe
    subs,            \* the <<channel, command>> pairs ever subscribed with
    calls,           \* calls[i]: what regular command i's callback was given
    last             \* the last pushed message processed, and who was called

ctxVars  == <<mode, SUBSCRIBED, replies, subReplies, dict, pending_unsubs>>
netVars  == <<wire, srv, sock>>
histVars == <<wanted, subs, calls, last>>
vars == <<ctxVars, netVars, issued, published, case, histVars>>

NoFn == 0           \* a NULL function pointer; the i-th command's function is i
NullReply == 0      \* a NULL reply; regular command i is answered with i
Pushed == -1        \* a pushed message, as the argument of a callback
NoKey == "nil"      \* the channel in the reply to an UNSUBSCRIBE of nothing

\* Open; shut down in an orderly way or not; dropped because of an error reply
\* that no callback was found for; stopped by a failed assertion.
Modes == {"open", "disconnecting", "disconnected", "freed", "dropped", "abort"}
Alive == mode \in {"open", "disconnecting"}

\* No pushed message processed.
NoDelivery == [t |-> "none", key |-> NoKey, fn |-> NoFn]

\* Channel arguments of a command: distinct names of one kind.
ArgLists == {s \in UNION {[1..n -> case.keys] : n \in 1..MaxArgs} :
               /\ \A i, j \in DOMAIN s : i # j => s[i] # s[j]
               /\ \A i, j \in DOMAIN s : Kind[s[i]] = Kind[s[j]]}
Named(s) == {s[i] : i \in DOMAIN s}

-----------------------------------------------------------------------------
(* Issuing commands: valkeyAsyncAppendCmdLen. *)

\* A command is accepted, numbered and written.
Accept == /\ mode = "open"
          /\ issued < case.cmds
          /\ issued' = issued + 1
Send(cmd) == wire' = Append(wire, cmd)

\* The callbacks stored for the channels of a (P|S)SUBSCRIBE.  One stack
\* variable cb is reused for all of them: what an existing subscription leaves
\* in it is still there for the next channel.
SubscribeCallbacks(keys, id) ==
    LET sharded == Kind[keys[1]] = "schannels"
        cb[i \in 0..Len(keys)] ==
            IF i = 0
            THEN [fn |-> id, pending_subs |-> 1, unsubscribe_sent |-> FALSE,
                  subscribed |-> FALSE]
            ELSE IF keys[i] \in DOMAIN dict
            THEN [cb[i - 1] EXCEPT !.pending_subs = dict[keys[i]].pending_subs + 1,
                                   !.subscribed = dict[keys[i]].subscribed,
                                   !.fn = dict[keys[i]].fn]
            ELSE [cb[i - 1] EXCEPT !.fn = IF sharded THEN NoFn ELSE @]
    IN  [k \in DOMAIN dict \cup Named(keys) |->
            IF k \in Named(keys)
            THEN cb[CHOOSE i \in 1..Len(keys) : keys[i] = k]
            ELSE dict[k]]

\* (P|S)SUBSCRIBE.  A sharded one also enters a callback list, because it can
\* be answered with an error.
Subscribe(keys) ==
    /\ Accept
    /\ Kind[keys[1]] = "schannels" => case.nested \/ ~SUBSCRIBED
    /\ dict' = SubscribeCallbacks(keys, issued + 1)
    /\ SUBSCRIBED' = TRUE
    /\ LET cb == [t |-> "ssubscribe", id |-> issued + 1, keys |-> keys] IN
       IF Kind[keys[1]] # "schannels"
       THEN UNCHANGED <<replies, subReplies>>
       ELSE IF SUBSCRIBED
       THEN subReplies' = Append(subReplies, cb) /\ UNCHANGED replies
       ELSE replies' = Append(replies, cb) /\ UNCHANGED subReplies
    /\ Send([t |-> "subscribe", id |-> issued + 1, keys |-> keys])
    /\ wanted' = wanted \cup Named(keys)
    /\ subs' = subs \cup (Named(keys) \X {issued + 1})
    /\ UNCHANGED <<mode, pending_unsubs, srv, sock, published, case, calls, last>>

\* Faulty variant: the first unsubscribe of a subscription is counted too.
Unsubscribe_CountsFirst(keys) ==
    /\ Accept
    /\ SUBSCRIBED
    /\ case.repeats \/ Named(keys) \subseteq wanted
    /\ dict' = [k \in DOMAIN dict |->
                  IF k \in Named(keys) THEN [dict[k] EXCEPT !.unsubscribe_sent = TRUE]
                                       ELSE dict[k]]
    /\ pending_unsubs' = pending_unsubs + Len(keys)
    /\ Send([t |-> "unsubscribe", id |-> issued + 1, keys |-> keys])
    /\ wanted' = wanted \ Named(keys)
    /\ UNCHANGED <<mode, SUBSCRIBED, replies, subReplies, srv, sock, published, case,
                   subs, calls, last>>

\* (P|S)UNSUBSCRIBE with channels: the first one sent for a subscription is
\* marked in it, others will be answered without one.
Unsubscribe(keys) ==
    /\ Accept
    /\ SUBSCRIBED
    /\ case.repeats \/ Named(keys) \subseteq wanted
    /\ LET marked == {k \in Named(keys) \cap DOMAIN dict : ~dict[k].unsubscribe_sent} IN
       /\ dict' = [k \in DOMAIN dict |->
                     IF k \in marked THEN [dict[k] EXCEPT !.unsubscribe_sent = TRUE]
                                     ELSE dict[k]]
       /\ pending_unsubs' = pending_unsubs + Cardinality(Named(keys) \ marked)
    /\ Send([t |-> "unsubscribe", id |-> issued + 1, keys |-> keys])
    /\ wanted' = wanted \ Named(keys)
    /\ UNCHANGED <<mode, SUBSCRIBED, replies, subReplies, srv, sock, published, case,
                   subs, calls, last>>

\* (P|S)UNSUBSCRIBE without channels.
UnsubscribeAll(kind) ==
    /\ Accept
    /\ SUBSCRIBED
    /\ case.repeats \/ \E k \in wanted : Kind[k] = kind
    /\ LET marked == {k \in DOMAIN dict : Kind[k] = kind /\ ~dict[k].unsubscribe_sent} IN
       /\ dict' = [k \in DOMAIN dict |->
                     IF k \in marked THEN [dict[k] EXCEPT !.unsubscribe_sent = TRUE]
                                     ELSE dict[k]]
       /\ pending_unsubs' = pending_unsubs + IF marked = {} THEN 1 ELSE 0
    /\ Send([t |-> "unsubscribe_all", id |-> issued + 1, kind |-> kind])
    /\ wanted' = {k \in wanted : Kind[k] # kind}
    /\ UNCHANGED <<mode, SUBSCRIBED, replies, subReplies, srv, sock, published, case,
                   subs, calls, last>>

\* Any other command with a callback.
Regular ==
    /\ Accept
    /\ LET cb == [t |-> "regular", id |-> issued + 1] IN
       IF SUBSCRIBED
       THEN subReplies' = Append(subReplies, cb) /\ UNCHANGED replies
       ELSE replies' = Append(replies, cb) /\ UNCHANGED subReplies
    /\ Send([t |-> "regular", id |-> issued + 1])
    /\ calls' = [i \in DOMAIN calls \cup {issued + 1} |->
                   IF i \in DOMAIN calls THEN calls[i] ELSE <<>>]
    /\ UNCHANGED <<mode, SUBSCRIBED, dict, pending_unsubs, srv, sock, published, case,
                   wanted, subs, last>>

-----------------------------------------------------------------------------
(* The server (external), as far as this client sees it. *)

\* The number in an (un)subscribe reply: sharded subscriptions are counted
\* apart from channels and patterns.
Count(S, kind) ==
    Cardinality({k \in S : (Kind[k] = "schannels") = (kind = "schannels")})

\* The server executes the next command: one message per channel for
\* (un)subscribe, a reply or an error otherwise.
ServerExecutes ==
    /\ Alive
    /\ wire # <<>>
    /\ LET cmd == Head(wire) IN
       \/ /\ cmd.t = "regular"
          /\ sock' = Append(sock, [t |-> "reply", id |-> cmd.id])
          /\ UNCHANGED srv
       \/ /\ \/ cmd.t = "regular"
             \/ cmd.t = "subscribe" /\ Kind[cmd.keys[1]] = "schannels"
          /\ \E kind \in case.refusals :
                sock' = Append(sock, [t |-> "error", id |-> cmd.id, kind |-> kind])
          /\ UNCHANGED srv
       \/ /\ cmd.t = "subscribe"
          /\ LET upTo(i) == srv \cup {cmd.keys[j] : j \in 1..i} IN
             /\ srv' = upTo(Len(cmd.keys))
             /\ sock' = sock \o [i \in 1..Len(cmd.keys) |->
                   [t |-> "subscribe", key |-> cmd.keys[i],
                    n |-> Count(upTo(i), Kind[cmd.keys[i]])]]
       \/ /\ cmd.t = "unsubscribe"
          /\ LET upTo(i) == srv \ {cmd.keys[j] : j \in 1..i} IN
             /\ srv' = upTo(Len(cmd.keys))
             /\ sock' = sock \o [i \in 1..Len(cmd.keys) |->
                   [t |-> "unsubscribe", key |-> cmd.keys[i], kind |-> Kind[cmd.keys[i]],
                    n |-> Count(upTo(i), Kind[cmd.keys[i]])]]
       \/ /\ cmd.t = "unsubscribe_all"
          /\ LET mine == {k \in srv : Kind[k] = cmd.kind} IN
             IF mine = {}
             THEN /\ sock' = Append(sock, [t |-> "unsubscribe", key |-> NoKey,
                                           kind |-> cmd.kind, n |-> Count(srv, cmd.kind)])
                  /\ UNCHANGED srv
             ELSE \E order \in [1..Cardinality(mine) -> mine] :
                  /\ {order[i] : i \in DOMAIN order} = mine
                  /\ srv' = srv \ mine
                  /\ sock' = sock \o [i \in 1..Cardinality(mine) |->
                        [t |-> "unsubscribe", key |-> order[i], kind |-> cmd.kind,
                         n |-> Count(srv \ {order[j] : j \in 1..i}, cmd.kind)]]
    /\ wire' = Tail(wire)
    /\ UNCHANGED <<ctxVars, issued, published, case, histVars>>

\* Somebody publishes to a channel this client is subscribed to.
ServerPublishes ==
    /\ Alive
    /\ published < MaxMsgs
    /\ published' = published + 1
    /\ UNCHANGED case
    /\ \E k \in srv : sock' = Append(sock, [t |-> "message", key |-> k])
    /\ UNCHANGED <<ctxVars, wire, srv, issued, histVars>>

-----------------------------------------------------------------------------
(* A turn of valkeyProcessCallbacks.  What it does to the context is a      *)
(* function of the state s it finds, because valkeySsubscribeCallback runs  *)
(* part of it again.                                                        *)

Context == [dict |-> dict, pending_unsubs |-> pending_unsubs,
            SUBSCRIBED |-> SUBSCRIBED, replies |-> replies,
            subReplies |-> subReplies, calls |-> calls, last |-> NoDelivery]

Becomes(s) == /\ dict' = s.dict
              /\ pending_unsubs' = s.pending_unsubs
              /\ SUBSCRIBED' = s.SUBSCRIBED
              /\ replies' = s.replies
              /\ subReplies' = s.subReplies
              /\ calls' = s.calls
              /\ last' = s.last

IsPush(m) == m.t \in {"subscribe", "unsubscribe", "message"}
Given(m) == IF IsPush(m) THEN Pushed ELSE m.id
Without(d, k) == [x \in DOMAIN d \ {k} |-> d[x]]

\* Faulty variant: pipelined subscribes are overlooked.
RevertMode_IgnoresPipelined(s, m) ==
    IF m.n = 0
    THEN [s EXCEPT !.SUBSCRIBED = FALSE, !.replies = @ \o s.subReplies,
                   !.subReplies = <<>>]
    ELSE s

\* The unsubscribe reply that leaves nothing subscribed and nothing expected
\* ends subscribed mode; the regular callbacks change lists.
RevertMode(s, m) ==
    IF m.n = 0 /\ DOMAIN s.dict = {} /\ s.pending_unsubs = 0
    THEN [s EXCEPT !.SUBSCRIBED = FALSE, !.replies = @ \o s.subReplies,
                   !.subReplies = <<>>]
    ELSE s

\* valkeyGetSubscribeCallback for a pushed message, and the call of what it
\* finds.  The callback is copied before the dictionary changes.
valkeyGetSubscribeCallback(s, m) ==
    LET found == m.key \in DOMAIN s.dict
        t == [s EXCEPT !.last = [t |-> m.t, key |-> m.key,
                                 fn |-> IF found THEN s.dict[m.key].fn ELSE NoFn]]
    IN  CASE m.t = "message" -> t
          [] m.t = "subscribe" ->
                [t EXCEPT !.dict[m.key].pending_subs = @ - 1,
                          !.dict[m.key].subscribed = TRUE]
          [] m.t = "unsubscribe" ->
                RevertMode(
                    IF ~found THEN [t EXCEPT !.pending_unsubs = @ - 1]
                    ELSE IF s.dict[m.key].pending_subs = 0
                    THEN [t EXCEPT !.dict = Without(@, m.key)]
                    ELSE t, m)

\* assert(cb != NULL) in valkeyGetSubscribeCallback.
SubscribeAssert(s, m) == m.t = "subscribe" => m.key \in DOMAIN s.dict

\* The other branch of valkeyGetSubscribeCallback: the reply to a regular
\* command in subscribed mode.  A valkeySsubscribeCallback found on the way
\* hands the reply on to the next callback.
ShiftSubReplies(s, m) ==
    LET q == s.subReplies
        regular == {i \in DOMAIN q : q[i].t = "regular"}
        first == CHOOSE i \in regular : \A j \in regular : i <= j
    IN  IF regular = {} THEN [s EXCEPT !.subReplies = <<>>]
        ELSE [s EXCEPT !.subReplies = SubSeq(q, first + 1, Len(q)),
                       !.calls[q[first].id] = Append(@, Given(m))]

\* valkeySsubscribeCallback, for an error: give the channels up again.
SsubscribeRefused(s, cb) ==
    LET keys == Named(cb.keys) \cap DOMAIN s.dict
        gone == {k \in keys : s.dict[k].pending_subs = 1 /\ ~s.dict[k].subscribed}
    IN  [s EXCEPT !.dict = [k \in DOMAIN s.dict \ gone |->
            IF k \in keys THEN [s.dict[k] EXCEPT !.pending_subs = @ - 1]
                           ELSE s.dict[k]]]

\* Faulty variant: the channels are marked but not given their callback.
SsubscribeAccepted_NoFn(s, cb) ==
    LET keys == Named(cb.keys) \cap DOMAIN s.dict
    IN  [s EXCEPT !.dict = [k \in DOMAIN s.dict |->
            IF k \in keys THEN [s.dict[k] EXCEPT !.subscribed = TRUE] ELSE s.dict[k]]]

\* valkeySsubscribeCallback, for the first ssubscribe message of its command.
SsubscribeAccepted(s, cb) ==
    LET keys == Named(cb.keys) \cap DOMAIN s.dict
    IN  [s EXCEPT !.dict = [k \in DOMAIN s.dict |->
            IF k \in keys THEN [s.dict[k] EXCEPT !.subscribed = TRUE, !.fn = cb.id]
                           ELSE s.dict[k]]]

valkeySsubscribeCallback(s, cb, m) ==
    CASE m.t = "error" -> SsubscribeRefused(s, cb)
      [] m.t = "reply" -> ShiftSubReplies(s, m)
      [] m.t = "subscribe" /\ Kind[m.key] = "schannels" ->
            valkeyGetSubscribeCallback(SsubscribeAccepted(s, cb), m)
      [] OTHER -> valkeyGetSubscribeCallback(s, m)

\* valkeyRunCallback for a callback shifted from one of the two lists.
RunCallback(s, cb, m) ==
    IF cb.t = "regular"
    THEN [s EXCEPT !.calls[cb.id] = Append(@, Given(m))]
    ELSE valkeySsubscribeCallback(s, cb, m)

\* All pending callbacks are run with a NULL reply and the context is gone.
\* valkeySsubscribeCallback insists on a reply.
valkeyAsyncFreeInternal(why) ==
    LET pending == replies \o subReplies
        given == {pending[i].id : i \in {j \in DOMAIN pending : pending[j].t = "regular"}}
    IN  IF \E i \in DOMAIN pending : pending[i].t = "ssubscribe"
        THEN mode' = "abort" /\ UNCHANGED <<replies, subReplies, dict, calls>>
        ELSE /\ mode' = why
             /\ replies' = <<>>
             /\ subReplies' = <<>>
             /\ dict' = <<>>
             /\ calls' = [i \in DOMAIN calls |->
                           IF i \in given THEN Append(calls[i], NullReply) ELSE calls[i]]

Abort == mode' = "abort" /\ UNCHANGED <<SUBSCRIBED, replies, subReplies, dict,
                                         pending_unsubs, calls, last>>

\* One reply or message is taken from the reader.  The callbacks of ac->replies
\* are served first, whatever it is.
valkeyProcessCallbacks ==
    /\ Alive
    /\ sock # <<>>
    /\ sock' = Tail(sock)
    /\ LET m == Head(sock) IN
       \/ /\ replies # <<>>
          /\ LET s == [Context EXCEPT !.replies = Tail(@)]
                 cb == Head(replies)
             IN  IF cb.t = "ssubscribe" /\ ~SubscribeAssert(s, m)
                 THEN Abort
                 ELSE Becomes(RunCallback(s, cb, m)) /\ UNCHANGED mode
       \/ /\ replies = <<>> /\ m.t # "error"
          /\ IF ~SUBSCRIBED \/ ~SubscribeAssert(Context, m)
             THEN Abort
             ELSE /\ Becomes(IF IsPush(m) THEN valkeyGetSubscribeCallback(Context, m)
                                          ELSE ShiftSubReplies(Context, m))
                  /\ UNCHANGED mode
       \/ /\ replies = <<>> /\ m.t = "error"
          /\ SUBSCRIBED /\ m.kind = "moved" /\ subReplies # <<>>
          /\ Becomes(RunCallback([Context EXCEPT !.subReplies = Tail(@)],
                                 Head(subReplies), m))
          /\ UNCHANGED mode
       \/ /\ replies = <<>> /\ m.t = "error"
          /\ ~(SUBSCRIBED /\ m.kind = "moved" /\ subReplies # <<>>)
          /\ valkeyAsyncFreeInternal("dropped")
          /\ UNCHANGED <<SUBSCRIBED, pending_unsubs, last>>
    /\ UNCHANGED <<wire, srv, issued, published, case, wanted, subs>>

-----------------------------------------------------------------------------
(* Shutting down. *)

\* valkeyAsyncDisconnect: at once when it is called outside a callback and no
\* callback is pending in ac->replies.
valkeyAsyncDisconnect ==
    /\ mode = "open"
    /\ \/ /\ replies = <<>>
          /\ valkeyAsyncFreeInternal("disconnected")
       \/ /\ mode' = "disconnecting"
          /\ UNCHANGED <<replies, subReplies, dict, calls>>
    /\ UNCHANGED <<SUBSCRIBED, pending_unsubs, netVars, issued, published, case,
                   wanted, subs, last>>

\* valkeyProcessCallbacks finds no more replies to process.
DisconnectCue ==
    /\ mode = "disconnecting"
    /\ replies = <<>>
    /\ valkeyAsyncFreeInternal("disconnected")
    /\ UNCHANGED <<SUBSCRIBED, pending_unsubs, netVars, issued, published, case,
                   wanted, subs, last>>

\* valkeyAsyncFree, or the connection fails.
valkeyAsyncFree ==
    /\ Alive
    /\ valkeyAsyncFreeInternal("freed")
    /\ UNCHANGED <<SUBSCRIBED, pending_unsubs, netVars, issued, published, case,
                   wanted, subs, last>>

-----------------------------------------------------------------------------
Init ==
    /\ mode = "open" /\ SUBSCRIBED = FALSE
    /\ replies = <<>> /\ subReplies = <<>> /\ dict = <<>> /\ pending_unsubs = 0
    /\ wire = <<>> /\ srv = {} /\ sock = <<>>
    /\ issued = 0 /\ published = 0 /\ case \in Cases
    /\ wanted = {} /\ subs = {} /\ calls = <<>> /\ last = NoDelivery

Next ==
    \/ \E keys \in ArgLists : Subscribe(keys) \/ Unsubscribe(keys)
    \/ \E kind \in Kinds : UnsubscribeAll(kind)
    \/ Regular
    \/ ServerExecutes
    \/ ServerPublishes
    \/ valkeyProcessCallbacks
    \/ valkeyAsyncDisconnect
    \/ DisconnectCue
    \/ valkeyAsyncFree

Spec == Init /\ [][Next]_vars

-----------------------------------------------------------------------------
(* Properties. *)

\* Types of the context's own state.  pending_unsubs becomes negative when the
\* server refuses an SSUBSCRIBE that was pipelined with its SUNSUBSCRIBE.
TypeOK ==
    /\ mode \in Modes
    /\ SUBSCRIBED \in BOOLEAN
    /\ pending_unsubs \in Int
    /\ DOMAIN dict \subseteq Keys
    /\ \A k \in DOMAIN dict :
          dict[k] \in [fn : 0..issued, pending_subs : 0..issued,
                      unsubscribe_sent : BOOLEAN, subscribed : BOOLEAN]

\* The callback of a regular command is called once, with the reply to that
\* command or NULL, although subscribe, unsubscribe and published messages are
\* mixed with the replies and the callback may change lists while it waits.
RegularGetsOwnReply ==
    \A i \in DOMAIN calls : calls[i] \in {<<>>, <<i>>, <<NullReply>>}

\* Every command was executed and everything the server sent was processed.
Quiet == mode = "open" /\ wire = <<>> /\ sock = <<>>

UsedSharded == \E k \in case.keys : Kind[k] = "schannels"

\* No regular callback is left waiting when all replies have been processed,
\* or forgotten when the context goes away.
RegularNotLost ==
    (Quiet \/ mode \in {"disconnected", "freed", "dropped"})
        => \A i \in DOMAIN calls : calls[i] # <<>>

\* No assertion of valkeyProcessCallbacks or valkeyGetSubscribeCallback fails.
\* The one of valkeySsubscribeCallback does, when the context goes away before
\* SSUBSCRIBE is answered.
AssertsHold == mode = "abort" => UsedSharded

\* The same of every context: no assertion of src/async.c fails, that of
\* valkeySsubscribeCallback included.
\* The code does not keep it (README.md, section 4).
NoAssertFails == mode # "abort"

\* docs/standalone.md: after valkeyAsyncDisconnect the connection is terminated
\* only when the replies of all pending commands were read; also on a context
\* with subscriptions no regular callback is given NULL.
\* The code does not keep it (README.md, section 4).
DisconnectDelivers ==
    mode = "disconnected" => \A i \in DOMAIN calls : calls[i] # <<NullReply>>

\* When all is quiet, the client has callbacks for exactly the channels the
\* server has it subscribed to.
SubscriptionsAgree == Quiet => DOMAIN dict = srv

\* When all is quiet, the context is in subscribed mode exactly when it has
\* subscriptions, and it expects no more unsubscribe replies; a refused
\* SSUBSCRIBE leaves it in subscribed mode.
ModeAgrees == Quiet /\ ~UsedSharded => SUBSCRIBED = (srv # {}) /\ pending_unsubs = 0

\* Everything that arrives for a channel goes to a function that was given for
\* that channel.
MessageToSubscriber ==
    last.t \in {"message", "subscribe"} => <<last.key, last.fn>> \in subs

\* Regular commands are not disturbed by subscriptions: each callback is called
\* once, with the command's own reply, and no later than the last reply
\* (valkeyGetSubscribeCallback, valkeyAsyncFreeInternal).
RegularSound == TypeOK /\ RegularGetsOwnReply /\ RegularNotLost

\* When all is quiet the client's idea of its subscriptions, and the mode it
\* derives from it, are the server's; on the way there no assertion fails
\* (valkeyGetSubscribeCallback).
SubscriptionsFollow == SubscriptionsAgree /\ ModeAgrees /\ AssertsHold
=============================================================================
