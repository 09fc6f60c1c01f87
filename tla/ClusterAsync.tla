---------------------------- MODULE ClusterAsync ----------------------------
(***************************************************************************)
(* The asynchronous cluster client (src/src/cluster.c): commands with      *)
(* callbacks on one valkeyAsyncContext per node, redirections and retries  *)
(* in the reply callback, and slot map updates that are requested, lost    *)
(* and retried in between.  A valkeyAsyncContext is reduced to what module *)
(* Async shows of it: callbacks run in the order of the commands, each     *)
(* once, with NULL when the context is torn down.                          *)
(*                                                                         *)
(* acc is the valkeyClusterAsyncContext.  Its functions are operators that *)
(* map acc to the set of its possible values after the call, since which   *)
(* node is selected and whether a connect fails is open.  An action is one *)
(* callback run by the event loop or one call by the application; the      *)
(* application may also call while contexts are being torn down, from the  *)
(* callbacks that are run then.                                            *)
(***************************************************************************)
EXTENDS Integers, Sequences, FiniteSets, Functions

CONSTANTS Nodes,          \* addresses
          Slots,
          FirstOwner,     \* the node that serves each slot in the beginning
          InitialNodes,   \* the nodes named in the options
          MaxRetry,       \* cc->max_retry_count
          NULL,
          MaxCmds,        \* bound: commands of the application
          Scenarios       \* bounds on what goes wrong, one record for each case

\* Slots that change hands, connections lost, errors to commands (TRYAGAIN or
\* ASK) and to requests for the slot map or a database, turns of time; and
\* whether the options name a logical database to select.
ScenarioType == [moves: Nat, drops: Nat, errors: Nat, bad: Nat, ticks: Nat,
                 select: BOOLEAN]

ASSUME ClusterAsyncConstants ==
    /\ NULL \notin Nodes \cup Slots /\ Slots # {}
    /\ FirstOwner \in [Slots -> Nodes]
    /\ InitialNodes \subseteq Nodes /\ InitialNodes # {}
    /\ MaxRetry \in Nat /\ MaxCmds \in Nat
    /\ Scenarios \subseteq ScenarioType

VARIABLES acc,        \* the cluster context
          orphans,    \* callbacks of contexts freed together with their nodes
          owner,      \* the cluster: who serves each slot
          budget,     \* what is left of the scenario
          \* History
          issued,     \* commands given to the client so far
          accepted,   \* those it returned VALKEY_OK for
          calls,      \* calls of the user callback of each command
          lost,       \* commands whose reply came and was not passed on
          sends       \* how often each command was sent

cluVars == <<owner, budget>>
vars == <<acc, orphans, cluVars, issued, accepted, calls, lost, sends>>

Cmds == 1..MaxCmds
NO_RETRY == -1

\* Callbacks waiting in a context's queue.
SlotsCb  == [k |-> "slots"]
AskingCb == [k |-> "asking"]
SelectCb == [k |-> "select"]
CmdCb(id, slot, rc) == [k |-> "cmd", id |-> id, slot |-> slot, rc |-> rc]

\* A node's valkeyAsyncContext: up is VALKEY_CONNECTED, "closing" and "dying"
\* are VALKEY_DISCONNECTING and a context in __valkeyAsyncFree.
NewContext == [up |-> FALSE, err |-> FALSE, st |-> "open",
               q |-> IF budget.select THEN <<SelectCb>> ELSE <<>>]

CallbackType == {SlotsCb, AskingCb, SelectCb}
                \cup [k: {"cmd"}, id: Cmds, slot: Slots \cup {NULL}, rc: Int]
ContextType == [up: BOOLEAN, err: BOOLEAN, st: {"open", "closing", "dying"},
                q: Seq(CallbackType)]

\* NULL is neither a context nor a slot map.
ASSUME NullAssumption == NULL \notin ContextType /\ NULL \notin [Slots -> Nodes]

-----------------------------------------------------------------------------
(* Contexts. *)

\* valkeyClusterGetValkeyAsyncContext(a, n): the context of node n, if it has no
\* error, or a new one, if the connect can be started.
valkeyClusterGetValkeyAsyncContext(a, n) ==
    IF a.ctx[n] # NULL
    THEN {[acc |-> [a EXCEPT !.err = @ \/ a.ctx[n].err], ok |-> ~a.ctx[n].err]}
    ELSE LET tried == [a EXCEPT !.attempted = @ \cup {n}] IN
         {[acc |-> [tried EXCEPT !.ctx[n] = NewContext], ok |-> TRUE],
          [acc |-> [tried EXCEPT !.err = TRUE], ok |-> FALSE]}

\* valkeyAsyncCommand on node n's context, refused once it is to go.
CanSend(a, n) == a.ctx[n] # NULL /\ a.ctx[n].st = "open"
Send(a, n, cb) == [a EXCEPT !.ctx[n].q = Append(@, cb)]

-----------------------------------------------------------------------------
(* Slot map updates. *)

nodeIsConnected(a, n) == a.ctx[n] # NULL /\ ~a.ctx[n].err /\ a.ctx[n].up

\* selectNode: a connected node, otherwise one that no connect was tried to
\* within the throttle time.
selectNode(a) ==
    LET connected == {n \in a.nodes : nodeIsConnected(a, n)}
        rested    == a.nodes \ a.attempted
    IN  IF connected # {} THEN connected ELSE IF rested # {} THEN rested ELSE {NULL}

\* The request for a slot map goes out on node n's context or not at all.
RequestSlots(a, n) ==
    IF CanSend(a, n)
    THEN [Send(a, n, SlotsCb) EXCEPT !.lastSlotmapUpdateAttempt = "ongoing"]
    ELSE [a EXCEPT !.lastSlotmapUpdateAttempt = "recent"]

\* Faulty variant for NoConnectionAfterDisconnect: a client that disconnects
\* goes on updating its slot map.
updateSlotMapAsync_WhileClosing(a, n) ==
    IF a.lastSlotmapUpdateAttempt = "ongoing" THEN {a}
    ELSE IF n # NULL THEN {RequestSlots(a, n)}
    ELSE UNION {IF s = NULL THEN {[a EXCEPT !.lastSlotmapUpdateAttempt = "recent"]}
                ELSE {RequestSlots(g.acc, s) :
                        g \in valkeyClusterGetValkeyAsyncContext(a, s)} : s \in selectNode(a)}

\* updateSlotMapAsync over node n's context, any node's if n is NULL.
updateSlotMapAsync(a, n) ==
    IF a.lastSlotmapUpdateAttempt = "ongoing" \/ a.disconnecting THEN {a}
    ELSE IF n # NULL THEN {RequestSlots(a, n)}
    ELSE UNION {IF s = NULL THEN {[a EXCEPT !.lastSlotmapUpdateAttempt = "recent"]}
                ELSE {IF g.ok THEN RequestSlots(g.acc, s)
                      ELSE [g.acc EXCEPT !.lastSlotmapUpdateAttempt = "recent"] :
                        g \in valkeyClusterGetValkeyAsyncContext(a, s)} : s \in selectNode(a)}

throttledUpdateSlotMapAsync(a, n) ==
    IF a.lastSlotmapUpdateAttempt = "old" THEN updateSlotMapAsync(a, n) ELSE {a}

\* The slots callback without a usable reply.
SlotsLost(a) ==
    updateSlotMapAsync([a EXCEPT !.lastSlotmapUpdateAttempt = "recent"], NULL)

\* updateNodesAndSlotmap; contexts of nodes that are gone are freed with them.
updateNodesAndSlotmap(a) ==
    LET nodes == {owner[s] : s \in Slots} IN
    [a EXCEPT !.nodes = nodes, !.table = owner, !.attempted = {},
              !.lastSlotmapUpdateAttempt = "recent",
              !.ctx = [n \in Nodes |-> IF n \in nodes THEN @[n] ELSE NULL]]

\* The callbacks of the contexts of these nodes.
CallbacksOf(a, ns) == UNION {Range(a.ctx[n].q) : n \in {m \in ns : a.ctx[m] # NULL}}

-----------------------------------------------------------------------------
(* Replies.  No event is handled before every context that is being torn down *)
(* is gone.                                                                    *)

Dying(n) == acc.ctx[n] # NULL /\ acc.ctx[n].st = "dying"
Quiet == orphans = {} /\ \A n \in Nodes : ~Dying(n)

\* After the callbacks of node n's context ran: a context that is to close and
\* expects no reply is torn down.
Settled(a, n) ==
    IF a.ctx[n] # NULL /\ a.ctx[n].st = "closing" /\ a.ctx[n].q = <<>>
    THEN [a EXCEPT !.ctx[n].st = "dying"] ELSE a

\* The end of valkeyClusterAsyncCallback: the application's callback.
Deliver(a, cb, hasReply) ==
    /\ acc' = [a EXCEPT !.err = FALSE]
    /\ calls' = [calls EXCEPT ![cb.id] = @ + 1]
    /\ lost' = IF hasReply /\ a.err THEN lost \cup {cb.id} ELSE lost

\* Faulty variant for RequestsAccounted: the application is told of the redirection.
Resend_AndDelivers(a, n, cb) ==
    /\ acc' = Send(a, n, [cb EXCEPT !.rc = @ + 1])
    /\ sends' = [sends EXCEPT ![cb.id] = @ + 1]
    /\ calls' = [calls EXCEPT ![cb.id] = @ + 1]
    /\ UNCHANGED lost

\* The command was sent again, on node n's context.
Resend(a, n, cb) ==
    /\ acc' = Send(a, n, [cb EXCEPT !.rc = @ + 1])
    /\ sends' = [sends EXCEPT ![cb.id] = @ + 1]
    /\ UNCHANGED <<calls, lost>>

\* Node n's context without its first callback, which is the one to run.
Shifted(n) == [acc EXCEPT !.ctx[n].q = Tail(@)]
Ready(n, kind) == /\ Quiet /\ acc.ctx[n] # NULL /\ acc.ctx[n].up
                  /\ acc.ctx[n].q # <<>> /\ Head(acc.ctx[n].q).k = kind

\* Redirections and errors to be retried are looked for in the reply.
Retried(cb) == cb.rc # NO_RETRY /\ ~acc.disconnecting

\* A reply that is not retried: the command's own, from the owner of the slot or
\* from a node that is taking it over (which node may answer is left open), or
\* any reply when retries are not expected.
FinalReply(n) ==
    /\ Ready(n, "cmd")
    /\ LET cb == Head(acc.ctx[n].q) IN Deliver(Settled(Shifted(n), n), cb, TRUE)
    /\ UNCHANGED <<orphans, cluVars, issued, accepted, sends>>

TooManyRetries(cb) == cb.rc + 1 > MaxRetry

\* After MOVED or ASK the command goes to node t, unless it cannot be reached;
\* then the callback gets NULL, or the redirection if t refuses the command.
\* Before it ASKING is sent if `asking'.
Redirected(a, n, t, cb, asking) ==
    \E g \in valkeyClusterGetValkeyAsyncContext(a, t) :
        IF g.ok /\ CanSend(g.acc, t)
        THEN LET b == IF asking THEN Send(g.acc, t, AskingCb) ELSE g.acc IN
             Resend(Settled(b, n), t, cb)
        ELSE Deliver(Settled(g.acc, n), cb, FALSE) /\ UNCHANGED sends

\* The node says that the slot is served elsewhere now.
MovedReply(n) ==
    /\ Ready(n, "cmd")
    /\ LET cb == Head(acc.ctx[n].q)
           t  == owner[cb.slot]
       IN  /\ Retried(cb) /\ t # n
           /\ IF TooManyRetries(cb)
              THEN /\ Deliver(Settled([Shifted(n) EXCEPT !.err = TRUE], n), cb, FALSE)
                   /\ UNCHANGED sends
              ELSE \E a \in throttledUpdateSlotMapAsync(Shifted(n), n) :
                     Redirected([a EXCEPT !.nodes = @ \cup {t}, !.table[cb.slot] = t],
                                n, t, cb, FALSE)
    /\ UNCHANGED <<orphans, cluVars, issued, accepted>>

\* The key is already at another node, to which its slot is being moved.
AskReply(n) ==
    /\ Ready(n, "cmd") /\ budget.errors > 0
    /\ budget' = [budget EXCEPT !.errors = @ - 1]
    /\ LET cb == Head(acc.ctx[n].q) IN
       /\ Retried(cb) /\ owner[cb.slot] = n
       /\ IF TooManyRetries(cb)
          THEN /\ Deliver(Settled([Shifted(n) EXCEPT !.err = TRUE], n), cb, FALSE)
               /\ UNCHANGED sends
          ELSE \E t \in Nodes \ {n} :
                 Redirected([Shifted(n) EXCEPT !.nodes = @ \cup {t}], n, t, cb, TRUE)
    /\ UNCHANGED <<orphans, owner, issued, accepted>>

\* TRYAGAIN and CLUSTERDOWN: the same context is used, unless it is closing.
TryAgainReply(n) ==
    /\ Ready(n, "cmd") /\ budget.errors > 0
    /\ budget' = [budget EXCEPT !.errors = @ - 1]
    /\ LET cb == Head(acc.ctx[n].q)
           a  == Shifted(n)
       IN  /\ Retried(cb)
           /\ IF ~TooManyRetries(cb) /\ CanSend(a, n)
              THEN Resend(a, n, cb)
              ELSE /\ Deliver(Settled([a EXCEPT !.err = @ \/ TooManyRetries(cb)], n), cb, FALSE)
                   /\ UNCHANGED sends
    /\ UNCHANGED <<orphans, owner, issued, accepted>>

\* A slot map: clusterSlotsReplyCallback or clusterNodesReplyCallback.
SlotsReply(n) ==
    /\ Ready(n, "slots")
    /\ LET a == Shifted(n)
           b == updateNodesAndSlotmap(a)
       IN  /\ acc' = Settled(b, n)
           /\ orphans' = CallbacksOf(a, Nodes \ b.nodes)
    /\ UNCHANGED <<cluVars, issued, accepted, calls, lost, sends>>

\* A reply that is no slot map: another node is asked at once.
BadSlotsReply(n) ==
    /\ Ready(n, "slots") /\ budget.bad > 0
    /\ budget' = [budget EXCEPT !.bad = @ - 1]
    /\ \E a \in SlotsLost(Shifted(n)) : acc' = Settled(a, n)
    /\ UNCHANGED <<orphans, owner, issued, accepted, calls, lost, sends>>

\* selectReplyCallback, and the reply to ASKING, which nobody waits for.
OtherReply(n) ==
    /\ Ready(n, "select") \/ Ready(n, "asking")
    /\ acc' = Settled(Shifted(n), n)
    /\ UNCHANGED <<orphans, cluVars, issued, accepted, calls, lost, sends>>

SelectFails(n) ==
    /\ Ready(n, "select") /\ budget.bad > 0
    /\ budget' = [budget EXCEPT !.bad = @ - 1]
    /\ acc' = Settled([Shifted(n) EXCEPT !.err = TRUE, !.ctx[n].st = "closing"], n)
    /\ UNCHANGED <<orphans, owner, issued, accepted, calls, lost, sends>>

-----------------------------------------------------------------------------
(* Contexts come and go. *)

Connected(n) ==
    /\ Quiet /\ acc.ctx[n] # NULL /\ ~acc.ctx[n].up
    /\ acc' = [acc EXCEPT !.ctx[n].up = TRUE]
    /\ UNCHANGED <<orphans, cluVars, issued, accepted, calls, lost, sends>>

\* The connection, or the attempt to make one, fails.
Drop(n) ==
    /\ Quiet /\ acc.ctx[n] # NULL /\ budget.drops > 0
    /\ budget' = [budget EXCEPT !.drops = @ - 1]
    /\ acc' = [acc EXCEPT !.ctx[n].st = "dying", !.ctx[n].err = TRUE]
    /\ UNCHANGED <<orphans, owner, issued, accepted, calls, lost, sends>>

\* One callback of a context that goes while its node stays is called with NULL.
NullCallback(n) ==
    /\ orphans = {} /\ Dying(n) /\ acc.ctx[n].q # <<>>
    /\ LET cb == Head(acc.ctx[n].q)
           a  == Shifted(n)
       IN  CASE cb.k = "cmd" ->
                  \E b \in throttledUpdateSlotMapAsync(
                               [a EXCEPT !.err = acc.ctx[n].err], NULL) :
                      Deliver(b, cb, FALSE)
             [] cb.k = "slots" -> acc' \in SlotsLost(a) /\ UNCHANGED <<calls, lost>>
             [] cb.k = "select" -> acc' = [a EXCEPT !.err = TRUE] /\ UNCHANGED <<calls, lost>>
             [] OTHER -> acc' = a /\ UNCHANGED <<calls, lost>>
    /\ UNCHANGED <<orphans, cluVars, issued, accepted, sends>>

\* Faulty variant for EverythingEnds: callbacks that are left are dropped.
unlink_Early(n) ==
    /\ orphans = {} /\ Dying(n)
    /\ acc' = [acc EXCEPT !.ctx[n] = NULL]
    /\ UNCHANGED <<orphans, cluVars, issued, accepted, calls, lost, sends>>

\* dataCleanup takes the context off its node.
unlinkAsyncContextAndNode(n) ==
    /\ orphans = {} /\ Dying(n) /\ acc.ctx[n].q = <<>>
    /\ acc' = [acc EXCEPT !.ctx[n] = NULL]
    /\ UNCHANGED <<orphans, cluVars, issued, accepted, calls, lost, sends>>

\* The same for a context whose node is gone: no update is started for it.
OrphanCallback ==
    /\ \E cb \in orphans :
         /\ orphans' = orphans \ {cb}
         /\ CASE cb.k = "cmd" -> Deliver([acc EXCEPT !.err = FALSE], cb, FALSE)
              [] cb.k = "slots" -> acc' \in SlotsLost(acc) /\ UNCHANGED <<calls, lost>>
              [] cb.k = "select" -> acc' = [acc EXCEPT !.err = TRUE] /\ UNCHANGED <<calls, lost>>
              [] OTHER -> UNCHANGED <<acc, calls, lost>>
    /\ UNCHANGED <<cluVars, issued, accepted, sends>>

-----------------------------------------------------------------------------
(* The application. *)

Refused(a) == acc' = [a EXCEPT !.err = TRUE] /\ UNCHANGED <<accepted, sends>>

\* The command is sent on node n's context; an earlier error is cleared.
Issue(a, n, slot, rc) ==
    \E g \in valkeyClusterGetValkeyAsyncContext(a, n) :
        IF ~g.ok \/ ~CanSend(g.acc, n) THEN Refused(g.acc)
        ELSE /\ acc' = Send([g.acc EXCEPT !.err = FALSE], n, CmdCb(issued + 1, slot, rc))
             /\ accepted' = accepted \cup {issued + 1}
             /\ sends' = [sends EXCEPT ![issued + 1] = 1]

\* valkeyClusterAsyncCommand and its variants.
valkeyClusterAsyncCommand(s) ==
    /\ issued < MaxCmds /\ issued' = issued + 1
    /\ IF acc.disconnecting THEN Refused(acc)
       ELSE IF acc.table = NULL
       THEN \E b \in throttledUpdateSlotMapAsync(acc, NULL) : Refused(b)
       ELSE Issue(acc, acc.table[s], s, 0)
    /\ UNCHANGED <<orphans, cluVars, calls, lost>>

\* prepareCommand refuses a command without a key.
CommandWithoutKey ==
    /\ issued < MaxCmds /\ issued' = issued + 1
    /\ Refused(acc)
    /\ UNCHANGED <<orphans, cluVars, calls, lost>>

\* valkeyClusterAsyncCommandToNode and its variants.
valkeyClusterAsyncCommandToNode(n) ==
    /\ issued < MaxCmds /\ issued' = issued + 1
    /\ n \in acc.nodes
    /\ IF acc.disconnecting THEN Refused(acc) ELSE Issue(acc, n, NULL, NO_RETRY)
    /\ UNCHANGED <<orphans, cluVars, calls, lost>>

valkeyClusterAsyncDisconnect ==
    /\ Quiet /\ ~acc.disconnecting
    /\ acc' = [acc EXCEPT !.disconnecting = TRUE,
                          !.ctx = [n \in Nodes |->
                              IF n \notin acc.nodes \/ @[n] = NULL THEN @[n]
                              ELSE [@[n] EXCEPT !.st = IF acc.ctx[n].q = <<>> THEN "dying"
                                                       ELSE "closing"]]]
    /\ UNCHANGED <<orphans, cluVars, issued, accepted, calls, lost, sends>>

\* Not called from a callback.  The nodes go with their contexts.
valkeyClusterAsyncFree ==
    /\ Quiet /\ ~acc.freed
    /\ acc' = [acc EXCEPT !.disconnecting = TRUE, !.freed = TRUE,
                          !.ctx = [n \in Nodes |-> NULL]]
    /\ orphans' = CallbacksOf(acc, Nodes)
    /\ UNCHANGED <<cluVars, issued, accepted, calls, lost, sends>>

-----------------------------------------------------------------------------
(* The cluster and the clock (external). *)

Move(s, n) ==
    /\ budget.moves > 0 /\ owner[s] # n
    /\ budget' = [budget EXCEPT !.moves = @ - 1]
    /\ owner' = [owner EXCEPT ![s] = n]
    /\ UNCHANGED <<acc, orphans, issued, accepted, calls, lost, sends>>

\* The throttle time passes.
Tick ==
    /\ budget.ticks > 0
    /\ \/ acc.lastSlotmapUpdateAttempt = "recent"
       \/ acc.attempted # {}
    /\ budget' = [budget EXCEPT !.ticks = @ - 1]
    /\ acc' = [acc EXCEPT !.attempted = {},
                          !.lastSlotmapUpdateAttempt = IF @ = "recent" THEN "old" ELSE @]
    /\ UNCHANGED <<orphans, owner, issued, accepted, calls, lost, sends>>

-----------------------------------------------------------------------------
\* valkeyClusterAsyncConnectWithOptions starts with a slot map update.
Init ==
    /\ budget \in Scenarios
    /\ acc \in updateSlotMapAsync(
                 [nodes |-> InitialNodes, table |-> NULL, ctx |-> [n \in Nodes |-> NULL],
                  attempted |-> {}, lastSlotmapUpdateAttempt |-> "old", err |-> FALSE,
                  disconnecting |-> FALSE, freed |-> FALSE], NULL)
    /\ orphans = {}
    /\ owner = FirstOwner
    /\ issued = 0 /\ accepted = {} /\ lost = {}
    /\ calls = [c \in Cmds |-> 0] /\ sends = [c \in Cmds |-> 0]

Step(n) == \/ FinalReply(n) \/ MovedReply(n) \/ AskReply(n) \/ TryAgainReply(n)
           \/ SlotsReply(n) \/ BadSlotsReply(n) \/ OtherReply(n) \/ SelectFails(n)
           \/ Connected(n) \/ Drop(n) \/ NullCallback(n) \/ unlinkAsyncContextAndNode(n)

Next == \/ \E n \in Nodes : Step(n) \/ valkeyClusterAsyncCommandToNode(n)
        \/ OrphanCallback
        \/ \E s \in Slots : valkeyClusterAsyncCommand(s)
        \/ CommandWithoutKey
        \/ valkeyClusterAsyncDisconnect \/ valkeyClusterAsyncFree
        \/ \E s \in Slots, n \in Nodes : Move(s, n)
        \/ Tick

Spec == Init /\ [][Next]_vars

\* The event loop serves every context: a connect ends, in one way or the other,
\* a reply or an error comes for every request, and a teardown goes on.
LiveSpec == Spec /\ WF_vars(OrphanCallback) /\ \A n \in Nodes : WF_vars(Step(n))

-----------------------------------------------------------------------------
(* Properties. *)

Callbacks == orphans \cup CallbacksOf(acc, Nodes)

\* Types: contexts belong to nodes that are known, and so do slots.
TypeOK ==
    /\ acc.nodes \subseteq Nodes /\ acc.nodes # {}
    /\ acc.table = NULL \/ acc.table \in [Slots -> acc.nodes]
    /\ \A n \in Nodes : acc.ctx[n] # NULL => acc.ctx[n] \in ContextType /\ n \in acc.nodes
    /\ acc.lastSlotmapUpdateAttempt \in {"old", "recent", "ongoing"}
    /\ accepted \subseteq Cmds

\* A command that was accepted waits in one place or had its callback called,
\* once: through redirections, retries, lost connections, nodes that disappear
\* and the end of the client.  One that was refused never gets a call.
CallbackOnce ==
    \A c \in Cmds :
        calls[c] + Cardinality({cb \in Callbacks : cb.k = "cmd" /\ cb.id = c})
            = IF c \in accepted THEN 1 ELSE 0

\* An update that is "ongoing" has exactly one request underway: updates are not
\* concurrent, and never stop for good because an answer is awaited that no
\* longer comes.
OneUpdateAtATime ==
    LET waiting(n) == {k \in 1..Len(acc.ctx[n].q) : acc.ctx[n].q[k] = SlotsCb}
        queued == UNION {{<<n, k>> : k \in waiting(n)} :
                            n \in {m \in Nodes : acc.ctx[m] # NULL}}
        places == queued \cup (orphans \cap {SlotsCb})
    IN  Cardinality(places) = IF acc.lastSlotmapUpdateAttempt = "ongoing" THEN 1 ELSE 0

\* No command is sent more than 1 + max_retry_count times.
BoundedSends == \A c \in Cmds : sends[c] <= MaxRetry + 1

\* Once the client disconnects or is freed it opens no connection: not for a
\* redirection, a retry or a slot map update that was underway.
NoConnectionAfterDisconnect ==
    [][acc.disconnecting => \A n \in Nodes : acc.ctx[n] = NULL => acc'.ctx[n] = NULL]_vars

\* Every command that was accepted has its callback called in the end.
CommandsComplete == \A c \in Cmds : c \in accepted ~> calls[c] = 1

\* valkeyClusterAsyncDisconnect ends with every context gone.
DisconnectEnds == acc.disconnecting ~> \A n \in Nodes : acc.ctx[n] = NULL

\* Every accepted command, and the one slot map request that may be under way,
\* is accounted for at every moment, and none is sent too often
\* (valkeyClusterAsyncCallback, updateSlotMapAsync).
RequestsAccounted == TypeOK /\ CallbackOnce /\ OneUpdateAtATime /\ BoundedSends

\* Nothing stays unfinished: neither a command nor a disconnect.
EverythingEnds == CommandsComplete /\ DisconnectEnds

\* cluster.c, on valkeyClusterAsyncCallback: the user callback is "always invoked
\* with the reply on success".
ReplyDelivered == lost = {}
=============================================================================
