---------------------------- MODULE ClusterSync ----------------------------
(***************************************************************************)
(* valkeyClusterCommand (src/src/cluster.c): a synchronous client sends a  *)
(* command to the node it believes to serve the key's slot, follows        *)
(* redirections, retries, and keeps its slot map up to date.  The update   *)
(* is pipelined with commands: CLUSTER SLOTS is sent behind a command and  *)
(* its reply is read after the command is done, by which time the command  *)
(* may have been sent again, elsewhere or over the same connection.        *)
(*                                                                         *)
(* The slot map is reduced to the one slot of the commands.  A node and    *)
(* its connection are named by the node's address; connections are         *)
(* blocking, so that a step ends where the client reads a reply.           *)
(* valkeyClusterUpdateSlotmap, a loop over the nodes that sends and reads  *)
(* on each, is one step.                                                   *)
(***************************************************************************)
EXTENDS Integers, Sequences, FiniteSets

CONSTANTS Nodes,      \* addresses of nodes
          Keepers,    \* nodes that serve other slots and are in every slot map
          MaxRetry,   \* cc->max_retry_count
          Scenarios   \* what may happen in the cluster, one record for each case

RetryErrors == {"TRYAGAIN", "CLUSTERDOWN"}
None == "none"

\* Bounds on the migrations of the slot and the crashes of nodes, the errors a
\* node may send, and whether the slot may go back to a node that had it.
ScenarioType == [moves: Nat, crashes: Nat, errors: SUBSET RetryErrors, returns: BOOLEAN]

ASSUME ClusterConstants ==
    /\ None \notin Nodes
    /\ Keepers \subseteq Nodes /\ Keepers # {}
    /\ MaxRetry \in Nat
    /\ Scenarios \subseteq ScenarioType

VARIABLES
    \* The cluster context
    nodes,              \* the keys of cc->nodes
    table,              \* the slot's entry in cc->table
    con,                \* con[n]: the state of node n's valkeyContext
    out,                \* out[n]: requests on it whose replies were not read
    need_update_route,
    retry_count,
    \* valkey_cluster_command_execute
    pc,
    node,               \* the node a redirection leads to
    c,                  \* the node whose context is used
    c_updating_route,   \* the node whose context has the slot map underway
    reply,              \* what will be returned
    \* The cluster
    view,               \* view[n]: the node that n takes for the slot's owner
    importing,          \* the node the slot is being moved to
    asking,             \* nodes that would serve the next command after ASKING
    alive,
    budget,               \* what is left of the scenario
    former,             \* nodes that had the slot
    \* History
    sends, executions   \* of the current command

ctxVars == <<nodes, table, con, out, need_update_route>>
locals  == <<retry_count, pc, node, c, c_updating_route, reply>>
cluVars == <<view, importing, alive, budget, former>>
vars == <<ctxVars, locals, cluVars, asking, sends, executions>>

\* Connections: "broken" is one whose peer is gone, which the client notices
\* when it uses it; "err" has c->err set.
ConStates == {None, "ok", "broken", "err"}
PCs == {"idle", "retry", "lookup", "connect", "refresh", "reconnect", "send",
        "reply", "moved", "refresh_moved", "redirect", "ask", "asking",
        "done", "refresh_done", "dangling"}

\* Replies: the command's own, a redirection, an error to retry, and what the
\* other requests are answered with.
Own == [t |-> "own"]
Moved(n) == [t |-> "MOVED", to |-> n]
Ask(n) == [t |-> "ASK", to |-> n]
Error(e) == [t |-> e]
SlotMap(n) == [t |-> "slotmap", owner |-> n]
OK == [t |-> "ok"]
Nothing == [t |-> "nothing"]

Owner == CHOOSE n \in Nodes : view[n] = n

-----------------------------------------------------------------------------
(* Nodes, as the client sees them (external).  A definition D_Fault is D with a *)
(* plausible mistake, used to see that a property depends on D.                  *)

\* What node n may answer to request r.
Answers(n, r) ==
    CASE r = "slots" -> {SlotMap(view[n])}
      [] r = "asking" -> {OK}
      [] r = "cmd" ->
            IF view[n] = n
            THEN {Own} \cup {Error(e) : e \in budget.errors}
                       \cup {Ask(i) : i \in {importing} \ {None}}
            ELSE IF n \in asking /\ importing = n
            THEN {Own} \cup {Error(e) : e \in budget.errors \cap {"TRYAGAIN"}}
            ELSE IF view[n] = None
            THEN {Error("CLUSTERDOWN")}
            ELSE {Moved(view[n])}

\* Node n answers the first outstanding request with a; the client reads it.
Answer(n, a) ==
    /\ con[n] = "ok" /\ out[n] # <<>>
    /\ a \in Answers(n, Head(out[n]))
    /\ asking' = CASE Head(out[n]) = "asking" -> asking \cup {n}
                   [] Head(out[n]) = "cmd" -> asking \ {n}
                   [] OTHER -> asking
    /\ executions' = executions + IF a = Own THEN 1 ELSE 0

-----------------------------------------------------------------------------
(* The slot map. *)

\* updateNodesAndSlotmap with a slot map that has n for the slot: contexts of
\* nodes that stay are kept, the others are released.  cons and outs are the
\* contexts and their requests so far.
updateNodesAndSlotmap(n, cons, outs) ==
    LET known == ({n} \ {None}) \cup Keepers IN
    /\ nodes' = known
    /\ table' = n
    /\ con' = [m \in Nodes |-> IF m \in known THEN cons[m] ELSE None]
    /\ out' = [m \in Nodes |-> IF m \in known THEN outs[m] ELSE <<>>]
    /\ need_update_route' = FALSE

\* valkeyClusterGetValkeyContext(n): a usable context, by connecting or
\* reconnecting if there is none, which empties its buffers.
CanUse(n) == con[n] \in {"ok", "broken"} \/ n \in alive
Using(n) == /\ con' = [con EXCEPT ![n] = IF @ = "broken" THEN @ ELSE "ok"]
            /\ out' = [out EXCEPT ![n] = IF con[n] \in {"ok", "broken"} THEN @ ELSE <<>>]

\* In valkeyClusterUpdateSlotmap, node n will deliver a slot map: it can be
\* reached and the next reply to be read on its context is one.
Delivers(n) ==
    \/ con[n] = "ok" /\ (out[n] = <<>> \/ Head(out[n]) = "slots")
    \/ con[n] \in {None, "err"} /\ n \in alive

\* valkeyClusterUpdateSlotmap: the nodes tried in vain lose their context.
\* Control goes to `good' or `bad'.
valkeyClusterUpdateSlotmap(good, bad) ==
    LET failing == {n \in nodes : ~Delivers(n)} IN
    \/ \E n \in nodes \ failing, tried \in SUBSET failing :
         /\ updateNodesAndSlotmap(view[n],
                [m \in Nodes |-> IF m \in tried THEN None ELSE IF m = n THEN "ok" ELSE con[m]],
                [m \in Nodes |-> IF m \in tried THEN <<>>
                                 ELSE IF m # n THEN out[m]
                                 ELSE IF con[n] = "ok" /\ out[n] # <<>>
                                 THEN Append(Tail(out[n]), "slots") ELSE <<>>])
         /\ pc' = good
    \/ /\ failing = nodes
       /\ con' = [m \in Nodes |-> IF m \in nodes THEN None ELSE con[m]]
       /\ out' = [m \in Nodes |-> IF m \in nodes THEN <<>> ELSE out[m]]
       /\ pc' = bad
       /\ UNCHANGED <<nodes, table, need_update_route>>

-----------------------------------------------------------------------------
(* valkey_cluster_command_execute. *)

\* The user issues a command.
Start ==
    /\ pc = "idle"
    /\ pc' = "retry"
    /\ c_updating_route' = None /\ reply' = Nothing
    /\ sends' = 0 /\ executions' = 0
    /\ UNCHANGED <<ctxVars, retry_count, node, c, asking, cluVars>>

localsBut == <<retry_count, node, c, c_updating_route, reply>>

\* retry: look the slot up, if necessary in a new slot map.
Retry ==
    /\ pc = "retry"
    /\ IF table # None
       THEN pc' = "connect" /\ UNCHANGED ctxVars
       ELSE valkeyClusterUpdateSlotmap("lookup", "done")
    /\ UNCHANGED <<localsBut, asking, cluVars, sends, executions>>

Lookup ==
    /\ pc = "lookup"
    /\ pc' = IF table # None THEN "connect" ELSE "done"
    /\ UNCHANGED <<ctxVars, localsBut, asking, cluVars, sends, executions>>

\* Without a context, the first time a new slot map may name another node.
ConnectFails_NoRefresh == pc' = "done" /\ UNCHANGED <<con, out, c>>
ConnectFails ==
    /\ pc' = IF pc = "connect" THEN "refresh" ELSE "done"
    /\ UNCHANGED <<con, out, c>>

\* Get a context for the node, and once more after a new slot map.
Connect ==
    /\ pc \in {"connect", "reconnect"}
    /\ IF table # None /\ CanUse(table)
       THEN /\ Using(table)
            /\ c' = table
            /\ pc' = "send"
       ELSE ConnectFails
    /\ UNCHANGED <<nodes, table, need_update_route, retry_count, node,
                   c_updating_route, reply, asking, cluVars, sends, executions>>

Refresh ==
    /\ pc = "refresh"
    /\ valkeyClusterUpdateSlotmap("reconnect", "done")
    /\ UNCHANGED <<localsBut, asking, cluVars, sends, executions>>

\* moved_retry, ask_retry: the command, and a scheduled slot map update behind
\* it.  On a broken connection sending fails now or is noticed when reading.
Send ==
    /\ pc = "send"
    /\ pc' = "reply"
    /\ sends' = IF sends > MaxRetry + 1 THEN sends ELSE sends + 1
    /\ IF need_update_route /\ c_updating_route = None
       THEN \/ /\ out' = [out EXCEPT ![c] = @ \o <<"cmd", "slots">>]
               /\ c_updating_route' = c
               /\ UNCHANGED con
            \/ /\ con[c] = "broken"
               /\ con' = [con EXCEPT ![c] = "err"]
               /\ UNCHANGED <<out, c_updating_route>>
       ELSE /\ out' = [out EXCEPT ![c] = Append(@, "cmd")]
            /\ UNCHANGED <<con, c_updating_route>>
    /\ UNCHANGED <<nodes, table, need_update_route, retry_count, node, c, reply,
                   asking, cluVars, executions>>

\* Faulty variant: the command is sent again.
ReplyFails_Resends ==
    /\ pc = "reply"
    /\ con[c] # "ok"
    /\ con' = [con EXCEPT ![c] = "err"]
    /\ need_update_route' = TRUE
    /\ executions' \in {executions, executions + 1}
    /\ pc' = "retry"
    /\ UNCHANGED <<nodes, table, out, localsBut, asking, cluVars, sends>>

\* valkeyGetReply fails; the node may have executed the command.
ReplyFails ==
    /\ pc = "reply"
    /\ con[c] # "ok"
    /\ con' = [con EXCEPT ![c] = "err"]
    /\ need_update_route' = TRUE
    /\ executions' \in {executions, executions + 1}
    /\ pc' = "done"
    /\ UNCHANGED <<nodes, table, out, localsBut, asking, cluVars, sends>>

\* cc->retry_count++, and the limit it is compared with.
RetryCounted == retry_count + 1
TooManyRetries == RetryCounted > MaxRetry

\* valkeyGetReply succeeds.
Reply(a) ==
    /\ pc = "reply"
    /\ Answer(c, a)
    /\ out' = [out EXCEPT ![c] = Tail(@)]
    /\ IF a.t \notin {"MOVED", "ASK"} \cup RetryErrors
       THEN /\ reply' = a
            /\ pc' = "done"
            /\ UNCHANGED <<nodes, table, retry_count, node>>
       ELSE /\ retry_count' = RetryCounted
            /\ UNCHANGED reply
            /\ IF TooManyRetries
               THEN pc' = "done" /\ UNCHANGED <<nodes, table, node>>
               ELSE CASE a.t = "MOVED" ->
                           /\ nodes' = nodes \cup {a.to}
                           /\ table' = a.to
                           /\ node' = a.to
                           /\ pc' = "moved"
                      [] a.t = "ASK" ->
                           /\ nodes' = nodes \cup {a.to}
                           /\ node' = a.to
                           /\ pc' = "ask"
                           /\ UNCHANGED table
                      [] OTHER -> pc' = "retry" /\ UNCHANGED <<nodes, table, node>>
    /\ UNCHANGED <<con, need_update_route, c, c_updating_route, cluVars, sends>>

\* MOVED: ask the node that sent it for a slot map, unless one is underway.
MovedUpdate ==
    /\ pc = "moved"
    /\ IF c_updating_route # None
       THEN pc' = "redirect" /\ UNCHANGED <<con, out, c_updating_route>>
       ELSE \/ /\ out' = [out EXCEPT ![c] = Append(@, "slots")]
               /\ c_updating_route' = c
               /\ pc' = "redirect"
               /\ UNCHANGED con
            \/ /\ con[c] = "broken"
               /\ con' = [con EXCEPT ![c] = "err"]
               /\ pc' = "refresh_moved"
               /\ UNCHANGED <<out, c_updating_route>>
    /\ UNCHANGED <<nodes, table, need_update_route, retry_count, node, c, reply,
                   asking, cluVars, sends, executions>>

\* It could not be asked.  A new slot map from another node releases the node
\* the redirection leads to, which is used next.
RefreshMoved ==
    /\ pc = "refresh_moved"
    /\ valkeyClusterUpdateSlotmap("dangling", "done")
    /\ UNCHANGED <<localsBut, asking, cluVars, sends, executions>>

\* That node cannot be reached.
RedirectFails_Refreshes == pc' = "refresh" /\ UNCHANGED <<con, out, c>>
RedirectFails == pc' = "done" /\ UNCHANGED <<con, out, c>>

\* The command goes to the node named by MOVED, or ASKING to the one named by
\* ASK.
Redirect ==
    /\ pc \in {"redirect", "ask"}
    /\ IF CanUse(node)
       THEN /\ c' = node
            /\ con' = [con EXCEPT ![node] = IF @ = "broken" THEN @ ELSE "ok"]
            /\ LET kept == IF con[node] \in {"ok", "broken"} THEN out[node] ELSE <<>> IN
               out' = [out EXCEPT ![node] = IF pc = "ask" THEN Append(kept, "asking") ELSE kept]
            /\ pc' = IF pc = "ask" THEN "asking" ELSE "send"
       ELSE RedirectFails
    /\ UNCHANGED <<nodes, table, need_update_route, retry_count, node,
                   c_updating_route, reply, asking, cluVars, sends, executions>>

\* Faulty variant: it is left to be read.
Asking_NotRead ==
    /\ pc = "asking"
    /\ pc' = "send"
    /\ UNCHANGED <<ctxVars, localsBut, asking, cluVars, sends, executions>>

\* The reply to ASKING is read and dropped.
Asking ==
    /\ pc = "asking"
    /\ \/ /\ con[c] = "ok"
          /\ \E a \in Answers(c, Head(out[c])) : Answer(c, a)
          /\ out' = [out EXCEPT ![c] = Tail(@)]
          /\ pc' = "send"
          /\ UNCHANGED con
       \/ /\ con[c] # "ok"
          /\ con' = [con EXCEPT ![c] = "err"]
          /\ pc' = "done"
          /\ UNCHANGED <<out, asking, executions>>
    /\ UNCHANGED <<nodes, table, need_update_route, localsBut, cluVars, sends>>

\* error, done: read the slot map that is underway, or get one from another
\* node; without one the reply is dropped.  valkeyClusterFormattedCommand
\* resets retry_count.
Done ==
    /\ pc = "done"
    /\ retry_count' = 0
    /\ \/ /\ c_updating_route = None
          /\ pc' = "idle"
          /\ UNCHANGED <<ctxVars, reply, asking, executions>>
       \/ /\ c_updating_route # None /\ con[c_updating_route] = "ok"
          /\ \E a \in Answers(c_updating_route, Head(out[c_updating_route])) :
               /\ Answer(c_updating_route, a)
               /\ LET rest == [out EXCEPT ![c_updating_route] = Tail(@)] IN
                  IF a.t = "slotmap"
                  THEN /\ updateNodesAndSlotmap(a.owner, con, rest)
                       /\ pc' = "idle"
                  ELSE /\ out' = rest
                       /\ pc' = "refresh_done"
                       /\ UNCHANGED <<nodes, table, con, need_update_route>>
          /\ UNCHANGED reply
       \/ /\ c_updating_route # None /\ con[c_updating_route] \in {"broken", "err"}
          /\ con' = [con EXCEPT ![c_updating_route] = "err"]
          /\ pc' = "refresh_done"
          /\ UNCHANGED <<nodes, table, out, need_update_route, reply, asking, executions>>
    /\ UNCHANGED <<node, c, c_updating_route, cluVars, sends>>

RefreshDone ==
    /\ pc = "refresh_done"
    /\ valkeyClusterUpdateSlotmap("idle", "idle")
    /\ reply' = IF \A n \in nodes : ~Delivers(n) THEN Nothing ELSE reply
    /\ UNCHANGED <<retry_count, node, c, c_updating_route, asking, cluVars, sends, executions>>

-----------------------------------------------------------------------------
(* What happens in the cluster (external). *)

\* The slot begins to move to n.
Importing(n) ==
    /\ importing = None
    /\ n \in alive \ {Owner}
    /\ budget.returns \/ n \notin former
    /\ budget.moves > 0
    /\ budget' = [budget EXCEPT !.moves = @ - 1]
    /\ importing' = n
    /\ UNCHANGED <<ctxVars, locals, view, alive, former, asking, sends, executions>>

\* n is the slot's owner from now on; its old owner knows.
Owns(n) ==
    /\ view' = [view EXCEPT ![Owner] = n, ![n] = n]
    /\ former' = former \cup {n}
    /\ importing' = None
    /\ UNCHANGED <<ctxVars, locals, alive, budget, asking, sends, executions>>

Migrated == importing \in alive /\ Owns(importing)

Failover(n) == Owner \notin alive /\ n \in alive \ former /\ Owns(n)

\* Another node hears of it.
Hears(n) ==
    /\ n \in alive
    /\ view[n] # Owner
    /\ view' = [view EXCEPT ![n] = Owner]
    /\ UNCHANGED <<ctxVars, locals, importing, alive, budget, former, asking, sends, executions>>

\* A node stops; connections to it break, with the replies that were not read.
\* To the client, one that times out looks like a crash and a restart at once.
Crash(n) ==
    /\ budget.crashes > 0
    /\ n \in alive
    /\ budget' = [budget EXCEPT !.crashes = @ - 1]
    /\ alive' = alive \ {n}
    /\ asking' = asking \ {n}
    /\ con' = [con EXCEPT ![n] = IF @ = "ok" THEN "broken" ELSE @]
    /\ UNCHANGED <<nodes, table, out, need_update_route, locals, view, importing,
                   former, sends, executions>>

Restart(n) ==
    /\ n \in Nodes \ alive
    /\ alive' = alive \cup {n}
    /\ UNCHANGED <<ctxVars, locals, view, importing, budget, former, asking, sends, executions>>

-----------------------------------------------------------------------------
\* valkeyClusterConnectWithOptions has read a slot map from one of the nodes, in
\* which the slot may have no owner yet, or has failed to and knows the
\* configured addresses only.
Init ==
    /\ \E n \in Nodes :
         /\ view \in {[m \in Nodes |-> n], [m \in Nodes |-> IF m = n THEN n ELSE None]}
         /\ former = {n}
         /\ \/ \E m \in Keepers :
                  /\ table = view[m]
                  /\ nodes = ({view[m]} \ {None}) \cup Keepers
                  /\ con = [k \in Nodes |-> IF k = m THEN "ok" ELSE None]
            \/ /\ table = None
               /\ nodes = Keepers
               /\ con = [m \in Nodes |-> None]
    /\ out = [n \in Nodes |-> <<>>]
    /\ need_update_route = FALSE /\ retry_count = 0
    /\ pc = "idle" /\ node = None /\ c = None /\ c_updating_route = None
    /\ reply = Nothing
    /\ importing = None /\ asking = {} /\ alive = Nodes
    /\ budget \in Scenarios
    /\ sends = 0 /\ executions = 0

Execute == \/ Retry \/ Lookup \/ Connect \/ Refresh \/ Send \/ ReplyFails
           \/ (pc = "reply" /\ out[c] # <<>> /\ \E a \in Answers(c, Head(out[c])) : Reply(a))
           \/ MovedUpdate \/ RefreshMoved \/ Redirect \/ Asking \/ Done \/ RefreshDone
Cluster == \/ Migrated
           \/ \E n \in Nodes : Importing(n) \/ Failover(n) \/ Hears(n) \/ Crash(n) \/ Restart(n)
Next == Start \/ Execute \/ Cluster

Spec == Init /\ [][Next]_vars

\* The call never waits for anything but a reply, which comes or is given up
\* (the contexts have a timeout or their peer is gone); commands keep being
\* issued; migrations end, nodes learn the owner of the slot, an owner that is
\* gone is replaced, and the nodes in every slot map do not stay away.
FairSpec ==
    /\ Spec
    /\ WF_vars(Execute) /\ WF_vars(Start)
    /\ WF_vars(Migrated) /\ WF_vars(\E n \in Nodes : Failover(n))
    /\ \A n \in Nodes : WF_vars(Hears(n))
    /\ \A n \in Keepers : WF_vars(Restart(n))

-----------------------------------------------------------------------------
(* Properties. *)

\* Types: the slot never points to a node that is not known.
TypeOK ==
    /\ nodes \subseteq Nodes
    /\ table \in nodes \cup {None}
    /\ con \in [Nodes -> ConStates]
    /\ out \in [Nodes -> Seq({"cmd", "slots", "asking"})]
    /\ need_update_route \in BOOLEAN
    /\ retry_count \in 0..MaxRetry + 1
    /\ pc \in PCs
    /\ {node, c, c_updating_route} \subseteq Nodes \cup {None}
    /\ importing \in Nodes \cup {None}
    /\ {asking, alive, former} \subseteq SUBSET Nodes
    /\ \E n \in Nodes : view[n] = n

\* valkeyClusterCommand returns the reply to the user's command, or none: not
\* the reply to CLUSTER SLOTS or ASKING, and not an earlier command's.
OwnReply == pc = "idle" => reply \in {Own, Nothing}

\* No request is left unread on a connection that the next command may use,
\* whichever way the call ended and wherever the slot map was read from.
CleanConnections == pc = "idle" => \A n \in Nodes : con[n] \in {"ok", "broken"} => out[n] = <<>>

\* The command is executed at most once: it is sent again after an error reply
\* only, never after a connection failed.
AtMostOnce == executions <= 1

\* A call sends its command at most max_retry_count + 1 times.
BoundedSends == sends <= MaxRetry + 1

\* The context whose slot map is underway is not released before it was read,
\* by a slot map obtained in the meantime.
UpdatingContextHeld ==
    pc \notin {"idle", "refresh_done", "dangling"} /\ c_updating_route # None
        => con[c_updating_route] # None

\* A call never goes on with a node that a slot map update released, the node a
\* redirection named included (valkey_cluster_command_execute).
\* The code does not keep it (README.md, section 4).
NodeHeld == pc # "dangling"

\* A call returns, after redirections, retries and updates of the slot map,
\* unless it got hold of a released node.
CommandReturns == (pc # "idle") ~> (pc \in {"idle", "dangling"})

\* Once the cluster is quiet the client has the owner of the slot, though it
\* had the slot map from a node that was behind, or knew a dead owner only; a
\* call that got hold of a released node is left out.
RoutesConverge == <>[](table = Owner \/ pc = "dangling")

\* Commands and replies stay in step on every connection, within a call and from
\* one call to the next, although slot map queries and ASKING are pipelined with
\* the commands (valkey_cluster_command_execute).
RepliesInStep == TypeOK /\ OwnReply /\ CleanConnections

\* A command is neither executed twice nor sent without end.
SentSparingly == AtMostOnce /\ BoundedSends

\* Every call ends, and the calls end up at the owner of the slot.
CallsConverge == CommandReturns /\ RoutesConverge
=============================================================================
