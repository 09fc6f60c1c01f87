-------------------------- MODULE ClusterPipeline --------------------------
(***************************************************************************)
(* Pipelines of a synchronous cluster client (src/src/cluster.c): commands *)
(* are appended to the connections of several nodes and remembered in one  *)
(* list, cc->requests, from which valkeyClusterGetReply finds the node to  *)
(* read the next reply from.  valkeyClusterReset ends a pipeline.          *)
(*                                                                         *)
(* Whether bytes are still in an output buffer is abstracted: out holds    *)
(* the requests of a connection whose replies were not read.  The calls    *)
(* are blocking and made by one thread; servers change between them, and   *)
(* between the steps of valkeyClusterReset.                                *)
(***************************************************************************)
EXTENDS AdList

CONSTANTS Nodes,         \* addresses
          Slots,
          FirstOwner,    \* the node that serves each slot in the beginning
          MaxRetry,      \* cc->max_retry_count
          MaxAppends,    \* bound: commands appended
          MaxCrashes,    \* bound: crashes of nodes
          MaxMoves       \* bound: slots that change hands

\* A node's valkeyContext: the state of its socket and the requests, by number,
\* whose replies were not read.
Contexts == [st : {"ok", "broken", "err"}, out : Seq(Nat)]

ASSUME PipelineConstants ==
    /\ NULL \notin Nodes \cup Slots \cup Nat \cup Contexts
    /\ FirstOwner \in [Slots -> Nodes]
    /\ {MaxRetry, MaxAppends, MaxCrashes, MaxMoves} \subseteq Nat

VARIABLES
    known,             \* the keys of cc->nodes
    table,             \* cc->table
    con,               \* con[n]: node n's valkeyContext or NULL
    requests,          \* cc->requests
    need_update_route, \* cc->need_update_route
    retry_count,       \* cc->retry_count
    err,               \* cc->err is set
    pc,                \* where valkeyClusterReset is, "idle" outside of it
    iter,              \* its iterator: the node saved for the next call of listNext
    careful,           \* how the application behaves, see Allowed
    \* The cluster
    owner, alive, crashes, moves,
    \* History
    appended,          \* commands appended so far
    failed,            \* valkeyClusterGetReply failed since the last reset
    mixed,             \* a command was given the reply to another one
    stale              \* slots that answered MOVED since the last slot map

ccVars  == <<known, table, con, requests, need_update_route, retry_count, err>>
envVars == <<owner, alive, crashes, moves>>
vars    == <<ccVars, pc, iter, careful, envVars, appended, failed, mixed, stale>>

Fresh == [st |-> "ok", out |-> <<>>]
Usable(n) == con[n] # NULL /\ con[n].st # "err"

\* A careful application resets the context after a failure to read a reply and
\* leaves the slot map alone while replies are expected.
Allowed == pc = "idle" /\ (careful => ~failed)
AllowedAlone == Allowed /\ (careful => listFirst(requests) = NULL)

-----------------------------------------------------------------------------
(* Contexts. *)

\* The context of node n after valkeyClusterGetValkeyContext, which connects, or
\* reconnects one that has an error; what was expected on that one is forgotten.
valkeyClusterGetValkeyContext(n) ==
    IF Usable(n) THEN con[n]
    ELSE IF n \in alive THEN Fresh
    ELSE IF con[n] = NULL THEN NULL ELSE [con[n] EXCEPT !.out = <<>>]

-----------------------------------------------------------------------------
(* The slot map. *)

\* A context that will be answered with a slot map: nothing else comes first.
Delivers(n) ==
    LET c == valkeyClusterGetValkeyContext(n) IN
    c # NULL /\ c.st = "ok" /\ c.out = <<>>

\* updateNodesAndSlotmap: contexts of nodes that are gone are released.
updateNodesAndSlotmap(cons) ==
    LET nodes == {owner[s] : s \in Slots} \ {NULL} IN
    /\ known' = nodes
    /\ table' = owner
    /\ con' = [n \in Nodes |-> IF n \in nodes THEN cons[n] ELSE NULL]
    /\ need_update_route' = FALSE
    /\ stale' = {}

\* valkeyClusterUpdateSlotmap: nodes are asked in turn until one answers; those
\* asked in vain lose their context.
valkeyClusterUpdateSlotmap ==
    LET failing == {n \in known : ~Delivers(n)} IN
    \/ \E n \in known \ failing, tried \in SUBSET failing :
         /\ updateNodesAndSlotmap([m \in Nodes |->
                IF m \in tried THEN NULL
                ELSE IF m = n THEN valkeyClusterGetValkeyContext(n) ELSE con[m]])
         /\ err' = FALSE
    \/ /\ failing = known
       /\ con' = [m \in Nodes |-> IF m \in known THEN NULL ELSE con[m]]
       /\ err' = TRUE
       /\ UNCHANGED <<known, table, need_update_route, stale>>

\* The application asks for a new slot map.
UpdateSlotmap ==
    /\ AllowedAlone
    /\ valkeyClusterUpdateSlotmap
    /\ UNCHANGED <<requests, retry_count, pc, iter, careful, envVars, appended, failed, mixed>>

-----------------------------------------------------------------------------
(* Appending.  A command is numbered; 0 stands for a request for the slot map. *)

\* The command is given the reply to `answered'.
Returned(command, answered) == mixed' = (mixed \/ command # answered)

\* The command goes out on node n's context and into the list, or fails.
AppendTo(n, s) ==
    LET c == valkeyClusterGetValkeyContext(n)
        id == appended + 1
    IN  /\ appended' = id
        /\ IF c = NULL \/ c.st = "err"
           THEN /\ con' = [con EXCEPT ![n] = c]
                /\ err' = TRUE
                /\ UNCHANGED requests
           ELSE /\ con' = [con EXCEPT ![n] = [c EXCEPT !.out = Append(@, id)]]
                /\ requests' = listAddNodeTail(requests, id,
                                   [slot |-> s, node_addr |-> IF s = NULL THEN n ELSE NULL])
                /\ UNCHANGED err
        /\ UNCHANGED <<known, table, need_update_route, retry_count>>

\* valkeyClusterAppendCommand and its variants, for a command with a key.
valkeyClusterAppendCommand(s) ==
    /\ Allowed /\ appended < MaxAppends
    /\ IF table[s] = NULL THEN err' = TRUE /\ UNCHANGED <<known, table, con, requests,
                                     need_update_route, retry_count, appended>>
       ELSE AppendTo(table[s], s)
    /\ UNCHANGED <<pc, iter, careful, envVars, failed, mixed, stale>>

\* prepareCommand refuses a command that has no key or cannot be parsed.
AppendRefused ==
    /\ Allowed /\ appended < MaxAppends
    /\ appended' = appended + 1
    /\ err' = TRUE
    /\ UNCHANGED <<known, table, con, requests, need_update_route, retry_count, pc,
                   iter, careful, envVars, failed, mixed, stale>>

\* valkeyClusterAppendCommandToNode.
valkeyClusterAppendCommandToNode(n) ==
    /\ Allowed /\ appended < MaxAppends
    /\ n \in known
    /\ AppendTo(n, NULL)
    /\ UNCHANGED <<pc, iter, careful, envVars, failed, mixed, stale>>

\* valkeyClusterCommandToNode: the reply to the command is the next one on the
\* context; a scheduled slot map update is read behind it.
valkeyClusterCommandToNode(n) ==
    /\ AllowedAlone /\ n \in known /\ appended < MaxAppends
    /\ appended' = appended + 1
    /\ LET c == valkeyClusterGetValkeyContext(n) IN
       IF c = NULL \/ c.st = "err"
       THEN /\ con' = [con EXCEPT ![n] = c]
            /\ err' = TRUE
            /\ UNCHANGED <<known, table, need_update_route, stale, mixed>>
       ELSE \/ /\ c.st = "ok"
               /\ Returned(appended + 1, Head(Append(c.out, appended + 1)))
               /\ err' = FALSE
               /\ IF need_update_route
                  THEN IF c.out = <<>>
                       THEN updateNodesAndSlotmap([con EXCEPT ![n] = c])
                       ELSE /\ con' = [con EXCEPT ![n] = [c EXCEPT !.out =
                                           Append(Tail(Tail(Append(@, appended + 1))), 0)]]
                            /\ UNCHANGED <<known, table, need_update_route, stale>>
                  ELSE /\ con' = [con EXCEPT ![n] = [c EXCEPT !.out =
                                                     Tail(Append(@, appended + 1))]]
                       /\ UNCHANGED <<known, table, need_update_route, stale>>
            \/ /\ c.st = "broken"
               /\ con' = [con EXCEPT ![n] = [c EXCEPT !.st = "err"]]
               /\ need_update_route' = TRUE
               /\ err' = TRUE
               /\ UNCHANGED <<known, table, stale, mixed>>
    /\ UNCHANGED <<requests, retry_count, pc, iter, careful, envVars, failed>>

-----------------------------------------------------------------------------
(* Reading. *)

Done(ok) == failed' = (failed \/ ~ok) /\ err' = ~ok

\* Faulty variant for RedirectRemembered: a redirection is passed on unnoticed.
ReplyRead_IgnoresMoved(n, p) ==
    /\ UNCHANGED <<retry_count, known, table>>
    /\ con' = [con EXCEPT ![n].out = Tail(@)]
    /\ Returned(p, Head(con[n].out))
    /\ LET s == listNodeValue(requests, p).slot IN
       stale' = IF s # NULL /\ owner[s] \notin {n, NULL} THEN stale \cup {s} ELSE stale
    /\ UNCHANGED need_update_route

\* The next reply of node n's connection, which may be a MOVED error.
ReplyRead(n, p) ==
    /\ UNCHANGED <<retry_count, known, table>>
    /\ con' = [con EXCEPT ![n].out = Tail(@)]
    /\ Returned(p, Head(con[n].out))
    /\ LET s     == listNodeValue(requests, p).slot
           moved == s # NULL /\ owner[s] \notin {n, NULL}
       IN  /\ stale' = IF moved THEN stale \cup {s} ELSE stale
           /\ need_update_route' = (need_update_route \/ moved)

\* valkeyClusterGetReplyFromNode for the request p, which was removed.  A reply
\* that arrived before the connection broke is still read.  Without an answer
\* to wait for the call does not return.
valkeyClusterGetReplyFromNode(n, p, ok, bad) ==
    \/ /\ con[n] = NULL
       /\ failed' = TRUE /\ err' = FALSE /\ pc' = bad
       /\ UNCHANGED <<known, table, con, need_update_route, retry_count, mixed, stale>>
    \/ /\ con[n] # NULL /\ con[n].st = "err"
       /\ LET over == retry_count + 1 > MaxRetry IN
          /\ need_update_route' = (need_update_route \/ over)
          /\ retry_count' = IF need_update_route THEN retry_count
                            ELSE IF over THEN 0 ELSE retry_count + 1
       /\ Done(FALSE) /\ pc' = bad
       /\ UNCHANGED <<known, table, con, mixed, stale>>
    \/ /\ con[n] # NULL /\ con[n].st = "broken"
       /\ con' = [con EXCEPT ![n].st = "err"]
       /\ Done(FALSE) /\ pc' = bad
       /\ UNCHANGED <<known, table, need_update_route, retry_count, mixed, stale>>
    \/ /\ Usable(n) /\ con[n].out # <<>>
       /\ ReplyRead(n, p)
       /\ Done(TRUE) /\ pc' = ok
    \/ /\ con[n] # NULL /\ con[n].st = "ok" /\ con[n].out = <<>>
       /\ pc' = "blocked"
       /\ UNCHANGED <<known, table, con, need_update_route, retry_count, err, failed,
                      mixed, stale>>

\* valkeyClusterGetReply with a request in the list; control goes to `ok' or
\* `bad'.
valkeyClusterGetReply(ok, bad) ==
    LET p    == listFirst(requests)
        cmd  == listNodeValue(requests, p)
        node == IF cmd.slot # NULL THEN table[cmd.slot]
                ELSE IF cmd.node_addr \in known THEN cmd.node_addr ELSE NULL
    IN  /\ requests' = listDelNode(requests, p)
        /\ IF node = NULL
           THEN /\ Done(FALSE) /\ pc' = bad
                /\ UNCHANGED <<known, table, con, need_update_route, retry_count, mixed, stale>>
           ELSE valkeyClusterGetReplyFromNode(node, p, ok, bad)

\* The application reads a reply; without requests there is none.
GetReply ==
    /\ Allowed
    /\ IF listFirst(requests) = NULL
       THEN /\ err' = FALSE
            /\ UNCHANGED <<known, table, con, requests, need_update_route, retry_count,
                           pc, failed, mixed, stale>>
       ELSE valkeyClusterGetReply("idle", "idle")
    /\ UNCHANGED <<iter, careful, envVars, appended>>

-----------------------------------------------------------------------------
(* valkeyClusterReset. *)

valkeyClusterClearAll ==
    /\ con' = [n \in Nodes |-> IF n \in known THEN NULL ELSE con[n]]
    /\ err' = FALSE

\* valkeyClusterSendAll visits the nodes up to the first whose output cannot be
\* written; a node that cannot be connected to is passed over.
valkeyClusterSendAll ==
    \E visited \in SUBSET known, f \in known \cup {NULL} :
        LET c == [n \in known |-> valkeyClusterGetValkeyContext(n)] IN
        /\ IF f = NULL THEN visited = known
           ELSE f \in visited /\ c[f] # NULL /\ c[f].st # "ok"
        /\ \A n \in visited \ {f} : c[n] # NULL => c[n].st # "err"
        /\ con' = [n \in Nodes |-> IF n \notin visited THEN con[n]
                                   ELSE IF n = f THEN [c[n] EXCEPT !.st = "err"]
                                   ELSE c[n]]

\* The requests that are left will be deleted.
Clearing == pc' = "clear" /\ iter' = listRewind(requests)

\* The call: after an error every connection is dropped, otherwise all output is
\* flushed and every expected reply is read.
ResetBegin ==
    /\ pc = "idle"
    /\ IF err THEN valkeyClusterClearAll /\ Clearing
       ELSE valkeyClusterSendAll /\ pc' = "read" /\ UNCHANGED <<err, iter>>
    /\ UNCHANGED <<known, table, requests, need_update_route, retry_count, careful,
                   envVars, appended, failed, mixed, stale>>

ResetRead ==
    /\ pc = "read"
    /\ IF listFirst(requests) = NULL
       THEN /\ Clearing /\ err' = FALSE
            /\ UNCHANGED <<known, table, con, requests, need_update_route, retry_count,
                           failed, mixed, stale>>
       ELSE valkeyClusterGetReply("read", "drop") /\ UNCHANGED iter
    /\ UNCHANGED <<careful, envVars, appended>>

\* Faulty variant for PipelineInStep: connections survive a failure.
ResetDrop_KeepsConnections ==
    /\ pc = "drop"
    /\ err' = FALSE /\ UNCHANGED con
    /\ Clearing
    /\ UNCHANGED <<known, table, requests, need_update_route, retry_count, careful,
                   envVars, appended, failed, mixed, stale>>

\* A reply could not be read.
ResetDrop ==
    /\ pc = "drop"
    /\ valkeyClusterClearAll
    /\ Clearing
    /\ UNCHANGED <<known, table, requests, need_update_route, retry_count, careful,
                   envVars, appended, failed, mixed, stale>>

\* Faulty variant for ResetReturns: one request is deleted instead of all.
ResetDelete_Once ==
    /\ pc = "clear" /\ iter # NULL
    /\ requests' = listDelNode(requests, iter)
    /\ iter' = NULL
    /\ UNCHANGED <<known, table, con, need_update_route, retry_count, err, pc, careful,
                   envVars, appended, failed, mixed, stale>>

\* The loop that deletes the requests: the iterator moves on before its node is
\* released.
ResetDelete ==
    /\ pc = "clear" /\ iter # NULL
    /\ requests' = listDelNode(requests, iter)
    /\ iter' = listNext(requests, iter)
    /\ UNCHANGED <<known, table, con, need_update_route, retry_count, err, pc, careful,
                   envVars, appended, failed, mixed, stale>>

\* The end of valkeyClusterReset: the slot map is updated if necessary.
ResetEnd ==
    /\ pc = "clear" /\ iter = NULL
    /\ pc' = "idle"
    /\ failed' = FALSE
    /\ IF need_update_route THEN valkeyClusterUpdateSlotmap
       ELSE UNCHANGED <<known, table, con, need_update_route, err, stale>>
    /\ UNCHANGED <<requests, retry_count, iter, careful, envVars, appended, mixed>>

-----------------------------------------------------------------------------
(* The cluster (external). *)

Crash(n) ==
    /\ n \in alive /\ crashes < MaxCrashes
    /\ crashes' = crashes + 1
    /\ alive' = alive \ {n}
    /\ con' = [con EXCEPT ![n] = IF Usable(n) THEN [@ EXCEPT !.st = "broken"] ELSE @]
    /\ UNCHANGED <<known, table, requests, need_update_route, retry_count, err, pc,
                   iter, careful, owner, moves, appended, failed, mixed, stale>>

Restart(n) ==
    /\ n \notin alive
    /\ alive' = alive \cup {n}
    /\ UNCHANGED <<ccVars, pc, iter, careful, owner, crashes, moves, appended, failed,
                   mixed, stale>>

\* A slot moves to another node, or is left without one.
Move(s, n) ==
    /\ moves < MaxMoves /\ owner[s] # n
    /\ moves' = moves + 1
    /\ owner' = [owner EXCEPT ![s] = n]
    /\ UNCHANGED <<ccVars, pc, iter, careful, alive, crashes, appended, failed, mixed, stale>>

-----------------------------------------------------------------------------
Init ==
    /\ known = {FirstOwner[s] : s \in Slots}
    /\ table = FirstOwner
    /\ con = [n \in Nodes |-> NULL]
    /\ requests = listCreate
    /\ need_update_route = FALSE
    /\ retry_count = 0
    /\ err = FALSE
    /\ pc = "idle" /\ iter = NULL
    /\ careful \in BOOLEAN
    /\ owner = FirstOwner /\ alive = Nodes /\ crashes = 0 /\ moves = 0
    /\ appended = 0 /\ failed = FALSE /\ stale = {}
    /\ mixed = FALSE

ResetStep == ResetRead \/ ResetDrop \/ ResetDelete \/ ResetEnd

Next ==
    \/ \E s \in Slots : valkeyClusterAppendCommand(s)
    \/ \E n \in Nodes : valkeyClusterAppendCommandToNode(n)
    \/ AppendRefused
    \/ \E n \in Nodes : valkeyClusterCommandToNode(n)
    \/ UpdateSlotmap \/ GetReply \/ ResetBegin \/ ResetStep
    \/ \E n \in Nodes : Crash(n) \/ Restart(n)
    \/ \E s \in Slots, n \in Nodes \cup {NULL} : Move(s, n)

Spec == Init /\ [][Next]_vars

\* The thread that is in valkeyClusterReset goes on running.
LiveSpec == Spec /\ WF_vars(ResetStep)

-----------------------------------------------------------------------------
(* Properties. *)

\* Types of the client, its connections and its list of requests.
TypeOK ==
    /\ known \subseteq Nodes
    /\ table \in [Slots -> Nodes \cup {NULL}]
    /\ \A n \in Nodes : con[n] # NULL =>
          con[n].st \in {"ok", "broken", "err"} /\ Len(con[n].out) <= MaxAppends + 1
    /\ need_update_route \in BOOLEAN /\ err \in BOOLEAN
    /\ retry_count \in 0..MaxRetry
    /\ pc \in {"idle", "read", "drop", "clear", "blocked"}
    /\ stale \subseteq Slots

\* The list of outstanding commands stays a proper list while its head is
\* removed, its tail extended and the whole deleted under an iterator.
RequestsWellFormed == WellFormed(requests)

\* For a careful application every reply that valkeyClusterGetReply or
\* valkeyClusterCommandToNode returns is the reply to the command it was
\* removed for, whatever redirections, crashes and resets came before.
PipelineOwnReply == careful => ~mixed

\* When no request is left and no call is underway, no usable connection has a
\* reply coming that the next command would take for its own.
CleanWhenDrained ==
    careful /\ pc = "idle" /\ listFirst(requests) = NULL =>
        \A n \in Nodes : Usable(n) => con[n].out = <<>>

\* A careful application is never left waiting for a reply that cannot come.
NeverStarves == careful => pc # "blocked"

\* A slot that answered MOVED is not forgotten until a new slot map is in place:
\* not by later replies, failures or the reset.
RedirectRemembered == stale # {} => need_update_route

\* valkeyClusterReset returns, and no request is left then.
ResetReturns ==
    careful => [](pc # "idle" => <>(pc = "idle" /\ listFirst(requests) = NULL))

\* The list of requests and what is under way on the connections stay in step,
\* through redirections, crashes, resets and slot map updates
\* (valkeyClusterGetReply, valkeyClusterReset).
PipelineInStep ==
    TypeOK /\ RequestsWellFormed /\ PipelineOwnReply /\ CleanWhenDrained /\ NeverStarves
=============================================================================
