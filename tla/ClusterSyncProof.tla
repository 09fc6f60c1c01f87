-------------------------- MODULE ClusterSyncProof --------------------------
(***************************************************************************)
(* Proofs about valkeyClusterCommand (ClusterSync), for every set of nodes *)
(* and keepers, every limit on retries and every scenario.                 *)
(***************************************************************************)
EXTENDS ClusterSync, TLAPS

-----------------------------------------------------------------------------
(* The inductive invariant of the call and its routes. *)

Requests == {"cmd", "slots", "asking"}
Live(n) == con[n] \in {"ok", "broken"}
InUse(n) == n \in Nodes /\ Live(n)

\* What TypeOK leaves out.
StateTyped ==
    /\ TypeOK
    /\ view \in [Nodes -> Nodes \cup {None}]
    /\ budget \in ScenarioType
    /\ sends \in Nat
    /\ executions \in Nat

\* The nodes a call is working with exist, and so does the context it sends on.
HasContext ==
    /\ pc \in {"reply", "asking", "refresh_moved"} => c \in Nodes
    /\ pc \in {"send", "moved"} => InUse(c)
    /\ pc \in {"moved", "redirect", "ask", "refresh_moved"} => node \in Nodes

\* From the first send until it is done, a call can go back to the slot's node:
\* it needs no other slot map while one is underway.
RouteKept ==
    /\ pc \in {"moved", "redirect"} => node = table
    /\ pc \in {"ask", "asking", "send"} => InUse(table)
    /\ pc = "reply" /\ con[c] = "ok" => InUse(table)
    /\ pc \in {"retry", "connect"} /\ c_updating_route # None => InUse(table)
    /\ pc \in {"lookup", "refresh", "reconnect", "refresh_moved"} => c_updating_route = None

\* Every send but the first was paid for with a retry.
SendsCounted ==
    /\ sends <= MaxRetry + 1
    /\ pc \in {"idle", "refresh_done"} => retry_count = 0
    /\ pc \notin {"idle", "reply", "done", "refresh_done", "dangling"} =>
         sends <= retry_count /\ retry_count <= MaxRetry
    /\ pc = "reply" => sends <= retry_count + 1 /\ retry_count <= MaxRetry

IInv == StateTyped /\ HasContext /\ RouteKept /\ SendsCounted /\ UpdatingContextHeld

-----------------------------------------------------------------------------
(* What the operators of the model do. *)

\* What TypeOK says, fact by fact.
LEMMA TypeFacts ==
    ASSUME StateTyped
    PROVE  /\ nodes \subseteq Nodes
           /\ table \in nodes \cup {None}
           /\ table \in Nodes \cup {None}
           /\ con \in [Nodes -> ConStates]
           /\ out \in [Nodes -> Seq(Requests)]
           /\ need_update_route \in BOOLEAN
           /\ retry_count \in 0..MaxRetry + 1
           /\ pc \in PCs
           /\ node \in Nodes \cup {None}
           /\ c \in Nodes \cup {None}
           /\ c_updating_route \in Nodes \cup {None}
           /\ importing \in Nodes \cup {None}
           /\ asking \in SUBSET Nodes
           /\ alive \in SUBSET Nodes
           /\ former \in SUBSET Nodes
           /\ \E n \in Nodes : view[n] = n
           /\ view \in [Nodes -> Nodes \cup {None}]
           /\ budget \in ScenarioType
           /\ sends \in Nat
           /\ executions \in Nat
BY DEF StateTyped, TypeOK, Requests

\* A node answers CLUSTER SLOTS with a slot map, ASKING with OK, and a command
\* with its reply, an error to retry or a redirection to another node.
LEMMA AnswerKinds ==
    ASSUME StateTyped, NEW n \in Nodes, NEW r \in Requests, NEW a \in Answers(n, r)
    PROVE  \/ r = "slots" /\ a = SlotMap(view[n])
           \/ r = "asking" /\ a = OK
           \/ r = "cmd" /\ \/ a = Own
                           \/ \E e \in RetryErrors : a = Error(e)
                           \/ \E i \in Nodes : a = Ask(i)
                           \/ \E i \in Nodes : a = Moved(i)
<1>1. view[n] \in Nodes \cup {None} /\ importing \in Nodes \cup {None}
      /\ budget.errors \subseteq RetryErrors
  BY TypeFacts DEF ScenarioType
<1>2. CASE r = "slots"
  BY <1>2 DEF Answers
<1>3. CASE r = "asking"
  BY <1>3 DEF Answers
<1>4. CASE r = "cmd"
  <2>1. CASE view[n] = n
    BY <1>1, <1>4, <2>1 DEF Answers
  <2>2. CASE view[n] # n /\ n \in asking /\ importing = n
    BY <1>1, <1>4, <2>2 DEF Answers
  <2>3. CASE view[n] # n /\ ~(n \in asking /\ importing = n) /\ view[n] = None
    BY <1>1, <1>4, <2>3 DEF Answers, RetryErrors
  <2>4. CASE view[n] # n /\ ~(n \in asking /\ importing = n) /\ view[n] # None
    BY <1>1, <1>4, <2>4 DEF Answers
  <2> QED
    BY <2>1, <2>2, <2>3, <2>4
<1> QED
  BY <1>2, <1>3, <1>4 DEF Requests

\* The type of a reply tells what it is.
LEMMA ReplyTypes ==
    /\ Own.t = "own" /\ OK.t = "ok" /\ Nothing.t = "nothing"
    /\ \A n : SlotMap(n).t = "slotmap" /\ SlotMap(n).owner = n
    /\ \A n : Moved(n).t = "MOVED" /\ Moved(n).to = n
    /\ \A n : Ask(n).t = "ASK" /\ Ask(n).to = n
    /\ \A e : Error(e).t = e
BY DEF Own, OK, Nothing, SlotMap, Moved, Ask, Error

\* A slot map leaves typed contexts, those of its nodes as they were and no
\* others.
LEMMA SlotMapApplied ==
    ASSUME NEW n \in Nodes \cup {None}, NEW cons \in [Nodes -> ConStates],
           NEW outs \in [Nodes -> Seq(Requests)], updateNodesAndSlotmap(n, cons, outs)
    PROVE  /\ nodes' \subseteq Nodes
           /\ table' \in nodes' \cup {None}
           /\ con' \in [Nodes -> ConStates]
           /\ out' \in [Nodes -> Seq(Requests)]
           /\ need_update_route' = FALSE
           /\ \A m \in Nodes : con'[m] # None => con'[m] = cons[m] /\ out'[m] = outs[m]
<1> DEFINE known == ({n} \ {None}) \cup Keepers
<1>1. /\ nodes' = known /\ table' = n
      /\ con' = [m \in Nodes |-> IF m \in known THEN cons[m] ELSE None]
      /\ out' = [m \in Nodes |-> IF m \in known THEN outs[m] ELSE <<>>]
      /\ need_update_route' = FALSE
  BY DEF updateNodesAndSlotmap
<1>2. known \subseteq Nodes
  BY ClusterConstants
<1>3. None \in ConStates /\ <<>> \in Seq(Requests)
  BY DEF ConStates
<1> HIDE DEF known
<1>4. con' \in [Nodes -> ConStates]
  BY <1>1, <1>3
<1>5. out' \in [Nodes -> Seq(Requests)]
  BY <1>1, <1>3
<1>6. table' \in nodes' \cup {None}
  BY <1>1 DEF known
<1> QED
  BY <1>1, <1>2, <1>4, <1>5, <1>6

\* valkeyClusterUpdateSlotmap leaves typed contexts.  If nothing was left unread
\* on a live one, nothing is.
LEMMA SlotMapUpdated ==
    ASSUME StateTyped, NEW good, NEW bad, valkeyClusterUpdateSlotmap(good, bad)
    PROVE  /\ nodes' \subseteq Nodes
           /\ table' \in nodes' \cup {None}
           /\ con' \in [Nodes -> ConStates]
           /\ out' \in [Nodes -> Seq(Requests)]
           /\ need_update_route' \in BOOLEAN
           /\ pc' \in {good, bad}
           /\ (\A n \in Nodes : Live(n) => out[n] = <<>>) =>
                 (\A n \in Nodes : Live(n)' => out'[n] = <<>>)
<1> DEFINE failing == {n \in nodes : ~Delivers(n)}
<1>0. /\ nodes \subseteq Nodes /\ con \in [Nodes -> ConStates]
      /\ out \in [Nodes -> Seq(Requests)] /\ view \in [Nodes -> Nodes \cup {None}]
      /\ need_update_route \in BOOLEAN /\ table \in nodes \cup {None}
  BY TypeFacts
<1>1. CASE \E n \in nodes \ failing, tried \in SUBSET failing :
         /\ updateNodesAndSlotmap(view[n],
                [m \in Nodes |-> IF m \in tried THEN None ELSE IF m = n THEN "ok" ELSE con[m]],
                [m \in Nodes |-> IF m \in tried THEN <<>>
                                 ELSE IF m # n THEN out[m]
                                 ELSE IF con[n] = "ok" /\ out[n] # <<>>
                                 THEN Append(Tail(out[n]), "slots") ELSE <<>>])
         /\ pc' = good
  <2> PICK n \in nodes \ failing, tried \in SUBSET failing :
         /\ updateNodesAndSlotmap(view[n],
                [m \in Nodes |-> IF m \in tried THEN None ELSE IF m = n THEN "ok" ELSE con[m]],
                [m \in Nodes |-> IF m \in tried THEN <<>>
                                 ELSE IF m # n THEN out[m]
                                 ELSE IF con[n] = "ok" /\ out[n] # <<>>
                                 THEN Append(Tail(out[n]), "slots") ELSE <<>>])
         /\ pc' = good
    BY <1>1
  <2> DEFINE cons == [m \in Nodes |-> IF m \in tried THEN None
                                      ELSE IF m = n THEN "ok" ELSE con[m]]
             rest == IF con[n] = "ok" /\ out[n] # <<>>
                     THEN Append(Tail(out[n]), "slots") ELSE <<>>
             outs == [m \in Nodes |-> IF m \in tried THEN <<>>
                                      ELSE IF m # n THEN out[m] ELSE rest]
  <2>1. updateNodesAndSlotmap(view[n], cons, outs) /\ pc' = good
    OBVIOUS
  <2>2. n \in Nodes /\ view[n] \in Nodes \cup {None}
    BY <1>0
  <2>3. cons \in [Nodes -> ConStates]
    BY <1>0 DEF ConStates
  <2>4. rest \in Seq(Requests)
    BY <1>0, <2>2 DEF Requests
  <2>5. (\A m \in Nodes : Live(m) => out[m] = <<>>) => rest = <<>>
    BY <2>2 DEF Live
  <2> HIDE DEF rest
  <2>6. outs \in [Nodes -> Seq(Requests)]
    BY <1>0, <2>4
  <2>7. ASSUME \A m \in Nodes : Live(m) => out[m] = <<>>, NEW m \in Nodes,
               cons[m] \in {"ok", "broken"}
        PROVE  outs[m] = <<>>
    BY <2>5, <2>7 DEF Live
  <2> HIDE DEF cons, outs
  <2>8. /\ nodes' \subseteq Nodes /\ table' \in nodes' \cup {None}
        /\ con' \in [Nodes -> ConStates] /\ out' \in [Nodes -> Seq(Requests)]
        /\ need_update_route' = FALSE
        /\ \A m \in Nodes : con'[m] # None => con'[m] = cons[m] /\ out'[m] = outs[m]
    BY <2>1, <2>2, <2>3, <2>6, SlotMapApplied
  <2>9. ASSUME \A m \in Nodes : Live(m) => out[m] = <<>>, NEW m \in Nodes, Live(m)'
        PROVE  out'[m] = <<>>
    <3>1. con'[m] \in {"ok", "broken"} /\ con'[m] # None
      BY <2>9 DEF Live, None
    <3> QED
      BY <2>7, <2>8, <2>9, <3>1
  <2> QED
    BY <2>1, <2>8, <2>9
<1>2. CASE /\ con' = [m \in Nodes |-> IF m \in nodes THEN None ELSE con[m]]
           /\ out' = [m \in Nodes |-> IF m \in nodes THEN <<>> ELSE out[m]]
           /\ pc' = bad
           /\ UNCHANGED <<nodes, table, need_update_route>>
  BY <1>0, <1>2 DEF ConStates, Live
<1> QED
  BY <1>1, <1>2 DEF valkeyClusterUpdateSlotmap

\* What happens in the cluster changes nothing for the client but that live
\* connections break.
LEMMA ClusterSteps ==
    ASSUME StateTyped, Cluster
    PROVE  /\ UNCHANGED <<nodes, table, out, need_update_route, locals, sends, executions>>
           /\ con' \in [Nodes -> ConStates]
           /\ \A n \in Nodes : con'[n] = con[n] \/ (con[n] = "ok" /\ con'[n] = "broken")
           /\ view' \in [Nodes -> Nodes \cup {None}]
           /\ \E n \in Nodes : view'[n] = n
           /\ importing' \in Nodes \cup {None}
           /\ asking' \in SUBSET Nodes
           /\ alive' \in SUBSET Nodes
           /\ former' \in SUBSET Nodes
           /\ budget' \in ScenarioType
<1> USE DEF ctxVars
<1>0. /\ con \in [Nodes -> ConStates] /\ view \in [Nodes -> Nodes \cup {None}]
      /\ importing \in Nodes \cup {None} /\ asking \in SUBSET Nodes
      /\ alive \in SUBSET Nodes /\ former \in SUBSET Nodes /\ budget \in ScenarioType
      /\ \E n \in Nodes : view[n] = n
  BY TypeFacts
<1>1. Owner \in Nodes /\ view[Owner] = Owner
  BY <1>0 DEF Owner
<1>2. ASSUME NEW n \in Nodes, Owns(n)
      PROVE  /\ UNCHANGED <<ctxVars, locals, alive, budget, asking, sends, executions>>
             /\ view' \in [Nodes -> Nodes \cup {None}] /\ view'[n] = n
             /\ importing' = None /\ former' \in SUBSET Nodes
  BY <1>0, <1>1, <1>2 DEF Owns
<1>3. CASE Migrated
  <2>1. importing \in Nodes /\ Owns(importing)
    BY <1>0, <1>3 DEF Migrated
  <2> QED
    BY <1>0, <1>2, <2>1
<1>4. ASSUME NEW n \in Nodes, Importing(n)
      PROVE  /\ UNCHANGED <<ctxVars, locals, view, alive, former, asking, sends, executions>>
             /\ importing' = n /\ budget' \in ScenarioType
  BY <1>0, <1>4 DEF Importing, ScenarioType
<1>5. CASE \E n \in Nodes : Failover(n)
  BY <1>0, <1>2, <1>5 DEF Failover
<1>6. ASSUME NEW n \in Nodes, Hears(n)
      PROVE  /\ UNCHANGED <<ctxVars, locals, importing, alive, budget, former, asking,
                            sends, executions>>
             /\ view' \in [Nodes -> Nodes \cup {None}] /\ view'[Owner] = Owner
  BY <1>0, <1>1, <1>6 DEF Hears
<1>7. CASE \E n \in Nodes : Hears(n)
  BY <1>0, <1>1, <1>6, <1>7
<1>8. CASE \E n \in Nodes : Crash(n)
  <2> PICK n \in Nodes : Crash(n)
    BY <1>8
  <2>1. /\ UNCHANGED <<nodes, table, out, need_update_route, locals, view, importing,
                       former, sends, executions>>
        /\ alive' = alive \ {n} /\ asking' = asking \ {n}
    BY DEF Crash
  <2>2. budget' \in ScenarioType
    BY <1>0 DEF Crash, ScenarioType
  <2>3. con' = [con EXCEPT ![n] = IF @ = "ok" THEN "broken" ELSE @]
    BY DEF Crash
  <2>4. /\ con' \in [Nodes -> ConStates]
        /\ \A m \in Nodes : con'[m] = con[m] \/ (con[m] = "ok" /\ con'[m] = "broken")
    BY <1>0, <2>3 DEF ConStates
  <2> QED
    BY <1>0, <2>1, <2>2, <2>4
<1>9. CASE \E n \in Nodes : Restart(n)
  BY <1>0, <1>9 DEF Restart
<1> QED
  BY <1>0, <1>3, <1>4, <1>5, <1>7, <1>8, <1>9 DEF Cluster

\* The invariant after a step that leaves the cluster alone.
LEMMA Typed ==
    ASSUME StateTyped, UNCHANGED cluVars,
           nodes' \subseteq Nodes, table' \in nodes' \cup {None},
           con' \in [Nodes -> ConStates], out' \in [Nodes -> Seq(Requests)],
           need_update_route' \in BOOLEAN, retry_count' \in 0..MaxRetry + 1, pc' \in PCs,
           node' \in Nodes \cup {None}, c' \in Nodes \cup {None},
           c_updating_route' \in Nodes \cup {None}, asking' \in SUBSET Nodes,
           sends' \in Nat, executions' \in Nat
    PROVE  StateTyped'
<1>1. /\ importing' \in Nodes \cup {None} /\ alive' \in SUBSET Nodes
      /\ former' \in SUBSET Nodes /\ \E n \in Nodes : view'[n] = n
      /\ view' \in [Nodes -> Nodes \cup {None}] /\ budget' \in ScenarioType
  BY TypeFacts DEF cluVars
<1> QED
  BY <1>1 DEF StateTyped, TypeOK, Requests

\* A reply is read.
LEMMA AnswerRead ==
    ASSUME StateTyped, NEW n \in Nodes, NEW a, Answer(n, a)
    PROVE  /\ con[n] = "ok" /\ out[n] # <<>> /\ out[n] \in Seq(Requests)
           /\ Head(out[n]) \in Requests /\ a \in Answers(n, Head(out[n]))
           /\ asking' \in SUBSET Nodes
           /\ executions' = executions + (IF a = Own THEN 1 ELSE 0)
           /\ executions' \in Nat
<1>0. /\ out \in [Nodes -> Seq(Requests)] /\ asking \in SUBSET Nodes /\ executions \in Nat
  BY TypeFacts
<1>1. /\ con[n] = "ok" /\ out[n] # <<>> /\ a \in Answers(n, Head(out[n]))
      /\ asking' \in {asking \cup {n}, asking \ {n}, asking}
      /\ executions' = executions + (IF a = Own THEN 1 ELSE 0)
  BY DEF Answer
<1>2. out[n] \in Seq(Requests) /\ Head(out[n]) \in Requests
  BY <1>0, <1>1
<1>3. asking' \in SUBSET Nodes
  BY <1>0, <1>1
<1>4. executions' \in Nat
  BY <1>0, <1>1
<1> QED
  BY <1>1, <1>2, <1>3, <1>4

\* valkeyClusterGetValkeyContext makes the context of a node live, and leaves
\* the others.
LEMMA ContextUsed ==
    ASSUME StateTyped, NEW n \in Nodes, Using(n)
    PROVE  /\ con' \in [Nodes -> ConStates]
           /\ out' \in [Nodes -> Seq(Requests)]
           /\ con'[n] \in {"ok", "broken"}
           /\ \A m \in Nodes \ {n} : con'[m] = con[m] /\ out'[m] = out[m]
           /\ out'[n] = IF Live(n) THEN out[n] ELSE <<>>
<1>0. con \in [Nodes -> ConStates] /\ out \in [Nodes -> Seq(Requests)]
  BY TypeFacts
<1>1. con' = [con EXCEPT ![n] = IF @ = "broken" THEN @ ELSE "ok"]
  BY DEF Using
<1>2. out' = [out EXCEPT ![n] = IF Live(n) THEN @ ELSE <<>>]
  BY DEF Using, Live
<1>3. con' \in [Nodes -> ConStates]
  BY <1>0, <1>1 DEF ConStates
<1>4. out' \in [Nodes -> Seq(Requests)]
  BY <1>0, <1>2
<1>5. con'[n] \in {"ok", "broken"}
  BY <1>0, <1>1
<1> QED
  BY <1>0, <1>1, <1>2, <1>3, <1>4, <1>5

-----------------------------------------------------------------------------
(* Every step keeps the invariant. *)

\* A slot map update, from a place where none is underway or the call is over.
LEMMA UpdateKeeps ==
    ASSUME IInv, NEW good \in {"lookup", "reconnect", "dangling", "idle"},
           NEW bad \in {"done", "idle"},
           valkeyClusterUpdateSlotmap(good, bad),
           UNCHANGED <<retry_count, node, c, c_updating_route, asking, cluVars, sends,
                       executions>>,
           \/ c_updating_route = None /\ bad = "done"
              /\ sends <= retry_count /\ retry_count <= MaxRetry /\ good # "idle"
           \/ good = "idle" /\ bad = "idle" /\ retry_count = 0
    PROVE  IInv'
<1>0. StateTyped
  BY DEF IInv
<1>1. /\ nodes' \subseteq Nodes /\ table' \in nodes' \cup {None}
      /\ con' \in [Nodes -> ConStates] /\ out' \in [Nodes -> Seq(Requests)]
      /\ need_update_route' \in BOOLEAN /\ pc' \in {good, bad}
  BY <1>0, SlotMapUpdated
<1>2. pc' \in PCs
  BY <1>1 DEF PCs
<1>3. StateTyped'
  BY <1>0, <1>1, <1>2, Typed, TypeFacts
<1>4. HasContext'
  BY <1>1 DEF HasContext
<1>5. RouteKept'
  BY <1>1 DEF RouteKept
<1>6. SendsCounted'
  BY <1>0, <1>1, TypeFacts DEF IInv, SendsCounted
<1>7. UpdatingContextHeld'
  BY <1>1 DEF UpdatingContextHeld
<1> QED
  BY <1>3, <1>4, <1>5, <1>6, <1>7 DEF IInv

\* A call begins.
LEMMA StartKeeps ==
    ASSUME IInv, Start
    PROVE  IInv'
<1> USE DEF ctxVars, cluVars
<1>0. StateTyped
  BY DEF IInv
<1>1. StateTyped'
  BY <1>0, Typed, TypeFacts DEF Start, PCs
<1>2. HasContext' /\ RouteKept'
  BY DEF Start, HasContext, RouteKept
<1>3. SendsCounted'
  BY ClusterConstants DEF IInv, Start, SendsCounted
<1>4. UpdatingContextHeld'
  BY DEF Start, UpdatingContextHeld
<1> QED
  BY <1>1, <1>2, <1>3, <1>4 DEF IInv

\* The steps that look a node up, or read a slot map while nothing is underway.
LEMMA LookupsKeep ==
    ASSUME IInv, Retry \/ Lookup \/ Refresh \/ RefreshMoved \/ RefreshDone
    PROVE  IInv'
<1>0. StateTyped /\ HasContext /\ RouteKept /\ SendsCounted /\ UpdatingContextHeld
  BY DEF IInv
<1>1. CASE Retry
  <2>1. pc = "retry" /\ UNCHANGED <<localsBut, asking, cluVars, sends, executions>>
    BY <1>1 DEF Retry
  <2>2. CASE table # None
    <3>1. pc' = "connect" /\ UNCHANGED ctxVars
      BY <1>1, <2>2 DEF Retry
    <3>2. StateTyped'
      BY <1>0, <2>1, <3>1, Typed, TypeFacts DEF ctxVars, localsBut, PCs
    <3> QED
      BY <1>0, <2>1, <3>1, <3>2 DEF ctxVars, localsBut, IInv, HasContext, RouteKept, InUse,
         Live, SendsCounted, UpdatingContextHeld
  <2>3. CASE table = None
    <3>1. valkeyClusterUpdateSlotmap("lookup", "done")
      BY <1>1, <2>3 DEF Retry
    <3>2. c_updating_route = None
      BY <1>0, <2>1, <2>3, ClusterConstants DEF RouteKept, InUse
    <3>3. sends <= retry_count /\ retry_count <= MaxRetry
      BY <1>0, <2>1 DEF SendsCounted
    <3> QED
      BY <2>1, <3>1, <3>2, <3>3, UpdateKeeps DEF localsBut
  <2> QED
    BY <2>2, <2>3
<1>2. CASE Lookup
  <2>1. /\ pc = "lookup" /\ pc' \in {"connect", "done"}
        /\ UNCHANGED <<ctxVars, localsBut, asking, cluVars, sends, executions>>
    BY <1>2 DEF Lookup
  <2>2. StateTyped'
    BY <1>0, <2>1, Typed, TypeFacts DEF ctxVars, localsBut, PCs
  <2> QED
    BY <1>0, <2>1, <2>2 DEF ctxVars, localsBut, IInv, HasContext, RouteKept,
       SendsCounted, UpdatingContextHeld
<1>3. CASE Refresh
  <2>1. /\ pc = "refresh" /\ valkeyClusterUpdateSlotmap("reconnect", "done")
        /\ UNCHANGED <<localsBut, asking, cluVars, sends, executions>>
    BY <1>3 DEF Refresh
  <2>2. c_updating_route = None /\ sends <= retry_count /\ retry_count <= MaxRetry
    BY <1>0, <2>1 DEF RouteKept, SendsCounted
  <2> QED
    BY <2>1, <2>2, UpdateKeeps DEF localsBut
<1>4. CASE RefreshMoved
  <2>1. /\ pc = "refresh_moved" /\ valkeyClusterUpdateSlotmap("dangling", "done")
        /\ UNCHANGED <<localsBut, asking, cluVars, sends, executions>>
    BY <1>4 DEF RefreshMoved
  <2>2. c_updating_route = None /\ sends <= retry_count /\ retry_count <= MaxRetry
    BY <1>0, <2>1 DEF RouteKept, SendsCounted
  <2> QED
    BY <2>1, <2>2, UpdateKeeps DEF localsBut
<1>5. CASE RefreshDone
  <2>1. /\ pc = "refresh_done" /\ valkeyClusterUpdateSlotmap("idle", "idle")
        /\ UNCHANGED <<retry_count, node, c, c_updating_route, asking, cluVars, sends,
                       executions>>
    BY <1>5 DEF RefreshDone
  <2>2. retry_count = 0
    BY <1>0, <2>1 DEF SendsCounted
  <2> QED
    BY <2>1, <2>2, UpdateKeeps
<1> QED
  BY <1>1, <1>2, <1>3, <1>4, <1>5

\* Connect uses the context of the slot's node, or makes a detour.
LEMMA ConnectKeeps ==
    ASSUME IInv, Connect
    PROVE  IInv'
<1>0. StateTyped /\ HasContext /\ RouteKept /\ SendsCounted /\ UpdatingContextHeld
  BY DEF IInv
<1>1. /\ pc \in {"connect", "reconnect"}
      /\ UNCHANGED <<nodes, table, need_update_route, retry_count, node,
                     c_updating_route, reply, asking, cluVars, sends, executions>>
  BY DEF Connect
<1>2. CASE table # None /\ CanUse(table)
  <2>1. Using(table) /\ c' = table /\ pc' = "send"
    BY <1>2 DEF Connect
  <2>2. table \in Nodes
    BY <1>0, <1>2, TypeFacts
  <2>3. /\ con' \in [Nodes -> ConStates] /\ out' \in [Nodes -> Seq(Requests)]
        /\ con'[table] \in {"ok", "broken"} /\ \A m \in Nodes \ {table} : con'[m] = con[m]
    BY <1>0, <2>1, <2>2, ContextUsed
  <2>4. StateTyped'
    BY <1>0, <1>1, <2>1, <2>2, <2>3, Typed, TypeFacts DEF PCs
  <2>5. HasContext' /\ RouteKept'
    BY <1>1, <2>1, <2>2, <2>3 DEF HasContext, RouteKept, InUse, Live
  <2>6. SendsCounted'
    BY <1>0, <1>1, <2>1 DEF SendsCounted
  <2>7. UpdatingContextHeld'
    BY <1>0, <1>1, <2>1, <2>2, <2>3, TypeFacts DEF UpdatingContextHeld, Live, None
  <2> QED
    BY <2>4, <2>5, <2>6, <2>7 DEF IInv
<1>3. CASE ~(table # None /\ CanUse(table))
  <2>1. /\ pc' = IF pc = "connect" THEN "refresh" ELSE "done"
        /\ UNCHANGED <<con, out, c>>
    BY <1>3 DEF Connect, ConnectFails
  <2>2. pc = "connect" => c_updating_route = None
    BY <1>0, <1>3, ClusterConstants DEF RouteKept, InUse, CanUse, Live
  <2>3. StateTyped'
    BY <1>0, <1>1, <2>1, Typed, TypeFacts DEF PCs
  <2> QED
    BY <1>0, <1>1, <2>1, <2>2, <2>3 DEF IInv, HasContext, RouteKept, SendsCounted,
       UpdatingContextHeld
<1> QED
  BY <1>2, <1>3

\* Send puts the command, and perhaps a slot map query, on the wire.
LEMMA SendKeeps ==
    ASSUME IInv, Send
    PROVE  IInv'
<1>0. StateTyped /\ HasContext /\ RouteKept /\ SendsCounted /\ UpdatingContextHeld
  BY DEF IInv
<1>1. /\ pc = "send" /\ pc' = "reply"
      /\ UNCHANGED <<nodes, table, need_update_route, retry_count, node, c, reply,
                     asking, cluVars, executions>>
  BY DEF Send
<1>2. sends' = IF sends > MaxRetry + 1 THEN sends ELSE sends + 1
  BY DEF Send
<1>3. c \in Nodes /\ Live(c) /\ InUse(table)
  BY <1>0, <1>1 DEF HasContext, RouteKept, InUse
<1>4. sends \in Nat /\ sends <= retry_count /\ retry_count <= MaxRetry
      /\ retry_count \in Nat /\ MaxRetry \in Nat
  BY <1>0, <1>1, TypeFacts, ClusterConstants DEF SendsCounted
<1>5. SendsCounted' /\ sends' \in Nat
  BY <1>1, <1>2, <1>4 DEF SendsCounted
<1>6. con \in [Nodes -> ConStates] /\ out \in [Nodes -> Seq(Requests)]
      /\ c_updating_route \in Nodes \cup {None}
  BY <1>0, TypeFacts
<1>7. out[c] \o <<"cmd", "slots">> \in Seq(Requests) /\ Append(out[c], "cmd") \in Seq(Requests)
  BY <1>3, <1>6 DEF Requests
<1>8. \/ /\ out' \in [Nodes -> Seq(Requests)]
         /\ c_updating_route' \in {c, c_updating_route} /\ con' = con
      \/ /\ con' = [con EXCEPT ![c] = "err"]
         /\ UNCHANGED <<out, c_updating_route>>
  <2>1. CASE need_update_route /\ c_updating_route = None
    BY <1>6, <1>7, <2>1 DEF Send
  <2>2. CASE ~(need_update_route /\ c_updating_route = None)
    BY <1>6, <1>7, <2>2 DEF Send
  <2> QED
    BY <2>1, <2>2
<1>9. con' \in [Nodes -> ConStates] /\ out' \in [Nodes -> Seq(Requests)]
      /\ c_updating_route' \in Nodes \cup {None}
  BY <1>3, <1>6, <1>8 DEF ConStates
<1>10. StateTyped'
  BY <1>0, <1>1, <1>5, <1>9, Typed, TypeFacts DEF PCs
<1>11. HasContext'
  BY <1>1, <1>3 DEF HasContext
<1>12. RouteKept'
  BY <1>1, <1>3, <1>6, <1>8 DEF RouteKept, InUse, Live
<1>13. UpdatingContextHeld'
  BY <1>0, <1>1, <1>3, <1>6, <1>8 DEF UpdatingContextHeld, Live, None
<1> QED
  BY <1>5, <1>10, <1>11, <1>12, <1>13 DEF IInv

\* No reply can be read.
LEMMA ReplyFailsKeeps ==
    ASSUME IInv, ReplyFails
    PROVE  IInv'
<1>0. StateTyped /\ HasContext /\ RouteKept /\ SendsCounted /\ UpdatingContextHeld
  BY DEF IInv
<1>1. /\ pc = "reply" /\ pc' = "done" /\ con' = [con EXCEPT ![c] = "err"]
      /\ need_update_route' = TRUE /\ executions' \in {executions, executions + 1}
      /\ UNCHANGED <<nodes, table, out, localsBut, asking, cluVars, sends>>
  BY DEF ReplyFails
<1>2. con \in [Nodes -> ConStates] /\ executions \in Nat /\ c \in Nodes
      /\ c_updating_route \in Nodes \cup {None}
  BY <1>0, <1>1, TypeFacts DEF HasContext
<1>3. con' \in [Nodes -> ConStates] /\ executions' \in Nat
  BY <1>1, <1>2 DEF ConStates
<1>4. StateTyped'
  BY <1>0, <1>1, <1>3, Typed, TypeFacts DEF PCs, localsBut
<1>5. HasContext' /\ RouteKept' /\ SendsCounted'
  BY <1>0, <1>1 DEF HasContext, RouteKept, SendsCounted, localsBut
<1>6. UpdatingContextHeld'
  BY <1>0, <1>1, <1>2 DEF UpdatingContextHeld, None, localsBut
<1> QED
  BY <1>4, <1>5, <1>6 DEF IInv

\* What the call does with a reply: it is done, or retries, or is redirected.
LEMMA ReplyTaken ==
    ASSUME StateTyped, NEW a, Reply(a), c \in Nodes
    PROVE  /\ pc = "reply" /\ Answer(c, a)
           /\ out' = [out EXCEPT ![c] = Tail(@)]
           /\ UNCHANGED <<con, need_update_route, c, c_updating_route, cluVars, sends>>
           /\ \/ /\ reply' = a /\ pc' = "done"
                 /\ a.t \notin {"MOVED", "ASK"} \cup RetryErrors
                 /\ UNCHANGED <<nodes, table, retry_count, node>>
              \/ /\ pc' = "done" /\ retry_count' = retry_count + 1
                 /\ UNCHANGED <<nodes, table, node, reply>>
                 /\ a.t \in {"MOVED", "ASK"} \cup RetryErrors
              \/ /\ retry_count' = retry_count + 1 /\ retry_count + 1 <= MaxRetry
                 /\ UNCHANGED reply
                 /\ \/ /\ a.t = "MOVED" /\ a = Moved(a.to) /\ a.to \in Nodes
                       /\ nodes' = nodes \cup {a.to} /\ table' = a.to /\ node' = a.to
                       /\ pc' = "moved"
                    \/ /\ a.t = "ASK" /\ a = Ask(a.to) /\ a.to \in Nodes
                       /\ nodes' = nodes \cup {a.to} /\ node' = a.to /\ table' = table
                       /\ pc' = "ask"
                    \/ /\ a.t \in RetryErrors /\ pc' = "retry"
                       /\ UNCHANGED <<nodes, table, node>>
<1>1. /\ pc = "reply" /\ Answer(c, a) /\ out' = [out EXCEPT ![c] = Tail(@)]
      /\ UNCHANGED <<con, need_update_route, c, c_updating_route, cluVars, sends>>
  BY DEF Reply
<1>2. CASE a.t \notin {"MOVED", "ASK"} \cup RetryErrors
  BY <1>1, <1>2 DEF Reply
<1>3. CASE a.t \in {"MOVED", "ASK"} \cup RetryErrors
  <2>1. retry_count' = retry_count + 1 /\ UNCHANGED reply
    BY <1>3 DEF Reply, RetryCounted
  <2>2. CASE TooManyRetries
    BY <1>1, <1>3, <2>1, <2>2 DEF Reply
  <2>3. CASE ~TooManyRetries
    <3>1. retry_count + 1 <= MaxRetry
      BY <2>3, TypeFacts, ClusterConstants DEF TooManyRetries, RetryCounted
    <3>2. Head(out[c]) \in Requests /\ a \in Answers(c, Head(out[c]))
      BY <1>1, AnswerRead
    <3>3. \/ a = SlotMap(view[c]) \/ a = OK \/ a = Own
          \/ \E e \in RetryErrors : a = Error(e)
          \/ \E i \in Nodes : a = Ask(i)
          \/ \E i \in Nodes : a = Moved(i)
      BY <3>2, AnswerKinds
    <3>4. a.t = "MOVED" => a = Moved(a.to) /\ a.to \in Nodes
      BY <3>3, ReplyTypes DEF RetryErrors
    <3>5. a.t = "ASK" => a = Ask(a.to) /\ a.to \in Nodes
      BY <3>3, ReplyTypes DEF RetryErrors
    <3>6. CASE a.t = "MOVED"
      BY <1>1, <1>3, <2>1, <2>3, <3>1, <3>4, <3>6 DEF Reply
    <3>7. CASE a.t = "ASK"
      BY <1>1, <1>3, <2>1, <2>3, <3>1, <3>5, <3>7 DEF Reply
    <3>8. CASE a.t \in RetryErrors
      BY <1>1, <1>3, <2>1, <2>3, <3>1, <3>8 DEF Reply, RetryErrors
    <3> QED
      BY <1>3, <3>6, <3>7, <3>8
  <2> QED
    BY <2>2, <2>3
<1> QED
  BY <1>2, <1>3

\* A reply is read and classified.
LEMMA ReplyKeeps ==
    ASSUME IInv, NEW a, Reply(a)
    PROVE  IInv'
<1>0. StateTyped /\ HasContext /\ RouteKept /\ SendsCounted /\ UpdatingContextHeld
  BY DEF IInv
<1>1. pc = "reply" /\ c \in Nodes
  BY <1>0 DEF Reply, HasContext
<1>2. /\ con[c] = "ok" /\ out[c] # <<>> /\ out[c] \in Seq(Requests)
      /\ asking' \in SUBSET Nodes /\ executions' \in Nat
  BY <1>0, <1>1, AnswerRead DEF Reply
<1>3. /\ out' = [out EXCEPT ![c] = Tail(@)]
      /\ UNCHANGED <<con, need_update_route, c, c_updating_route, cluVars, sends>>
  BY DEF Reply
<1>4. InUse(table) /\ Live(c)
  BY <1>0, <1>1, <1>2 DEF RouteKept, Live
<1>5. /\ nodes \subseteq Nodes /\ table \in nodes \cup {None} /\ sends \in Nat
      /\ out \in [Nodes -> Seq(Requests)] /\ retry_count \in 0..MaxRetry + 1
      /\ MaxRetry \in Nat /\ node \in Nodes \cup {None}
  BY <1>0, TypeFacts, ClusterConstants
<1>6. sends <= retry_count + 1 /\ retry_count <= MaxRetry /\ sends <= MaxRetry + 1
  BY <1>0, <1>1 DEF SendsCounted
<1>7. out' \in [Nodes -> Seq(Requests)]
  BY <1>1, <1>2, <1>3, <1>5
<1>8. \/ /\ pc' = "done" /\ retry_count' \in {retry_count, retry_count + 1}
         /\ UNCHANGED <<nodes, table, node>>
      \/ /\ pc' = "moved" /\ retry_count' = retry_count + 1 /\ retry_count + 1 <= MaxRetry
         /\ node' \in Nodes /\ table' = node' /\ nodes' = nodes \cup {node'}
      \/ /\ pc' = "ask" /\ retry_count' = retry_count + 1 /\ retry_count + 1 <= MaxRetry
         /\ node' \in Nodes /\ table' = table /\ nodes' = nodes \cup {node'}
      \/ /\ pc' = "retry" /\ retry_count' = retry_count + 1 /\ retry_count + 1 <= MaxRetry
         /\ UNCHANGED <<nodes, table, node>>
  BY <1>0, <1>1, ReplyTaken
<1>9. nodes' \subseteq Nodes /\ table' \in nodes' \cup {None} /\ node' \in Nodes \cup {None}
  BY <1>5, <1>8
<1>10. retry_count' \in 0..MaxRetry + 1 /\ pc' \in PCs
  BY <1>5, <1>6, <1>8 DEF PCs
<1>11. StateTyped'
  BY <1>0, <1>2, <1>3, <1>7, <1>9, <1>10, Typed, TypeFacts
<1>12. HasContext'
  BY <1>1, <1>3, <1>4, <1>8 DEF HasContext, InUse, Live
<1>13. RouteKept'
  BY <1>3, <1>4, <1>8 DEF RouteKept, InUse, Live
<1>14. SendsCounted'
  BY <1>3, <1>5, <1>6, <1>8 DEF SendsCounted
<1>15. UpdatingContextHeld'
  BY <1>0, <1>1, <1>3 DEF UpdatingContextHeld
<1> QED
  BY <1>11, <1>12, <1>13, <1>14, <1>15 DEF IInv

\* After MOVED a slot map query goes out unless one is underway.
LEMMA MovedUpdateKeeps ==
    ASSUME IInv, MovedUpdate
    PROVE  IInv'
<1>0. StateTyped /\ HasContext /\ RouteKept /\ SendsCounted /\ UpdatingContextHeld
  BY DEF IInv
<1>1. /\ pc = "moved"
      /\ UNCHANGED <<nodes, table, need_update_route, retry_count, node, c, reply,
                     asking, cluVars, sends, executions>>
  BY DEF MovedUpdate
<1>2. c \in Nodes /\ Live(c) /\ node \in Nodes /\ node = table
  BY <1>0, <1>1 DEF HasContext, RouteKept, InUse
<1>3. con \in [Nodes -> ConStates] /\ out \in [Nodes -> Seq(Requests)]
      /\ c_updating_route \in Nodes \cup {None}
  BY <1>0, TypeFacts
<1>4. \/ pc' = "redirect" /\ UNCHANGED <<con, out, c_updating_route>>
      \/ /\ out' = [out EXCEPT ![c] = Append(@, "slots")]
         /\ c_updating_route' = c /\ pc' = "redirect" /\ UNCHANGED con
      \/ /\ c_updating_route = None /\ con' = [con EXCEPT ![c] = "err"]
         /\ pc' = "refresh_moved" /\ UNCHANGED <<out, c_updating_route>>
  BY DEF MovedUpdate
<1>5. Append(out[c], "slots") \in Seq(Requests)
  BY <1>2, <1>3 DEF Requests
<1>6. con' \in [Nodes -> ConStates] /\ out' \in [Nodes -> Seq(Requests)]
      /\ c_updating_route' \in Nodes \cup {None} /\ pc' \in PCs
  BY <1>2, <1>3, <1>4, <1>5 DEF ConStates, PCs
<1>7. StateTyped'
  BY <1>0, <1>1, <1>6, Typed, TypeFacts
<1>8. HasContext' /\ RouteKept'
  BY <1>1, <1>2, <1>4 DEF HasContext, RouteKept
<1>9. SendsCounted'
  BY <1>0, <1>1, <1>4 DEF SendsCounted
<1>10. UpdatingContextHeld'
  BY <1>0, <1>1, <1>2, <1>4 DEF UpdatingContextHeld, Live, None
<1> QED
  BY <1>7, <1>8, <1>9, <1>10 DEF IInv

\* A redirection is followed like a use of the node's context, with ASKING behind
\* what is unread on it.
LEMMA RedirectFollowed ==
    ASSUME StateTyped, Redirect, CanUse(node), node \in Nodes
    PROVE  /\ con' \in [Nodes -> ConStates]
           /\ out' \in [Nodes -> Seq(Requests)]
           /\ con'[node] \in {"ok", "broken"} /\ (~Live(node) => con'[node] = "ok")
           /\ \A m \in Nodes \ {node} : con'[m] = con[m] /\ out'[m] = out[m]
           /\ pc = "ask" =>
                out'[node] = Append(IF Live(node) THEN out[node] ELSE <<>>, "asking")
           /\ pc # "ask" => out'[node] = IF Live(node) THEN out[node] ELSE <<>>
           /\ (pc = "ask" /\ pc' = "asking") \/ (pc = "redirect" /\ pc' = "send")
           /\ c' = node
<1> DEFINE kept == IF Live(node) THEN out[node] ELSE <<>>
<1>0. con \in [Nodes -> ConStates] /\ out \in [Nodes -> Seq(Requests)]
  BY TypeFacts
<1>1. /\ con' = [con EXCEPT ![node] = IF @ = "broken" THEN @ ELSE "ok"]
      /\ out' = [out EXCEPT ![node] = IF pc = "ask" THEN Append(kept, "asking") ELSE kept]
      /\ (pc = "ask" /\ pc' = "asking") \/ (pc = "redirect" /\ pc' = "send")
      /\ c' = node
  BY DEF Redirect, Live
<1>2. kept \in Seq(Requests)
  BY <1>0
<1> HIDE DEF kept
<1>3. Append(kept, "asking") \in Seq(Requests)
  BY <1>2 DEF Requests
<1>4. out' \in [Nodes -> Seq(Requests)]
  BY <1>0, <1>1, <1>2, <1>3
<1>5. /\ con' \in [Nodes -> ConStates] /\ con'[node] \in {"ok", "broken"}
      /\ ~Live(node) => con'[node] = "ok"
  BY <1>0, <1>1 DEF ConStates, Live
<1>6. \A m \in Nodes \ {node} : con'[m] = con[m] /\ out'[m] = out[m]
  BY <1>0, <1>1
<1>7. pc = "ask" => out'[node] = Append(kept, "asking")
  BY <1>0, <1>1
<1>8. pc # "ask" => out'[node] = kept
  BY <1>0, <1>1
<1>9. c' = node /\ ((pc = "ask" /\ pc' = "asking") \/ (pc = "redirect" /\ pc' = "send"))
  BY <1>1
<1> USE DEF kept
<1> QED
  BY ONLY <1>4, <1>5, <1>6, <1>7, <1>8, <1>9

\* The call follows a redirection.
LEMMA RedirectKeeps ==
    ASSUME IInv, Redirect
    PROVE  IInv'
<1>0. StateTyped /\ HasContext /\ RouteKept /\ SendsCounted /\ UpdatingContextHeld
  BY DEF IInv
<1>1. /\ pc \in {"redirect", "ask"}
      /\ UNCHANGED <<nodes, table, need_update_route, retry_count, node,
                     c_updating_route, reply, asking, cluVars, sends, executions>>
  BY DEF Redirect
<1>2. node \in Nodes /\ (pc = "redirect" => node = table) /\ (pc = "ask" => InUse(table))
  BY <1>0, <1>1 DEF HasContext, RouteKept
<1>3. CASE CanUse(node)
  <2>1. /\ con' \in [Nodes -> ConStates] /\ out' \in [Nodes -> Seq(Requests)]
        /\ con'[node] \in {"ok", "broken"}
        /\ \A m \in Nodes \ {node} : con'[m] = con[m]
        /\ (pc = "ask" /\ pc' = "asking") \/ (pc = "redirect" /\ pc' = "send")
        /\ c' = node
    BY <1>0, <1>2, <1>3, RedirectFollowed
  <2>2. StateTyped'
    BY <1>0, <1>1, <1>2, <2>1, Typed, TypeFacts DEF PCs
  <2>3. HasContext' /\ RouteKept'
    BY <1>1, <1>2, <2>1 DEF HasContext, RouteKept, InUse, Live
  <2>4. SendsCounted'
    BY <1>0, <1>1, <2>1 DEF SendsCounted
  <2>5. UpdatingContextHeld'
    BY <1>0, <1>1, <1>2, <2>1, TypeFacts DEF UpdatingContextHeld, None
  <2> QED
    BY <2>2, <2>3, <2>4, <2>5 DEF IInv
<1>4. CASE ~CanUse(node)
  <2>1. pc' = "done" /\ UNCHANGED <<con, out, c>>
    BY <1>4 DEF Redirect, RedirectFails
  <2>2. StateTyped'
    BY <1>0, <1>1, <2>1, Typed, TypeFacts DEF PCs
  <2> QED
    BY <1>0, <1>1, <2>1, <2>2 DEF IInv, HasContext, RouteKept, SendsCounted,
       UpdatingContextHeld
<1> QED
  BY <1>3, <1>4

\* The reply to ASKING is read, or not.
LEMMA AskingKeeps ==
    ASSUME IInv, Asking
    PROVE  IInv'
<1>0. StateTyped /\ HasContext /\ RouteKept /\ SendsCounted /\ UpdatingContextHeld
  BY DEF IInv
<1>1. pc = "asking" /\ UNCHANGED <<nodes, table, need_update_route, localsBut, cluVars, sends>>
  BY DEF Asking
<1>2. c \in Nodes /\ InUse(table)
  BY <1>0, <1>1 DEF HasContext, RouteKept
<1>3. con \in [Nodes -> ConStates] /\ out \in [Nodes -> Seq(Requests)]
      /\ c_updating_route \in Nodes \cup {None} /\ asking \in SUBSET Nodes
      /\ executions \in Nat
  BY <1>0, TypeFacts
<1>4. CASE /\ con[c] = "ok"
           /\ \E a \in Answers(c, Head(out[c])) : Answer(c, a)
           /\ out' = [out EXCEPT ![c] = Tail(@)]
           /\ pc' = "send"
           /\ UNCHANGED con
  <2> PICK a \in Answers(c, Head(out[c])) : Answer(c, a)
    BY <1>4
  <2>1. /\ out[c] # <<>> /\ out[c] \in Seq(Requests)
        /\ asking' \in SUBSET Nodes /\ executions' \in Nat
    BY <1>0, <1>2, AnswerRead
  <2>2. out' \in [Nodes -> Seq(Requests)]
    BY <1>2, <1>3, <1>4, <2>1
  <2>3. StateTyped'
    BY <1>0, <1>1, <1>4, <2>1, <2>2, Typed, TypeFacts DEF PCs, localsBut
  <2>4. HasContext' /\ RouteKept'
    BY <1>1, <1>2, <1>4 DEF HasContext, RouteKept, InUse, Live, localsBut
  <2>5. SendsCounted' /\ UpdatingContextHeld'
    BY <1>0, <1>1, <1>4 DEF SendsCounted, UpdatingContextHeld, localsBut
  <2> QED
    BY <2>3, <2>4, <2>5 DEF IInv
<1>5. CASE /\ con' = [con EXCEPT ![c] = "err"]
           /\ pc' = "done"
           /\ UNCHANGED <<out, asking, executions>>
  <2>1. con' \in [Nodes -> ConStates]
    BY <1>2, <1>3, <1>5 DEF ConStates
  <2>2. StateTyped'
    BY <1>0, <1>1, <1>3, <1>5, <2>1, Typed, TypeFacts DEF PCs, localsBut
  <2>3. HasContext' /\ RouteKept' /\ SendsCounted'
    BY <1>0, <1>1, <1>5 DEF HasContext, RouteKept, SendsCounted, localsBut
  <2>4. UpdatingContextHeld'
    BY <1>0, <1>1, <1>2, <1>3, <1>5 DEF UpdatingContextHeld, None, localsBut
  <2> QED
    BY <2>2, <2>3, <2>4 DEF IInv
<1> QED
  BY <1>4, <1>5 DEF Asking

\* The slot map that is underway is read when the call is done.
LEMMA DoneKeeps ==
    ASSUME IInv, Done
    PROVE  IInv'
<1>0. StateTyped /\ HasContext /\ RouteKept /\ SendsCounted /\ UpdatingContextHeld
  BY DEF IInv
<1>1. /\ pc = "done" /\ retry_count' = 0
      /\ UNCHANGED <<node, c, c_updating_route, cluVars, sends>>
  BY DEF Done
<1>2. pc' \in {"idle", "refresh_done"}
  BY DEF Done
<1>3. con \in [Nodes -> ConStates] /\ out \in [Nodes -> Seq(Requests)]
      /\ c_updating_route \in Nodes \cup {None} /\ view \in [Nodes -> Nodes \cup {None}]
  BY <1>0, TypeFacts
<1> DEFINE ContextTyped ==
      /\ nodes' \subseteq Nodes /\ table' \in nodes' \cup {None}
      /\ con' \in [Nodes -> ConStates] /\ out' \in [Nodes -> Seq(Requests)]
      /\ need_update_route' \in BOOLEAN /\ asking' \in SUBSET Nodes /\ executions' \in Nat
<1>4. ContextTyped
  <2>1. CASE UNCHANGED <<ctxVars, reply, asking, executions>>
    BY <1>0, <2>1, TypeFacts DEF ctxVars
  <2>2. ASSUME c_updating_route # None,
               NEW a \in Answers(c_updating_route, Head(out[c_updating_route])),
               Answer(c_updating_route, a),
               LET rest == [out EXCEPT ![c_updating_route] = Tail(@)] IN
                  IF a.t = "slotmap"
                  THEN updateNodesAndSlotmap(a.owner, con, rest)
                  ELSE /\ out' = rest
                       /\ UNCHANGED <<nodes, table, con, need_update_route>>
        PROVE  ContextTyped
    <3> DEFINE rest == [out EXCEPT ![c_updating_route] = Tail(@)]
    <3>1. c_updating_route \in Nodes
      BY <1>3, <2>2
    <3>2. /\ out[c_updating_route] # <<>> /\ out[c_updating_route] \in Seq(Requests)
          /\ Head(out[c_updating_route]) \in Requests
          /\ asking' \in SUBSET Nodes /\ executions' \in Nat
      BY <1>0, <2>2, <3>1, AnswerRead
    <3>3. rest \in [Nodes -> Seq(Requests)]
      BY <1>3, <3>1, <3>2
    <3>4. a.t = "slotmap" => a.owner \in Nodes \cup {None}
      <4>1. view[c_updating_route] \in Nodes \cup {None}
        BY <1>3, <3>1
      <4>2. \/ a = SlotMap(view[c_updating_route]) \/ a = OK \/ a = Own
            \/ \E e \in RetryErrors : a = Error(e)
            \/ \E i \in Nodes : a = Ask(i)
            \/ \E i \in Nodes : a = Moved(i)
        BY <1>0, <2>2, <3>1, <3>2, AnswerKinds
      <4> QED
        BY <4>1, <4>2, ReplyTypes DEF RetryErrors
    <3> HIDE DEF rest
    <3>5. CASE a.t = "slotmap"
      <4>1. updateNodesAndSlotmap(a.owner, con, rest)
        BY <2>2, <3>5 DEF rest
      <4> QED
        BY <1>3, <3>2, <3>3, <3>4, <3>5, <4>1, SlotMapApplied
    <3>6. CASE a.t # "slotmap"
      <4>1. out' = rest /\ UNCHANGED <<nodes, table, con, need_update_route>>
        BY <2>2, <3>6 DEF rest
      <4> QED
        BY <1>0, <3>2, <3>3, <4>1, TypeFacts
    <3> QED
      BY <3>5, <3>6
  <2>3. CASE /\ c_updating_route # None
             /\ con' = [con EXCEPT ![c_updating_route] = "err"]
             /\ UNCHANGED <<nodes, table, out, need_update_route, reply, asking, executions>>
    <3>1. con' \in [Nodes -> ConStates]
      BY <1>3, <2>3 DEF ConStates
    <3> QED
      BY <1>0, <2>3, <3>1, TypeFacts
  <2> QED
    BY <2>1, <2>2, <2>3 DEF Done
<1>5. StateTyped'
  BY <1>0, <1>1, <1>2, <1>4, Typed, TypeFacts, ClusterConstants, SMTT(30) DEF PCs
<1>6. HasContext' /\ RouteKept' /\ UpdatingContextHeld'
  BY <1>2 DEF HasContext, RouteKept, UpdatingContextHeld
<1>7. SendsCounted'
  BY <1>0, <1>1, <1>2 DEF SendsCounted
<1> QED
  BY <1>5, <1>6, <1>7 DEF IInv

\* The steps of the cluster leave the client alone.
LEMMA ClusterKeeps ==
    ASSUME IInv, Cluster
    PROVE  IInv'
<1>0. StateTyped /\ HasContext /\ RouteKept /\ SendsCounted /\ UpdatingContextHeld
  BY DEF IInv
<1>1. /\ UNCHANGED <<nodes, table, out, need_update_route, retry_count, pc, node, c,
                     c_updating_route, reply, sends, executions>>
      /\ con' \in [Nodes -> ConStates]
      /\ \A n \in Nodes : con'[n] = con[n] \/ (con[n] = "ok" /\ con'[n] = "broken")
      /\ view' \in [Nodes -> Nodes \cup {None}]
      /\ \E n \in Nodes : view'[n] = n
      /\ importing' \in Nodes \cup {None}
      /\ asking' \in SUBSET Nodes
      /\ alive' \in SUBSET Nodes
      /\ former' \in SUBSET Nodes
      /\ budget' \in ScenarioType
  BY <1>0, ClusterSteps DEF locals
<1>2. StateTyped'
  <2>1. /\ nodes' \subseteq Nodes /\ table' \in nodes' \cup {None}
        /\ out' \in [Nodes -> Seq(Requests)] /\ need_update_route' \in BOOLEAN
        /\ retry_count' \in 0..MaxRetry + 1 /\ pc' \in PCs
        /\ node' \in Nodes \cup {None} /\ c' \in Nodes \cup {None}
        /\ c_updating_route' \in Nodes \cup {None} /\ sends' \in Nat /\ executions' \in Nat
    BY <1>0, <1>1, TypeFacts
  <2> QED
    BY <1>1, <2>1 DEF StateTyped, TypeOK, Requests
<1>3. \A n \in Nodes : Live(n) => con'[n] \in {"ok", "broken"}
  BY <1>1 DEF Live
<1>4. HasContext'
  BY <1>0, <1>1, <1>3 DEF HasContext, InUse, Live
<1>5. pc = "reply" => c \in Nodes
  BY <1>0 DEF HasContext
<1>6. RouteKept'
  BY <1>0, <1>1, <1>3, <1>5 DEF RouteKept, InUse, Live
<1>7. SendsCounted'
  BY <1>0, <1>1 DEF SendsCounted
<1>8. UpdatingContextHeld'
  BY <1>0, <1>1, TypeFacts DEF UpdatingContextHeld, None
<1> QED
  BY <1>2, <1>4, <1>6, <1>7, <1>8 DEF IInv

\* The invariant holds in the beginning.
LEMMA InitInvariant ==
    ASSUME Init
    PROVE  IInv
<1>0. PICK n \in Nodes :
         /\ view \in {[m \in Nodes |-> n], [m \in Nodes |-> IF m = n THEN n ELSE None]}
         /\ former = {n}
         /\ \/ \E m \in Keepers :
                  /\ table = view[m]
                  /\ nodes = ({view[m]} \ {None}) \cup Keepers
                  /\ con = [k \in Nodes |-> IF k = m THEN "ok" ELSE None]
            \/ /\ table = None
               /\ nodes = Keepers
               /\ con = [m \in Nodes |-> None]
  BY DEF Init
<1>1. /\ out = [m \in Nodes |-> <<>>] /\ need_update_route = FALSE /\ retry_count = 0
      /\ pc = "idle" /\ node = None /\ c = None /\ c_updating_route = None
      /\ importing = None /\ asking = {} /\ alive = Nodes /\ budget \in Scenarios
      /\ sends = 0 /\ executions = 0
  BY DEF Init
<1>2. view \in [Nodes -> Nodes \cup {None}] /\ view[n] = n
  BY <1>0
<1>3. nodes \subseteq Nodes /\ table \in nodes \cup {None} /\ con \in [Nodes -> ConStates]
  BY <1>0, <1>2, ClusterConstants DEF ConStates
<1>4. out \in [Nodes -> Seq(Requests)]
  BY <1>1
<1>5. budget \in ScenarioType /\ MaxRetry \in Nat
  BY <1>1, ClusterConstants
<1>6. StateTyped
  <2>0. retry_count \in 0..MaxRetry + 1
    BY ONLY <1>1, <1>5
  <2>1. /\ need_update_route \in BOOLEAN /\ pc \in PCs
        /\ {node, c, c_updating_route} \subseteq Nodes \cup {None}
        /\ importing \in Nodes \cup {None} /\ sends \in Nat /\ executions \in Nat
    BY ONLY <1>1 DEF PCs
  <2>2. {asking, alive, former} \subseteq SUBSET Nodes
    BY <1>0, <1>1
  <2>3. \E m \in Nodes : view[m] = m
    BY <1>2
  <2> QED
    BY <1>2, <1>3, <1>4, <1>5, <2>0, <2>1, <2>2, <2>3 DEF StateTyped, TypeOK, Requests
<1> QED
  BY <1>1, <1>5, <1>6 DEF IInv, HasContext, RouteKept, SendsCounted, UpdatingContextHeld

\* Every step keeps the invariant.
LEMMA StepInvariant ==
    ASSUME IInv, [Next]_vars
    PROVE  IInv'
<1>1. CASE Execute
  <2>1. CASE \E a \in Answers(c, Head(out[c])) : Reply(a)
    BY <2>1, ReplyKeeps
  <2> QED
    BY <1>1, <2>1, LookupsKeep, ConnectKeeps, SendKeeps, ReplyFailsKeeps, MovedUpdateKeeps,
       RedirectKeeps, AskingKeeps, DoneKeeps DEF Execute
<1>2. CASE UNCHANGED vars
  <2>0. UNCHANGED <<nodes, table, con, out, need_update_route, retry_count, pc, node, c,
                    c_updating_route, asking, cluVars, sends, executions>>
    BY <1>2 DEF vars, ctxVars, locals
  <2>1. StateTyped'
    BY <2>0, TypeFacts, Typed DEF IInv
  <2>2. HasContext' /\ RouteKept'
    BY <2>0 DEF IInv, HasContext, RouteKept, InUse, Live
  <2>3. SendsCounted' /\ UpdatingContextHeld'
    BY <2>0 DEF IInv, SendsCounted, UpdatingContextHeld
  <2> QED
    BY <2>1, <2>2, <2>3 DEF IInv
<1> QED
  BY <1>1, <1>2, StartKeeps, ClusterKeeps DEF Next

\* The invariant of the call and its routes.
THEOREM CallInvariant == Spec => []IInv
<1>1. Init => IInv
  BY InitInvariant
<1>2. IInv /\ [Next]_vars => IInv'
  BY StepInvariant
<1> QED
  BY <1>1, <1>2, PTL DEF Spec

\* The context whose slot map is underway is held until the call is done,
\* whatever slot maps are read meanwhile: c_updating_route never dangles
\* (valkey_cluster_command_execute).
THEOREM ContextHeld == Spec => []UpdatingContextHeld
<1>1. IInv => UpdatingContextHeld
  BY DEF IInv
<1> QED
  BY <1>1, CallInvariant, PTL

\* A call sends its command at most max_retry_count + 1 times, whatever the
\* nodes answer.
THEOREM SendsBounded == Spec => []BoundedSends
<1>1. IInv => BoundedSends
  BY DEF IInv, SendsCounted, BoundedSends
<1> QED
  BY <1>1, CallInvariant, PTL

-----------------------------------------------------------------------------
(* Requests and replies in step. *)

\* The call does not send over a live connection on which its slot map query is
\* still unread.  It does when a redirection leads back to the node that was
\* asked, or when a command with the query behind it is answered TRYAGAIN; the
\* query's reply is then taken for the command's.
StaysAway == ~(pc \in {"asking", "send"} /\ c = c_updating_route /\ con[c] = "ok")

\* All that may be unread on a connection between the requests of a call.
Unread(n) == IF n = c_updating_route THEN <<"slots">> ELSE <<>>
Waiting == {"asking", "reply"}
Over == {"idle", "refresh_done"}

\* On every live connection just the requests are unread that the call will read.
InStep ==
    /\ reply \in {Own, Nothing}
    /\ pc \in Over => \A n \in Nodes : Live(n) => out[n] = <<>>
    /\ pc \notin Over \cup Waiting => \A n \in Nodes : Live(n) => out[n] = Unread(n)
    /\ pc \in Waiting => \A n \in Nodes \ {c} : Live(n) => out[n] = Unread(n)
    /\ pc = "asking" /\ con[c] = "ok" => out[c] = <<"asking">>
    /\ pc = "reply" /\ con[c] = "ok" =>
         out[c] = IF c = c_updating_route THEN <<"cmd", "slots">> ELSE <<"cmd">>
    /\ executions <= 1
    /\ pc \notin Over \cup {"done"} => executions = 0

\* What happens to the few requests that are unread at a time.
LEMMA ShortQueues ==
    /\ Append(<<>>, "cmd") = <<"cmd">>
    /\ Append(<<>>, "slots") = <<"slots">>
    /\ Append(<<>>, "asking") = <<"asking">>
    /\ <<>> \o <<"cmd", "slots">> = <<"cmd", "slots">>
    /\ Head(<<"cmd">>) = "cmd" /\ Tail(<<"cmd">>) = <<>>
    /\ Head(<<"slots">>) = "slots" /\ Tail(<<"slots">>) = <<>>
    /\ Head(<<"asking">>) = "asking" /\ Tail(<<"asking">>) = <<>>
    /\ Head(<<"cmd", "slots">>) = "cmd" /\ Tail(<<"cmd", "slots">>) = <<"slots">>
OBVIOUS

\* A slot map update with nothing unread leaves nothing unread.
LEMMA UpdateInStep ==
    ASSUME StateTyped, InStep, NEW good, NEW bad, valkeyClusterUpdateSlotmap(good, bad),
           \A n \in Nodes : Live(n) => out[n] = <<>>,
           \/ c_updating_route' = None
           \/ good \in Over /\ bad \in Over,
           good \notin Waiting, bad \notin Waiting,
           reply' \in {Own, Nothing}, executions' = executions,
           (good \in Over \cup {"done"} /\ bad \in Over \cup {"done"}) \/ executions = 0
    PROVE  InStep'
<1>1. pc' \in {good, bad} /\ \A n \in Nodes : Live(n)' => out'[n] = <<>>
  BY SlotMapUpdated
<1>2. executions <= 1
  BY DEF InStep
<1>3. c_updating_route' = None => \A n \in Nodes : Unread(n)' = <<>>
  BY ClusterConstants DEF Unread
<1>4. pc' \notin Waiting /\ (pc' \in Over \/ c_updating_route' = None)
  BY <1>1
<1>5. pc' \in Over \cup {"done"} \/ executions = 0
  BY <1>1
<1> QED
  BY <1>1, <1>2, <1>3, <1>4, <1>5 DEF InStep, Waiting

\* Slot maps that are read in the call are asked for on connections with nothing unread.
LEMMA LookupsInStep ==
    ASSUME IInv, InStep, Retry \/ Lookup \/ Refresh \/ RefreshMoved \/ RefreshDone
    PROVE  InStep'
<1>0. StateTyped /\ HasContext /\ RouteKept
  BY DEF IInv
<1>1. ASSUME c_updating_route = None, pc \notin Over \cup Waiting
      PROVE  \A n \in Nodes : Live(n) => out[n] = <<>>
  BY <1>1, ClusterConstants DEF InStep, Unread
<1>2. CASE Retry
  <2>1. pc = "retry" /\ UNCHANGED <<localsBut, asking, cluVars, sends, executions>>
    BY <1>2 DEF Retry
  <2>2. CASE table # None
    <3>1. pc' = "connect" /\ UNCHANGED ctxVars
      BY <1>2, <2>2 DEF Retry
    <3> QED
      BY <2>1, <3>1 DEF ctxVars, localsBut, InStep, Over, Waiting, Live, Unread
  <2>3. CASE table = None
    <3>1. valkeyClusterUpdateSlotmap("lookup", "done")
      BY <1>2, <2>3 DEF Retry
    <3>2. c_updating_route = None
      BY <1>0, <2>1, <2>3, ClusterConstants DEF RouteKept, InUse
    <3>3. reply \in {Own, Nothing} /\ executions = 0
      BY <2>1 DEF InStep, Over
    <3> QED
      BY <1>0, <1>1, <2>1, <3>1, <3>2, <3>3, UpdateInStep DEF localsBut, Over, Waiting
  <2> QED
    BY <2>2, <2>3
<1>3. CASE Lookup
  BY <1>3 DEF Lookup, ctxVars, localsBut, InStep, Over, Waiting, Live, Unread
<1>4. CASE Refresh
  <2>1. /\ pc = "refresh" /\ valkeyClusterUpdateSlotmap("reconnect", "done")
        /\ UNCHANGED <<localsBut, asking, cluVars, sends, executions>>
    BY <1>4 DEF Refresh
  <2>2. c_updating_route = None /\ reply \in {Own, Nothing} /\ executions = 0
    BY <1>0, <2>1 DEF RouteKept, InStep, Over
  <2> QED
    BY <1>0, <1>1, <2>1, <2>2, UpdateInStep DEF localsBut, Over, Waiting
<1>5. CASE RefreshMoved
  <2>1. /\ pc = "refresh_moved" /\ valkeyClusterUpdateSlotmap("dangling", "done")
        /\ UNCHANGED <<localsBut, asking, cluVars, sends, executions>>
    BY <1>5 DEF RefreshMoved
  <2>2. c_updating_route = None /\ reply \in {Own, Nothing} /\ executions = 0
    BY <1>0, <2>1 DEF RouteKept, InStep, Over
  <2> QED
    BY <1>0, <1>1, <2>1, <2>2, UpdateInStep DEF localsBut, Over, Waiting
<1>6. CASE RefreshDone
  <2>1. /\ pc = "refresh_done" /\ valkeyClusterUpdateSlotmap("idle", "idle")
        /\ UNCHANGED <<asking, cluVars, sends, executions>>
        /\ reply' \in {reply, Nothing}
    BY <1>6 DEF RefreshDone
  <2>2. reply \in {Own, Nothing} /\ \A n \in Nodes : Live(n) => out[n] = <<>>
    BY <2>1 DEF InStep, Over
  <2> QED
    BY <1>0, <2>1, <2>2, UpdateInStep DEF Over, Waiting
<1> QED
  BY <1>2, <1>3, <1>4, <1>5, <1>6

\* A context that is opened anew has nothing unread.
LEMMA ConnectInStep ==
    ASSUME IInv, InStep, Connect
    PROVE  InStep'
<1>0. StateTyped /\ RouteKept /\ UpdatingContextHeld
  BY DEF IInv
<1>1. /\ pc \in {"connect", "reconnect"}
      /\ UNCHANGED <<c_updating_route, reply, executions>>
  BY DEF Connect
<1>2. /\ executions = 0 /\ reply \in {Own, Nothing}
      /\ \A n \in Nodes : Live(n) => out[n] = Unread(n)
  BY <1>1 DEF InStep, Over, Waiting
<1>3. CASE table # None /\ CanUse(table)
  <2>1. Using(table) /\ pc' = "send"
    BY <1>3 DEF Connect
  <2>2. table \in Nodes
    BY <1>0, <1>3, TypeFacts
  <2>3. /\ \A m \in Nodes \ {table} : con'[m] = con[m] /\ out'[m] = out[m]
        /\ out'[table] = IF Live(table) THEN out[table] ELSE <<>>
    BY <1>0, <2>1, <2>2, ContextUsed
  <2>4. ~Live(table) => table # c_updating_route
    BY <1>0, <1>1, <2>2, ClusterConstants DEF RouteKept, InUse
  <2>5. \A n \in Nodes : Live(n)' => out'[n] = Unread(n)'
    BY <1>1, <1>2, <2>3, <2>4 DEF Live, Unread
  <2> QED
    BY <1>1, <1>2, <2>1, <2>5 DEF InStep, Over, Waiting
<1>4. CASE ~(table # None /\ CanUse(table))
  <2>1. pc' \in {"refresh", "done"} /\ UNCHANGED <<con, out, c>>
    BY <1>4 DEF Connect, ConnectFails
  <2> QED
    BY <1>1, <1>2, <2>1 DEF InStep, Over, Waiting, Live, Unread
<1> QED
  BY <1>3, <1>4

\* A command is sent on a connection with nothing unread, if the call stays away.
LEMMA SendInStep ==
    ASSUME IInv, InStep, StaysAway, Send
    PROVE  InStep'
<1>0. StateTyped /\ HasContext
  BY DEF IInv
<1>1. pc = "send" /\ pc' = "reply" /\ UNCHANGED <<c, reply, executions>>
  BY DEF Send
<1>2. c \in Nodes /\ Live(c) /\ (con[c] = "ok" => c # c_updating_route)
  BY <1>0, <1>1 DEF HasContext, InUse, StaysAway
<1>3. con \in [Nodes -> ConStates] /\ out \in [Nodes -> Seq(Requests)]
  BY <1>0, TypeFacts
<1>4. /\ executions = 0 /\ reply \in {Own, Nothing}
      /\ \A n \in Nodes : Live(n) => out[n] = Unread(n)
  BY <1>1 DEF InStep, Over, Waiting
<1>5. con[c] = "ok" => out[c] = <<>>
  BY <1>2, <1>4 DEF Live, Unread
<1>6. CASE /\ out' = [out EXCEPT ![c] = @ \o <<"cmd", "slots">>]
           /\ c_updating_route' = c /\ con' = con /\ c_updating_route = None
  <2>1. con'[c] = "ok" => out'[c] = <<"cmd", "slots">>
    BY <1>2, <1>3, <1>5, <1>6, ShortQueues
  <2>2. \A n \in Nodes \ {c} : Live(n)' => out'[n] = Unread(n)'
    BY <1>3, <1>4, <1>6, ClusterConstants DEF Live, Unread
  <2> QED
    BY <1>1, <1>4, <1>6, <2>1, <2>2 DEF InStep, Over, Waiting
<1>7. CASE con' = [con EXCEPT ![c] = "err"] /\ UNCHANGED <<out, c_updating_route>>
  <2>1. con'[c] # "ok"
    BY <1>2, <1>3, <1>7
  <2>2. \A n \in Nodes \ {c} : Live(n)' => out'[n] = Unread(n)'
    BY <1>3, <1>4, <1>7 DEF Live, Unread
  <2> QED
    BY <1>1, <1>4, <2>1, <2>2 DEF InStep, Over, Waiting
<1>8. CASE /\ out' = [out EXCEPT ![c] = Append(@, "cmd")]
           /\ UNCHANGED <<con, c_updating_route>>
  <2>1. con'[c] = "ok" => out'[c] = <<"cmd">> /\ c # c_updating_route
    BY <1>2, <1>3, <1>5, <1>8, ShortQueues
  <2>2. \A n \in Nodes \ {c} : Live(n)' => out'[n] = Unread(n)'
    BY <1>3, <1>4, <1>8 DEF Live, Unread
  <2> QED
    BY <1>1, <1>4, <1>8, <2>1, <2>2 DEF InStep, Over, Waiting
<1> QED
  <2>1. CASE need_update_route /\ c_updating_route = None
    BY <1>6, <1>7, <2>1 DEF Send
  <2>2. CASE ~(need_update_route /\ c_updating_route = None)
    BY <1>8, <2>2 DEF Send
  <2> QED
    BY <2>1, <2>2

\* The next call finds nothing unread.
LEMMA StartInStep ==
    ASSUME IInv, InStep, Start
    PROVE  InStep'
<1>1. /\ pc = "idle" /\ pc' = "retry" /\ reply' = Nothing /\ executions' = 0
      /\ c_updating_route' = None /\ UNCHANGED <<con, out>>
  BY DEF Start, ctxVars
<1>2. \A n \in Nodes : Live(n)' => out'[n] = Unread(n)'
  BY <1>1, ClusterConstants DEF InStep, Over, Live, Unread
<1> QED
  BY <1>1, <1>2 DEF InStep, Over, Waiting

\* A connection that failed is no longer used.
LEMMA ReplyFailsInStep ==
    ASSUME IInv, InStep, ReplyFails
    PROVE  InStep'
<1>0. StateTyped /\ HasContext
  BY DEF IInv
<1>1. /\ pc = "reply" /\ pc' = "done" /\ con' = [con EXCEPT ![c] = "err"]
      /\ executions' \in {executions, executions + 1}
      /\ UNCHANGED <<out, c, c_updating_route, reply>>
  BY DEF ReplyFails, localsBut
<1>2. con \in [Nodes -> ConStates] /\ c \in Nodes
  BY <1>0, <1>1, TypeFacts DEF HasContext
<1>3. executions = 0 /\ reply \in {Own, Nothing}
  BY <1>1 DEF InStep, Over
<1>4. \A n \in Nodes : Live(n)' => out'[n] = Unread(n)'
  BY <1>1, <1>2 DEF InStep, Waiting, Live, Unread
<1> QED
  BY <1>1, <1>3, <1>4 DEF InStep, Over, Waiting

\* The reply that is read is the command's own.
LEMMA ReplyInStep ==
    ASSUME IInv, InStep, NEW a, Reply(a)
    PROVE  InStep'
<1>0. StateTyped
  BY DEF IInv
<1>1. /\ pc = "reply" /\ out' = [out EXCEPT ![c] = Tail(@)]
      /\ UNCHANGED <<con, c, c_updating_route>>
  BY DEF Reply
<1>2. c \in Nodes
  BY <1>1 DEF IInv, HasContext
<1>3. /\ con[c] = "ok" /\ Head(out[c]) \in Requests /\ a \in Answers(c, Head(out[c]))
      /\ executions' = executions + (IF a = Own THEN 1 ELSE 0)
  BY <1>0, <1>2, AnswerRead DEF Reply
<1>4. out[c] = IF c = c_updating_route THEN <<"cmd", "slots">> ELSE <<"cmd">>
  BY <1>1, <1>3 DEF InStep
<1>5. Head(out[c]) = "cmd" /\ Tail(out[c]) = Unread(c)
  BY <1>4, ShortQueues DEF Unread
<1>6. \/ a = Own
      \/ \E e \in RetryErrors : a = Error(e)
      \/ \E i \in Nodes : a = Ask(i)
      \/ \E i \in Nodes : a = Moved(i)
  BY <1>0, <1>2, <1>3, <1>5, AnswerKinds
<1>7. a = Own \/ a.t \in {"MOVED", "ASK"} \cup RetryErrors
  BY <1>6, ReplyTypes
<1>8. Own.t \notin {"MOVED", "ASK"} \cup RetryErrors
  BY ReplyTypes DEF RetryErrors
<1>9. \/ reply' = a /\ pc' = "done" /\ a.t \notin {"MOVED", "ASK"} \cup RetryErrors
      \/ /\ reply' = reply /\ pc' \in {"done", "moved", "ask", "retry"}
         /\ a.t \in {"MOVED", "ASK"} \cup RetryErrors
  BY <1>0, <1>2, ReplyTaken
<1>10. executions = 0 /\ reply \in {Own, Nothing}
  BY <1>1 DEF InStep, Over
<1>11. \/ reply' = Own /\ pc' = "done" /\ executions' = 1
       \/ reply' = reply /\ pc' \in {"done", "moved", "ask", "retry"} /\ executions' = 0
  BY <1>3, <1>7, <1>8, <1>9, <1>10
<1>12. out \in [Nodes -> Seq(Requests)]
  BY <1>0, TypeFacts
<1>13. \A n \in Nodes : Live(n)' => out'[n] = Unread(n)'
  BY <1>1, <1>2, <1>5, <1>12 DEF InStep, Waiting, Live, Unread
<1> QED
  BY <1>10, <1>11, <1>13 DEF InStep, Over, Waiting

\* The one query is unread on the connection that answered MOVED.
LEMMA MovedUpdateInStep ==
    ASSUME IInv, InStep, MovedUpdate
    PROVE  InStep'
<1>0. StateTyped /\ HasContext
  BY DEF IInv
<1>1. pc = "moved" /\ UNCHANGED <<c, reply, executions>>
  BY DEF MovedUpdate
<1>2. c \in Nodes /\ Live(c)
  BY <1>0, <1>1 DEF HasContext, InUse
<1>3. con \in [Nodes -> ConStates] /\ out \in [Nodes -> Seq(Requests)]
  BY <1>0, TypeFacts
<1>4. /\ executions = 0 /\ reply \in {Own, Nothing}
      /\ \A n \in Nodes : Live(n) => out[n] = Unread(n)
  BY <1>1 DEF InStep, Over, Waiting
<1>5. \/ pc' = "redirect" /\ UNCHANGED <<con, out, c_updating_route>>
      \/ /\ out' = [out EXCEPT ![c] = Append(@, "slots")] /\ c_updating_route = None
         /\ c_updating_route' = c /\ pc' = "redirect" /\ UNCHANGED con
      \/ /\ con' = [con EXCEPT ![c] = "err"]
         /\ pc' = "refresh_moved" /\ UNCHANGED <<out, c_updating_route>>
  BY DEF MovedUpdate
<1>6. \A n \in Nodes : Live(n)' => out'[n] = Unread(n)'
  BY <1>2, <1>3, <1>4, <1>5, ShortQueues, ClusterConstants DEF Live, Unread
<1> QED
  BY <1>1, <1>4, <1>5, <1>6 DEF InStep, Over, Waiting

\* The call goes to a connection with nothing unread, if it stays away.
LEMMA RedirectInStep ==
    ASSUME IInv, InStep, StaysAway', Redirect
    PROVE  InStep'
<1>0. StateTyped /\ HasContext
  BY DEF IInv
<1>1. pc \in {"redirect", "ask"} /\ UNCHANGED <<node, c_updating_route, reply, executions>>
  BY DEF Redirect
<1>2. node \in Nodes
  BY <1>0, <1>1 DEF HasContext
<1>3. /\ executions = 0 /\ reply \in {Own, Nothing}
      /\ \A n \in Nodes : Live(n) => out[n] = Unread(n)
  BY <1>1 DEF InStep, Over, Waiting
<1>4. CASE CanUse(node)
  <2>1. /\ con'[node] \in {"ok", "broken"} /\ (~Live(node) => con'[node] = "ok")
        /\ \A m \in Nodes \ {node} : con'[m] = con[m] /\ out'[m] = out[m]
        /\ pc = "ask" =>
             out'[node] = Append(IF Live(node) THEN out[node] ELSE <<>>, "asking")
        /\ pc # "ask" => out'[node] = IF Live(node) THEN out[node] ELSE <<>>
        /\ (pc = "ask" /\ pc' = "asking") \/ (pc = "redirect" /\ pc' = "send")
        /\ c' = node
    BY <1>0, <1>2, <1>4, RedirectFollowed
  <2>2. con'[node] = "ok" => node # c_updating_route
    BY <1>1, <2>1 DEF StaysAway
  <2>3. \A n \in Nodes \ {node} : Live(n)' => out'[n] = Unread(n)'
    BY <1>1, <1>3, <2>1 DEF Live, Unread
  <2>4. CASE pc = "ask"
    <3>1. con'[node] = "ok" => out'[node] = <<"asking">>
      BY <1>2, <1>3, <2>1, <2>2, <2>4, ShortQueues DEF Unread
    <3> QED
      BY <1>1, <1>3, <2>1, <2>3, <2>4, <3>1 DEF InStep, Over, Waiting
  <2>5. CASE pc = "redirect"
    <3>1. out'[node] = Unread(node)
      BY <1>2, <1>3, <2>1, <2>2, <2>5 DEF Unread
    <3>2. \A n \in Nodes : Live(n)' => out'[n] = Unread(n)'
      BY <1>1, <2>3, <3>1 DEF Unread
    <3> QED
      BY <1>1, <1>3, <2>1, <2>5, <3>2 DEF InStep, Over, Waiting
  <2> QED
    BY <1>1, <2>4, <2>5
<1>5. CASE ~CanUse(node)
  <2>1. pc' = "done" /\ UNCHANGED <<con, out>>
    BY <1>5 DEF Redirect, RedirectFails
  <2> QED
    BY <1>1, <1>3, <2>1 DEF InStep, Over, Waiting, Live, Unread
<1> QED
  BY <1>4, <1>5

\* The reply that is read is ASKING's.
LEMMA AskingInStep ==
    ASSUME IInv, InStep, StaysAway, Asking
    PROVE  InStep'
<1>0. StateTyped /\ HasContext
  BY DEF IInv
<1>1. pc = "asking" /\ UNCHANGED <<c, c_updating_route, reply>>
  BY DEF Asking, localsBut
<1>2. c \in Nodes
  BY <1>0, <1>1 DEF HasContext
<1>3. con \in [Nodes -> ConStates] /\ out \in [Nodes -> Seq(Requests)]
  BY <1>0, TypeFacts
<1>4. /\ executions = 0 /\ reply \in {Own, Nothing}
      /\ \A n \in Nodes \ {c} : Live(n) => out[n] = Unread(n)
  BY <1>1 DEF InStep, Over, Waiting
<1>5. CASE /\ con[c] = "ok"
           /\ \E a \in Answers(c, Head(out[c])) : Answer(c, a)
           /\ out' = [out EXCEPT ![c] = Tail(@)]
           /\ pc' = "send"
           /\ UNCHANGED con
  <2> PICK a \in Answers(c, Head(out[c])) : Answer(c, a)
    BY <1>5
  <2>1. out[c] = <<"asking">> /\ c # c_updating_route
    BY <1>1, <1>5 DEF InStep, StaysAway
  <2>2. Head(out[c]) = "asking" /\ Tail(out[c]) = <<>>
    BY <2>1, ShortQueues
  <2>3. a = OK
    BY <1>0, <1>2, <2>2, AnswerKinds DEF Requests
  <2>4. executions' = executions + (IF a = Own THEN 1 ELSE 0)
    BY <1>0, <1>2, AnswerRead
  <2>5. executions' = 0
    BY <1>4, <2>3, <2>4, ReplyTypes
  <2>6. \A n \in Nodes : Live(n)' => out'[n] = Unread(n)'
    BY <1>1, <1>2, <1>3, <1>4, <1>5, <2>1, <2>2 DEF Live, Unread
  <2> QED
    BY <1>1, <1>4, <1>5, <2>5, <2>6 DEF InStep, Over, Waiting
<1>6. CASE /\ con' = [con EXCEPT ![c] = "err"]
           /\ pc' = "done"
           /\ UNCHANGED <<out, asking, executions>>
  <2>1. \A n \in Nodes : Live(n)' => out'[n] = Unread(n)'
    BY <1>1, <1>2, <1>3, <1>4, <1>6 DEF Live, Unread
  <2> QED
    BY <1>1, <1>4, <1>6, <2>1 DEF InStep, Over, Waiting
<1> QED
  BY <1>5, <1>6 DEF Asking

\* The reply that is read last is the slot map's.
LEMMA DoneInStep ==
    ASSUME IInv, InStep, Done
    PROVE  InStep'
<1>0. StateTyped
  BY DEF IInv
<1>1. pc = "done" /\ UNCHANGED c_updating_route
  BY DEF Done
<1>2. con \in [Nodes -> ConStates] /\ out \in [Nodes -> Seq(Requests)]
      /\ c_updating_route \in Nodes \cup {None} /\ view \in [Nodes -> Nodes \cup {None}]
      /\ executions \in Nat
  BY <1>0, TypeFacts
<1>3. /\ executions <= 1 /\ reply \in {Own, Nothing}
      /\ \A n \in Nodes : Live(n) => out[n] = Unread(n)
  BY <1>1 DEF InStep, Over, Waiting
<1>4. ASSUME pc' \in Over, reply' = reply, executions' = executions,
             \A n \in Nodes : Live(n)' => out'[n] = <<>>
      PROVE  InStep'
  BY <1>3, <1>4 DEF InStep, Over, Waiting
<1>5. CASE c_updating_route = None /\ pc' = "idle" /\ UNCHANGED <<ctxVars, reply, executions>>
  <2>1. \A n \in Nodes : Live(n)' => out'[n] = <<>>
    BY <1>3, <1>5, ClusterConstants DEF ctxVars, Live, Unread
  <2> QED
    BY <1>4, <1>5, <2>1 DEF Over
<1>6. ASSUME c_updating_route # None, con[c_updating_route] = "ok",
             NEW a \in Answers(c_updating_route, Head(out[c_updating_route])),
             Answer(c_updating_route, a), UNCHANGED reply,
             LET rest == [out EXCEPT ![c_updating_route] = Tail(@)] IN
                a.t = "slotmap" => updateNodesAndSlotmap(a.owner, con, rest) /\ pc' = "idle"
      PROVE  InStep'
  <2> DEFINE rest == [out EXCEPT ![c_updating_route] = Tail(@)]
  <2>1. c_updating_route \in Nodes
    BY <1>2, <1>6
  <2>2. out[c_updating_route] = <<"slots">>
    BY <1>3, <1>6, <2>1 DEF Live, Unread
  <2>3. Head(out[c_updating_route]) = "slots" /\ Tail(out[c_updating_route]) = <<>>
    BY <2>2, ShortQueues
  <2>4. a = SlotMap(view[c_updating_route])
    BY <1>0, <1>6, <2>1, <2>3, AnswerKinds DEF Requests
  <2>5. a.t = "slotmap" /\ a.owner \in Nodes \cup {None} /\ a # Own
    BY <1>2, <2>1, <2>4, ReplyTypes
  <2>6. rest \in [Nodes -> Seq(Requests)] /\ \A n \in Nodes : Live(n) => rest[n] = <<>>
    <3>0. Tail(out[c_updating_route]) \in Seq(Requests)
      <4>1. <<>> \in Seq(Requests)
        OBVIOUS
      <4> QED
        BY ONLY <2>3, <4>1
    <3>1. rest \in [Nodes -> Seq(Requests)]
      BY <1>2, <2>1, <3>0
    <3>2. ASSUME NEW n \in Nodes, Live(n)
          PROVE  rest[n] = <<>>
      BY <1>2, <1>3, <2>1, <2>3, <3>2 DEF Unread
    <3> QED
      BY <3>1, <3>2
  <2>7. executions' = executions
    BY <1>0, <1>2, <1>6, <2>1, <2>5, AnswerRead
  <2>8. updateNodesAndSlotmap(a.owner, con, rest) /\ pc' = "idle"
    BY <1>6, <2>5
  <2> HIDE DEF rest
  <2>9. \A n \in Nodes : con'[n] # None => con'[n] = con[n] /\ out'[n] = rest[n]
    BY <1>2, <2>5, <2>6, <2>8, SlotMapApplied
  <2>10. ASSUME NEW n \in Nodes, Live(n)'
         PROVE  out'[n] = <<>>
    <3>1. con'[n] \in {"ok", "broken"} /\ con'[n] # None
      BY <2>10 DEF Live, None
    <3> QED
      BY <2>6, <2>9, <3>1 DEF Live
  <2> QED
    BY <1>4, <1>6, <2>7, <2>8, <2>10 DEF Over
<1>7. CASE /\ c_updating_route # None
           /\ con' = [con EXCEPT ![c_updating_route] = "err"]
           /\ pc' = "refresh_done" /\ UNCHANGED <<out, reply, executions>>
  <2>1. \A n \in Nodes : Live(n)' => out'[n] = <<>>
    BY <1>2, <1>3, <1>7 DEF Live, Unread
  <2> QED
    BY <1>4, <1>7, <2>1 DEF Over
<1> QED
  BY <1>5, <1>6, <1>7 DEF Done

\* A node that crashes takes its connection along.
LEMMA ClusterInStep ==
    ASSUME IInv, InStep, Cluster
    PROVE  InStep'
<1>1. /\ UNCHANGED <<out, pc, c, c_updating_route, reply, executions>>
      /\ \A n \in Nodes : con'[n] = con[n] \/ (con[n] = "ok" /\ con'[n] = "broken")
  BY ClusterSteps DEF IInv, locals
<1>2. pc \in Waiting => c \in Nodes
  BY DEF IInv, HasContext, Waiting
<1>3. \A n \in Nodes : Live(n)' => Live(n) /\ Unread(n)' = Unread(n)
  BY <1>1 DEF Live, Unread
<1>4. pc \in Waiting /\ con'[c] = "ok" => con[c] = "ok"
  BY <1>1, <1>2
<1> QED
  BY <1>1, <1>3, <1>4 DEF InStep, Waiting

\* Every step keeps requests and replies in step, if the call stays away.
LEMMA StepInStep ==
    ASSUME IInv, InStep, StaysAway, StaysAway', [Next]_vars
    PROVE  InStep'
<1>1. CASE Execute
  <2>1. CASE \E a \in Answers(c, Head(out[c])) : Reply(a)
    BY <2>1, ReplyInStep
  <2> QED
    BY <1>1, <2>1, LookupsInStep, ConnectInStep, SendInStep, ReplyFailsInStep,
       MovedUpdateInStep, RedirectInStep, AskingInStep, DoneInStep DEF Execute
<1>2. CASE UNCHANGED vars
  BY <1>2 DEF vars, ctxVars, locals, InStep, Live, Unread
<1> QED
  BY <1>1, <1>2, StartInStep, ClusterInStep DEF Next

\* Nothing is unread in the beginning.
LEMMA InitInStep ==
    ASSUME Init
    PROVE  InStep
<1>1. /\ out = [n \in Nodes |-> <<>>] /\ reply = Nothing /\ pc = "idle" /\ executions = 0
  BY DEF Init
<1> QED
  BY <1>1 DEF InStep, Over, Waiting

\* Requests and replies are in step as long as no call comes back to a connection
\* on which its slot map query is unread.
THEOREM StaysInStep == Spec /\ []StaysAway => []InStep
<1>1. Init => InStep
  BY InitInStep
<1>2. IInv /\ InStep /\ StaysAway /\ StaysAway' /\ [Next]_vars => InStep'
  BY StepInStep
<1> QED
  BY <1>1, <1>2, CallInvariant, PTL DEF Spec

\* The caller gets the reply to its command or none, and the next call finds
\* every usable connection empty, unless the call came back to a connection with
\* an unread slot map query: there is no other way for replies to get out of step
\* (valkey_cluster_command_execute).
THEOREM ReplyIsOwn == Spec /\ []StaysAway => []RepliesInStep
<1>1. IInv /\ InStep => RepliesInStep
  BY DEF IInv, StateTyped, InStep, Over, Live, RepliesInStep, OwnReply, CleanConnections
<1> QED
  BY <1>1, CallInvariant, StaysInStep, PTL

\* Under the same condition a command is executed at most once, although it is
\* sent up to max_retry_count + 1 times and connections fail at any point.
THEOREM ExecutedOnce == Spec /\ []StaysAway => []SentSparingly
<1>1. IInv /\ InStep => SentSparingly
  BY DEF IInv, InStep, SendsCounted, SentSparingly, AtMostOnce, BoundedSends
<1> QED
  BY <1>1, CallInvariant, StaysInStep, PTL
=============================================================================
