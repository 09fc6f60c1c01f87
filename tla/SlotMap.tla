------------------------------- MODULE SlotMap -------------------------------
(***************************************************************************)
(* The topology a cluster client holds (src/src/cluster.c): the dictionary *)
(* cc->nodes, the lookup table from slots to nodes, and how both are built *)
(* from CLUSTER SLOTS and CLUSTER NODES replies and from redirects, while  *)
(* connections stay attached to the nodes and an application iterates over *)
(* the nodes.  Who asks for an update, and when, is the subject of modules *)
(* ClusterSync and ClusterAsync.                                           *)
(*                                                                         *)
(* Every update allocates new nodes: a pointer to one is <<addr, version>>.*)
(* Contexts are numbered as they are created.                              *)
(***************************************************************************)
EXTENDS Dict, FiniteSets

CONSTANTS NumSlots,       \* VALKEYCLUSTER_SLOTS
          InitialNodes,   \* sequences of addresses given in the options
          SlotsReplies,   \* replies to CLUSTER SLOTS, with the truth they tell
          NodesReplies,   \* replies to CLUSTER NODES, with the truth they tell
          Redirects,      \* [slot, addr] of the MOVED and ASK errors received
          PARSE_REPLICAS, \* VALKEY_FLAG_PARSE_REPLICAS
          UINT32,         \* the number of values of uint32_t
          SELF,           \* an empty or NIL endpoint: the node that was asked
          BAD,            \* an element of a reply that has the wrong type or range
          MaxUpdates,     \* bound: successful slot map updates
          MaxContexts     \* bound: contexts created

VARIABLES nodes,          \* cc->nodes
          table,          \* cc->table, a function, NULL before the first update
          route_version,  \* cc->route_version
          cons,           \* the valkeyContexts that are allocated
          acons,          \* ac->data of the valkeyAsyncContexts allocated
          created,        \* contexts created so far
          iter,           \* a valkeyClusterNodeIterator, NULL if there is none
          \* History, read by the properties only:
          truth,          \* what the servers said last: owners and replicas
          seen,           \* the nodes the iterator returned since it (re)started
          restarted,      \* the iterator noticed an update and started again
          grown           \* nodes were added to the dictionary under the iterator

ccVars   == <<nodes, table, route_version>>
ctxVars  == <<cons, acons, created>>
iterVars == <<iter, seen, restarted, grown>>
vars     == <<ccVars, ctxVars, iterVars, truth>>

Slots == 0..NumSlots-1

-----------------------------------------------------------------------------
(* Nodes. *)

Node(addr, ver, role) ==
    [addr |-> addr, ver |-> ver, role |-> role, name |-> NULL, slots |-> <<>>,
     replicas |-> <<>>, con |-> NULL, acon |-> NULL]

Ptr(node) == <<node.addr, node.ver>>

\* The node a pointer leads to is still allocated.
Live(p) == dictHas(nodes, p[1]) /\ dictFind(nodes, p[1]).ver = p[2]

NodesOf(d) == {dictFind(d, k) : k \in dictKeys(d)}

\* An address of a reply; the node asked answers for an empty endpoint.
Endpoint(addr, asked) == IF addr = SELF THEN asked ELSE addr

\* valkeyClusterSetOptionAddNodes: the options name nodes of unknown role.
valkeyClusterSetOptionAddNodes(addrs) ==
    FoldLeft(LAMBDA d, a : IF dictHas(d, a) THEN d
                           ELSE dictAdd(d, a, Node(a, 0, "unknown")),
             dictCreate, addrs)

-----------------------------------------------------------------------------
(* Parsing.  A parser returns a dictionary of new nodes or NULL.            *)

Refused == [ok |-> FALSE, dict |-> dictCreate]

\* The slots of a CLUSTER SLOTS entry are 64-bit integers and become unsigned
\* ones of 32 bits: a negative slot is a large one, and multiples of 2^32 vanish.
Narrowed(entry) ==
    LET uint32_t(slot) == IF slot = BAD THEN BAD ELSE slot % UINT32
    IN  [start |-> uint32_t(entry.start), end |-> uint32_t(entry.end)]

ValidRange(r) == /\ r.start # BAD /\ r.end # BAD
                 /\ r.start \in Slots /\ r.end \in Slots /\ r.start <= r.end

\* An entry of a CLUSTER SLOTS reply is [start, end, nodes], the first of its
\* nodes being the primary.

\* Faulty variant for MapIsTopology: a primary that is known already gets no
\* further range.
SlotsEntry_FirstRangeOnly(acc, entry, asked, ver) ==
    IF ~acc.ok \/ Len(entry.nodes) < 1 \/ ~ValidRange(Narrowed(entry)) THEN Refused
    ELSE LET primary == Endpoint(entry.nodes[1], asked) IN
         IF primary = BAD THEN Refused
         ELSE IF dictHas(acc.dict, primary) THEN acc
         ELSE [ok |-> TRUE,
               dict |-> dictAdd(acc.dict, primary,
                          [Node(primary, ver, "primary") EXCEPT !.slots =
                             <<Narrowed(entry)>>])]

\* One turn of the loop of parse_cluster_slots: the range, the primary, found
\* or created, and, with the first entry of a primary, its replicas.
SlotsEntry(acc, entry, asked, ver) ==
    IF ~acc.ok \/ Len(entry.nodes) < 1 \/ ~ValidRange(Narrowed(entry)) THEN Refused
    ELSE LET primary  == Endpoint(entry.nodes[1], asked)
             known    == dictHas(acc.dict, primary)
             replicas == [k \in 1..Len(entry.nodes) - 1 |->
                             Endpoint(entry.nodes[k + 1], asked)]
             parsed   == IF PARSE_REPLICAS THEN replicas ELSE <<>>
             node     == IF known THEN dictFind(acc.dict, primary)
                         ELSE [Node(primary, ver, "primary")
                                 EXCEPT !.replicas = parsed]
             linked   == [node EXCEPT !.slots = Append(@, Narrowed(entry))]
         IN  IF primary = BAD \/ (~known /\ BAD \in Range(parsed)) THEN Refused
             ELSE [ok |-> TRUE,
                   dict |-> IF known THEN dictSetVal(acc.dict, primary, linked)
                            ELSE dictAdd(acc.dict, primary, linked)]

\* parse_cluster_slots: anything but a non-empty array is refused.
parse_cluster_slots(entries, asked, ver) ==
    LET res == FoldLeft(LAMBDA acc, e : SlotsEntry(acc, e, asked, ver),
                        [ok |-> TRUE, dict |-> dictCreate], entries)
    IN  IF entries = <<>> \/ ~res.ok THEN NULL ELSE res.dict

\* A line of CLUSTER NODES is [id, addr, role, primary_id, slots]; the role is
\* BAD when a mandatory field or the role is missing, "noaddr" for a node that
\* has no address.  Ranges are not looked at before the table is built.
NodesLine(acc, line, asked, ver) ==
    LET addr == Endpoint(line.addr, asked)
        new  == [Node(addr, ver, line.role) EXCEPT !.name = line.id]
    IN  IF ~acc.ok \/ line.role = BAD THEN [acc EXCEPT !.ok = FALSE]
        ELSE IF line.role = "noaddr" \/ (line.role = "replica" /\ ~PARSE_REPLICAS)
        THEN acc
        ELSE IF addr = BAD THEN [acc EXCEPT !.ok = FALSE]
        ELSE IF line.role = "replica"
        THEN [acc EXCEPT !.replicas = Append(@, [of |-> line.primary_id, addr |-> addr])]
        ELSE IF dictHas(acc.dict, addr) THEN [acc EXCEPT !.ok = FALSE]
        ELSE [acc EXCEPT !.dict = dictAdd(@, addr, [new EXCEPT !.slots = line.slots]),
                         !.ranges = @ + Len(line.slots)]

\* store_replica_nodes: each primary takes the list kept under its name.
store_replica_nodes(d, replicas) ==
    LET Own(node) == SelectSeq(replicas, LAMBDA r : r.of = node.name)
        Stored(node) == [node EXCEPT !.replicas =
                           [k \in 1..Len(Own(node)) |-> Own(node)[k].addr]]
    IN  FoldLeft(LAMBDA acc, k : dictSetVal(acc, k, Stored(dictFind(acc, k))),
                 d, SetToSeq(dictKeys(d)))

\* parse_cluster_nodes.
parse_cluster_nodes(lines, asked, ver) ==
    LET res == FoldLeft(LAMBDA acc, l : NodesLine(acc, l, asked, ver),
                        [ok |-> TRUE, dict |-> dictCreate, replicas |-> <<>>,
                         ranges |-> 0], lines)
    IN  IF ~res.ok \/ res.ranges = 0 THEN NULL
        ELSE store_replica_nodes(res.dict, res.replicas)

-----------------------------------------------------------------------------
(* Replacing the topology. *)

\* The lookup table for new nodes.
NewTable(d) ==
    [s \in Slots |->
        LET owners == {n \in NodesOf(d) : \E k \in 1..Len(n.slots) :
                          n.slots[k].start <= s /\ s <= n.slots[k].end}
        IN  IF owners = {} THEN NULL ELSE Ptr(CHOOSE n \in owners : TRUE)]

\* Every range is valid and no slot is in two of them.
RangesOK(d) ==
    LET ranges == UNION {{<<n.addr, k>> : k \in 1..Len(n.slots)} : n \in NodesOf(d)}
        R(p)   == dictFind(d, p[1]).slots[p[2]]
    IN  /\ \A p \in ranges : ValidRange(R(p))
        /\ \A p, q \in ranges : p # q => R(p).end < R(q).start \/ R(q).end < R(p).start

\* Faulty variant for ConnectionsSurvive: connections are not moved over.
swap_ctx_Nothing(from, to) == to

\* cluster_nodes_swap_ctx: a node of the new dictionary takes the contexts of
\* its predecessor.
cluster_nodes_swap_ctx(from, to) ==
    FoldLeft(LAMBDA acc, k :
        IF dictHas(from, k)
        THEN dictSetVal(acc, k, [dictFind(acc, k) EXCEPT
                                    !.con = dictFind(from, k).con,
                                    !.acon = dictFind(from, k).acon])
        ELSE acc, to, SetToSeq(dictKeys(to)))

\* Faulty variant for NothingDangles: ac->data keeps the old node.
Relink_KeepsData(new) ==
    [ac \in DOMAIN acons |->
        IF acons[ac] # NULL /\ ~dictHas(new, acons[ac][1]) THEN NULL ELSE acons[ac]]

\* ac->data after the contexts moved to the new nodes and freeValkeyClusterNode
\* detached those of the nodes that are gone.
Relink(new) ==
    [ac \in DOMAIN acons |->
        IF acons[ac] = NULL \/ ~dictHas(new, acons[ac][1]) THEN NULL
        ELSE Ptr(dictFind(new, acons[ac][1]))]

\* updateNodesAndSlotmap: parsed nodes become cc->nodes, and the nodes they
\* replace are released with the contexts nobody took over; a context that is
\* freed while one of its callbacks runs outlives its node for a while.
updateNodesAndSlotmap(parsed, told) ==
    /\ parsed # NULL
    /\ RangesOK(parsed)
    /\ LET new == cluster_nodes_swap_ctx(nodes, parsed) IN
       /\ table' = NewTable(parsed)
       /\ nodes' = new
       /\ cons' = {c \in cons : \E n \in NodesOf(new) : n.con = c}
       /\ acons' = Relink(new)
    /\ route_version' = route_version + 1
    /\ truth' = told
    /\ UNCHANGED <<created, iterVars>>

\* A reply from the node `asked' to CLUSTER SLOTS or CLUSTER NODES: the part of
\* clusterUpdateRouteHandleReply and of the asynchronous reply callbacks that
\* depends on it.  A reply that is refused leaves everything as it was.
HandleReply ==
    /\ route_version < MaxUpdates
    /\ \E asked \in dictKeys(nodes) :
         /\ dictFind(nodes, asked).con # NULL \/ dictFind(nodes, asked).acon # NULL
         /\ \/ \E r \in SlotsReplies :
                 /\ r.asked \in {asked, NULL}
                 /\ updateNodesAndSlotmap(
                        parse_cluster_slots(r.entries, asked, route_version + 1),
                        r.truth)
            \/ \E r \in NodesReplies :
                 /\ r.asked \in {asked, NULL}
                 /\ updateNodesAndSlotmap(
                        parse_cluster_nodes(r.lines, asked, route_version + 1),
                        r.truth)

\* getNodeFromRedirectReply adds a node that is not known yet; after MOVED the
\* slot's entry in the table is updated.
Redirect ==
    /\ table # NULL
    /\ \E r \in Redirects : \E moved \in BOOLEAN :
         LET new == IF dictHas(nodes, r.addr) THEN nodes
                    ELSE dictAdd(nodes, r.addr, Node(r.addr, route_version, "primary"))
         IN  /\ nodes' = new
             /\ table' = IF moved
                         THEN [table EXCEPT ![r.slot] = Ptr(dictFind(new, r.addr))]
                         ELSE table
             /\ truth' = IF moved THEN [truth EXCEPT !.owner[r.slot] = r.addr]
                         ELSE truth
             /\ grown' = (grown \/ new.size # nodes.size)
    /\ UNCHANGED <<route_version, ctxVars, iter, seen, restarted>>

-----------------------------------------------------------------------------
(* Contexts. *)

SetNode(addr, node) == nodes' = dictSetVal(nodes, addr, node)

\* valkeyClusterGetValkeyContext connects to a node.
valkeyClusterGetValkeyContext ==
    /\ created < MaxContexts
    /\ \E n \in NodesOf(nodes) :
         /\ n.con = NULL
         /\ SetNode(n.addr, [n EXCEPT !.con = created + 1])
    /\ cons' = cons \cup {created + 1}
    /\ created' = created + 1
    /\ UNCHANGED <<table, route_version, acons, iterVars, truth>>

\* valkeyClusterGetValkeyAsyncContext connects to a node.
valkeyClusterGetValkeyAsyncContext ==
    /\ created < MaxContexts
    /\ \E n \in NodesOf(nodes) :
         /\ n.acon = NULL
         /\ SetNode(n.addr, [n EXCEPT !.acon = created + 1])
         /\ acons' = [ac \in DOMAIN acons \cup {created + 1} |->
                         IF ac = created + 1 THEN Ptr(n) ELSE acons[ac]]
    /\ created' = created + 1
    /\ UNCHANGED <<table, route_version, cons, iterVars, truth>>

\* An asynchronous context ends: dataCleanup is unlinkAsyncContextAndNode, which
\* writes to the node ac->data points to.
unlinkAsyncContextAndNode ==
    /\ \E ac \in DOMAIN acons :
         /\ acons' = [a \in DOMAIN acons \ {ac} |-> acons[a]]
         /\ IF acons[ac] # NULL /\ Live(acons[ac])
            THEN SetNode(acons[ac][1],
                         [dictFind(nodes, acons[ac][1]) EXCEPT !.acon = NULL])
            ELSE UNCHANGED nodes
    /\ UNCHANGED <<table, route_version, cons, created, iterVars, truth>>

-----------------------------------------------------------------------------
(* The node iterator. *)

valkeyClusterInitNodeIterator ==
    /\ iter = NULL
    /\ iter' = [route_version |-> route_version, di |-> dictInitIterator,
                retries_left |-> 1]
    /\ seen' = <<>> /\ restarted' = FALSE /\ grown' = FALSE
    /\ UNCHANGED <<ccVars, ctxVars, truth>>

\* Faulty variant for IterationSound: the version is not compared.
NodeNext_NoVersion ==
    /\ iter # NULL /\ iter.retries_left > 0
    /\ LET di == dictNext(iter.di, nodes) IN
       /\ iter' = [iter EXCEPT !.di = di]
       /\ seen' = IF di.entry = NULL THEN seen ELSE Append(seen, di.entry)
    /\ UNCHANGED <<ccVars, ctxVars, truth, restarted, grown>>

\* valkeyClusterNodeNext, when it does not simply return NULL because no retries
\* are left.
valkeyClusterNodeNext ==
    /\ iter # NULL /\ iter.retries_left > 0
    /\ LET stale == iter.route_version # route_version
           start == IF stale THEN dictInitIterator ELSE iter.di
           di    == dictNext(start, nodes)
           past  == IF stale THEN <<>> ELSE seen
       IN  /\ start.index < nodes.size
           /\ iter' = [route_version |-> route_version, di |-> di,
                       retries_left |-> iter.retries_left - (IF stale THEN 1 ELSE 0)]
           /\ seen' = IF di.entry = NULL THEN past ELSE Append(past, di.entry)
           /\ restarted' = (restarted \/ stale)
           /\ grown' = (grown /\ ~stale)
    /\ UNCHANGED <<ccVars, ctxVars, truth>>

\* The iteration is over: the next call returns NULL.
IteratorDone == /\ iter # NULL /\ iter.route_version = route_version
                /\ iter.retries_left <= 0 \/ iter.di.index >= nodes.size

-----------------------------------------------------------------------------
Init ==
    /\ \E addrs \in InitialNodes : nodes = valkeyClusterSetOptionAddNodes(addrs)
    /\ table = NULL
    /\ route_version = 0
    /\ cons = {} /\ acons = <<>> /\ created = 0
    /\ iter = NULL /\ seen = <<>> /\ restarted = FALSE /\ grown = FALSE
    /\ truth = [owner |-> [s \in Slots |-> NULL], replicas |-> <<>>]

Next == \/ HandleReply \/ Redirect
        \/ valkeyClusterGetValkeyContext \/ valkeyClusterGetValkeyAsyncContext
        \/ unlinkAsyncContextAndNode
        \/ valkeyClusterInitNodeIterator \/ valkeyClusterNodeNext

Spec == Init /\ [][Next]_vars

-----------------------------------------------------------------------------
(* Properties. *)

Pointers == {<<a, v>> : a \in DOMAIN HashOf, v \in 0..MaxUpdates}

\* Types: every address is known to the hash, an iterator restarts at most once.
TypeOK ==
    /\ dictKeys(nodes) \subseteq DOMAIN HashOf
    /\ table = NULL \/ table \in [Slots -> Pointers \cup {NULL}]
    /\ route_version \in 0..MaxUpdates
    /\ cons \cup DOMAIN acons \subseteq 1..created
    /\ \A ac \in DOMAIN acons : acons[ac] \in Pointers \cup {NULL}
    /\ iter = NULL \/ iter.retries_left \in 0..1

\* Whichever command is used, however the ranges of a primary are spread over
\* the reply and whatever was redirected since, the table sends every slot to
\* the node the servers named last, and every primary with slots has its
\* replicas.  A reply that is malformed anywhere leaves the map alone.
MapIsTopology ==
    table # NULL =>
        /\ \A s \in Slots : IF truth.owner[s] = NULL THEN table[s] = NULL
                            ELSE table[s] # NULL /\ table[s][1] = truth.owner[s]
        /\ \A n \in NodesOf(nodes) : PARSE_REPLICAS /\ n.slots # <<>> =>
                                         n.replicas = truth.replicas[n.addr]

\* Every entry of the table points to a node of cc->nodes: no update, redirect
\* or release leaves a pointer to a node that was freed.
TablePointsToNodes ==
    table # NULL => \A s \in Slots : table[s] # NULL => Live(table[s])

\* Every context belongs to one node, which knows it, and ac->data leads back
\* to that node: unlinkAsyncContextAndNode never writes to a node that was freed,
\* and no context is freed twice or forgotten when the nodes are replaced.
ContextsOwned ==
    /\ \A c \in cons : Cardinality({n \in NodesOf(nodes) : n.con = c}) = 1
    /\ \A n \in NodesOf(nodes) : n.con # NULL => n.con \in cons
    /\ \A n \in NodesOf(nodes) :
          n.acon # NULL => n.acon \in DOMAIN acons /\ acons[n.acon] = Ptr(n)
    /\ \A ac \in DOMAIN acons :
          acons[ac] # NULL => Live(acons[ac]) /\ dictFind(nodes, acons[ac][1]).acon = ac

\* A new slot map does not cost the connections to the nodes that stay.
ConnectionsSurvive ==
    [][\A a \in dictKeys(nodes) \cap dictKeys(nodes') :
          LET old == dictFind(nodes, a)
              new == dictFind(nodes', a)
          IN  /\ old.con # NULL => new.con = old.con
              /\ old.acon \in DOMAIN acons' => new.acon = old.acon]_vars

\* A step that follows an iterator's position: only in the dictionary that is
\* cc->nodes now, never in one that an update released (valkeyClusterNodeNext).
FollowsLiveNodes ==
    seen' \notin {seen, <<>>} =>
        /\ iter'.route_version = route_version
        /\ iter'.di.nextEntry # NULL => dictHas(nodes, iter'.di.nextEntry)

\* An iteration that no update interrupted returns every node that was there,
\* and none twice, although redirects may add nodes meanwhile, as long as the
\* dictionary does not grow to take them.
IterationComplete ==
    IteratorDone /\ ~restarted /\ ~grown =>
        /\ Cardinality(Range(seen)) = Len(seen)
        /\ \A n \in NodesOf(nodes) : n.slots # <<>> => n.addr \in Range(seen)

\* docs/cluster.md: "The iterator will handle changes due to slot map updates by
\* restarting the iteration, but on the new set of master nodes": an iteration
\* that restarted returns every node of the new map (valkeyClusterNodeNext).
\* The code does not keep it (README.md, section 4).
RestartComplete ==
    IteratorDone /\ restarted /\ ~grown =>
        \A n \in NodesOf(nodes) : n.slots # <<>> => n.addr \in Range(seen)

\* No pointer leads to a released node or context: not from the table, not
\* from a node and not from ac->data, whatever is replaced or fails
\* (updateNodesAndSlotmap, cluster_nodes_swap_ctx).
NothingDangles == TypeOK /\ TablePointsToNodes /\ ContextsOwned

\* An iterator never follows a dictionary that is gone, and without an update in
\* between it returns every node once (valkeyClusterNodeNext, dictNext).
IterationSound == [][FollowsLiveNodes /\ IterationComplete']_vars
=============================================================================
