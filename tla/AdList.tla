------------------------------- MODULE AdList -------------------------------
(***************************************************************************)
(* The doubly linked list of src/src/adlist.c at the level of its pointers. *)
(* nodes maps every allocated node to its prev, next and value; a node is   *)
(* named by whoever adds it, NULL is the null pointer.                      *)
(***************************************************************************)
EXTENDS Integers, Sequences, FiniteSets

CONSTANT NULL

listCreate == [head |-> NULL, tail |-> NULL, len |-> 0, nodes |-> <<>>]

\* p->field = q, which does nothing where the code tests p for NULL.
Link(nodes, p, field, q) ==
    IF p = NULL THEN nodes ELSE [nodes EXCEPT ![p][field] = q]

\* A new node p with this value between two others, of which either may be NULL.
Inserted(list, p, before, after, val) ==
    LET new == [x \in DOMAIN list.nodes \cup {p} |->
                   IF x = p THEN [prev |-> before, next |-> after, value |-> val]
                   ELSE list.nodes[x]]
    IN  [head |-> IF before = NULL THEN p ELSE list.head,
         tail |-> IF after = NULL THEN p ELSE list.tail,
         len |-> list.len + 1,
         nodes |-> Link(Link(new, before, "next", p), after, "prev", p)]

listAddNodeTail(list, p, val) == Inserted(list, p, list.tail, NULL, val)

listDelNode(list, p) ==
    LET n == list.nodes[p] IN
    [head |-> IF n.prev = NULL THEN n.next ELSE list.head,
     tail |-> IF n.next = NULL THEN n.prev ELSE list.tail,
     len |-> list.len - 1,
     nodes |-> LET linked == Link(Link(list.nodes, n.prev, "next", n.next),
                                  n.next, "prev", n.prev)
               IN  [x \in DOMAIN linked \ {p} |-> linked[x]]]

listFirst(list) == list.head
listNodeValue(list, p) == list.nodes[p].value

\* Iterators, forward: the node saved for the next call.
listRewind(list) == list.head
listNext(list, iter) == list.nodes[iter].next

\* The nodes are one row from head to tail, linked in both directions.
WellFormed(list) ==
    LET n == list.len IN
    \E row \in [1..n -> DOMAIN list.nodes] :
        /\ \A x \in DOMAIN list.nodes : \E k \in 1..n : row[k] = x
        /\ \A j, k \in 1..n : row[j] = row[k] => j = k
        /\ list.head = (IF n = 0 THEN NULL ELSE row[1])
        /\ list.tail = (IF n = 0 THEN NULL ELSE row[n])
        /\ \A k \in 1..n :
             /\ list.nodes[row[k]].prev = (IF k = 1 THEN NULL ELSE row[k - 1])
             /\ list.nodes[row[k]].next = (IF k = n THEN NULL ELSE row[k + 1])
=============================================================================
