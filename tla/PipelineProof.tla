--------------------------- MODULE PipelineProof ---------------------------
(***************************************************************************)
(* Proofs about ClusterPipeline: for every set of nodes and slots and every *)
(* bound, what is under way on the connections and the list of requests    *)
(* stay in step.                                                           *)
(***************************************************************************)
EXTENDS ClusterPipeline, SequenceTheorems, TLAPS

-----------------------------------------------------------------------------
(* The list. *)

\* What a request remembers: a slot, or the node it was sent to.
Request == [slot : Slots \cup {NULL}, node_addr : Nodes \cup {NULL}]

ListNode == [prev : Nat \cup {NULL}, next : Nat \cup {NULL}, value : Request]

\* The nodes of the list, from head to tail, are q: they were numbered in the
\* order they were added.
IsRow(list, q) ==
    /\ q \in Seq(Nat)
    /\ \A i, j \in 1..Len(q) : i < j => q[i] < q[j]
    /\ \A i \in 1..Len(q) : q[i] \in DOMAIN list.nodes
    /\ \A x \in DOMAIN list.nodes : \E i \in 1..Len(q) : x = q[i]
    /\ list.nodes \in [DOMAIN list.nodes -> ListNode]
    /\ list.len = Len(q)
    /\ list.head = (IF Len(q) = 0 THEN NULL ELSE q[1])
    /\ list.tail = (IF Len(q) = 0 THEN NULL ELSE q[Len(q)])
    /\ \A i \in 1..Len(q) :
         /\ list.nodes[q[i]].prev = (IF i = 1 THEN NULL ELSE q[i - 1])
         /\ list.nodes[q[i]].next = (IF i = Len(q) THEN NULL ELSE q[i + 1])

\* Storing a next pointer changes nothing else.
LEMMA LinkNext ==
    ASSUME NEW D, NEW nodes \in [D -> ListNode], NEW p, NEW r \in Nat \cup {NULL},
           p = NULL \/ p \in D
    PROVE  /\ Link(nodes, p, "next", r) \in [D -> ListNode]
           /\ \A x \in D : /\ Link(nodes, p, "next", r)[x].prev = nodes[x].prev
                           /\ Link(nodes, p, "next", r)[x].value = nodes[x].value
                           /\ Link(nodes, p, "next", r)[x].next =
                                 IF p # NULL /\ x = p THEN r ELSE nodes[x].next
  BY DEF Link, ListNode

\* Storing a prev pointer changes nothing else.
LEMMA LinkPrev ==
    ASSUME NEW D, NEW nodes \in [D -> ListNode], NEW p, NEW r \in Nat \cup {NULL},
           p = NULL \/ p \in D
    PROVE  /\ Link(nodes, p, "prev", r) \in [D -> ListNode]
           /\ \A x \in D : /\ Link(nodes, p, "prev", r)[x].next = nodes[x].next
                           /\ Link(nodes, p, "prev", r)[x].value = nodes[x].value
                           /\ Link(nodes, p, "prev", r)[x].prev =
                                 IF p # NULL /\ x = p THEN r ELSE nodes[x].prev
  BY DEF Link, ListNode

\* A row is a list in the sense of WellFormed.
LEMMA RowWellFormed ==
    ASSUME NEW list, NEW q, IsRow(list, q)
    PROVE  WellFormed(list)
<1> DEFINE n == list.len
<1>0. q \in Seq(Nat) /\ n = Len(q) /\ n \in Nat
  BY DEF IsRow
<1>1. q \in [1..n -> DOMAIN list.nodes]
  <2>1. q \in [1..n -> Nat]
    BY <1>0
  <2>2. \A i \in 1..n : q[i] \in DOMAIN list.nodes
    BY <1>0 DEF IsRow
  <2> QED
    BY <2>1, <2>2
<1>2. \A x \in DOMAIN list.nodes : \E k \in 1..n : q[k] = x
  BY <1>0 DEF IsRow
<1>3. \A j, k \in 1..n : q[j] = q[k] => j = k
  <2> SUFFICES ASSUME NEW j \in 1..n, NEW k \in 1..n, q[j] = q[k], j # k
               PROVE  FALSE
    OBVIOUS
  <2>1. q[j] \in Nat /\ q[k] \in Nat
    BY <1>0
  <2>2. j < k \/ k < j
    BY <1>0
  <2> QED
    BY <1>0, <2>1, <2>2 DEF IsRow
<1>4. /\ list.head = (IF n = 0 THEN NULL ELSE q[1])
      /\ list.tail = (IF n = 0 THEN NULL ELSE q[n])
      /\ \A k \in 1..n :
           /\ list.nodes[q[k]].prev = (IF k = 1 THEN NULL ELSE q[k - 1])
           /\ list.nodes[q[k]].next = (IF k = n THEN NULL ELSE q[k + 1])
  BY <1>0 DEF IsRow
<1> QED
  BY <1>1, <1>2, <1>3, <1>4 DEF WellFormed

\* The head is the oldest request, and NULL when there is none.
LEMMA RowHead ==
    ASSUME NEW list, NEW q, IsRow(list, q)
    PROVE  /\ list.head = NULL => DOMAIN list.nodes = {}
           /\ list.head # NULL => /\ q # <<>>
                                  /\ list.head \in DOMAIN list.nodes
                                  /\ list.head \in Nat
           /\ \A x \in DOMAIN list.nodes : x \in Nat /\ list.head <= x
<1>0. q \in Seq(Nat) /\ Len(q) \in Nat
  BY DEF IsRow
<1>1. CASE Len(q) = 0
  BY <1>0, <1>1 DEF IsRow
<1>2. CASE Len(q) # 0
  <2>1. 1 \in 1..Len(q) /\ list.head = q[1] /\ q[1] \in Nat /\ q[1] \in DOMAIN list.nodes
    BY <1>0, <1>2 DEF IsRow
  <2>2. list.head # NULL /\ q # <<>>
    BY <1>0, <1>2, <2>1, PipelineConstants
  <2>3. ASSUME NEW x \in DOMAIN list.nodes
        PROVE  x \in Nat /\ list.head <= x
    <3>1. PICK i \in 1..Len(q) : x = q[i]
      BY DEF IsRow
    <3>2. q[i] \in Nat /\ (i = 1 \/ 1 < i)
      BY <1>0
    <3> QED
      BY <2>1, <3>1, <3>2 DEF IsRow
  <2> QED
    BY <2>1, <2>2, <2>3
<1> QED
  BY <1>1, <1>2

\* listAddNodeTail adds the newest request behind the others.
LEMMA RowAdded ==
    ASSUME NEW list, NEW q, IsRow(list, q),
           NEW id \in Nat, \A x \in DOMAIN list.nodes : x < id,
           NEW v \in Request
    PROVE  LET l == listAddNodeTail(list, id, v) IN
           /\ IsRow(l, Append(q, id))
           /\ DOMAIN l.nodes = DOMAIN list.nodes \cup {id}
           /\ l.nodes[id].value = v
           /\ \A x \in DOMAIN list.nodes : l.nodes[x].value = list.nodes[x].value
<1> DEFINE D    == DOMAIN list.nodes
           new  == [x \in D \cup {id} |->
                      IF x = id THEN [prev |-> list.tail, next |-> NULL, value |-> v]
                      ELSE list.nodes[x]]
           N    == Link(new, list.tail, "next", id)
           l    == listAddNodeTail(list, id, v)
           r    == Append(q, id)
           n    == Len(q)
<1>0. /\ q \in Seq(Nat) /\ n \in Nat
      /\ \A i, j \in 1..n : i < j => q[i] < q[j]
      /\ \A i \in 1..n : q[i] \in D /\ q[i] \in Nat /\ q[i] < id
      /\ list.nodes \in [D -> ListNode]
      /\ list.tail = (IF n = 0 THEN NULL ELSE q[n])
      /\ list.head = (IF n = 0 THEN NULL ELSE q[1])
  <2>1. q \in Seq(Nat) /\ n \in Nat /\ (\A i \in 1..n : q[i] \in Nat)
    BY DEF IsRow
  <2>2. \A i \in 1..n : q[i] \in D /\ q[i] < id
    BY DEF IsRow
  <2>3. \A i, j \in 1..n : i < j => q[i] < q[j]
    BY DEF IsRow
  <2>4. /\ list.nodes \in [D -> ListNode]
        /\ list.tail = (IF n = 0 THEN NULL ELSE q[n])
        /\ list.head = (IF n = 0 THEN NULL ELSE q[1])
    BY DEF IsRow
  <2> QED
    BY <2>1, <2>2, <2>3, <2>4
<1>1. /\ l.head = (IF list.tail = NULL THEN id ELSE list.head)
      /\ l.tail = id
      /\ l.len = list.len + 1
      /\ l.nodes = N
  BY DEF listAddNodeTail, Inserted, Link
<1>2. list.tail \in Nat \cup {NULL} /\ (list.tail = NULL \/ list.tail \in D \cup {id})
  <2>1. CASE n = 0
    BY <1>0, <2>1
  <2>2. CASE n # 0
    <3>1. n \in 1..n
      BY <1>0, <2>2
    <3> QED
      BY <1>0, <2>2, <3>1
  <2> QED
    BY <2>1, <2>2
<1>3. new \in [D \cup {id} -> ListNode]
  <2>1. [prev |-> list.tail, next |-> NULL, value |-> v] \in ListNode
    BY <1>2 DEF ListNode
  <2>2. \A x \in D : list.nodes[x] \in ListNode
    BY <1>0
  <2> QED
    BY <2>1, <2>2
<1>4. /\ N \in [D \cup {id} -> ListNode]
      /\ \A x \in D \cup {id} : /\ N[x].prev = new[x].prev
                               /\ N[x].value = new[x].value
                               /\ N[x].next = IF list.tail # NULL /\ x = list.tail THEN id
                                             ELSE new[x].next
  <2> HIDE DEF D, new
  <2> QED
    BY <1>2, <1>3, LinkNext
<1>5. id \notin D
  BY DEF IsRow
<1>6. /\ DOMAIN l.nodes = D \cup {id}
      /\ l.nodes \in [D \cup {id} -> ListNode]
      /\ l.nodes[id].value = v
      /\ \A x \in D : l.nodes[x].value = list.nodes[x].value
  BY <1>1, <1>4, <1>5
<1>7. /\ r \in Seq(Nat) /\ Len(r) = n + 1
      /\ \A i \in 1..n : r[i] = q[i]
      /\ r[n + 1] = id
  BY <1>0
<1>8. ASSUME NEW i \in 1..(n + 1), i # n + 1
      PROVE  /\ i \in 1..n /\ r[i] = q[i]
             /\ N[r[i]].prev = (IF i = 1 THEN NULL ELSE r[i - 1])
             /\ N[r[i]].next = r[i + 1]
  <2>1. i \in 1..n
    BY <1>0, <1>8
  <2>2. q[i] \in D /\ q[i] # id /\ r[i] = q[i]
    BY <1>0, <1>5, <1>7, <2>1
  <2>3. /\ N[q[i]].prev = list.nodes[q[i]].prev
        /\ N[q[i]].next = IF list.tail # NULL /\ q[i] = list.tail THEN id
                          ELSE list.nodes[q[i]].next
    BY <1>4, <2>2
  <2>4. N[q[i]].prev = (IF i = 1 THEN NULL ELSE r[i - 1])
    <3>1. list.nodes[q[i]].prev = (IF i = 1 THEN NULL ELSE q[i - 1])
      BY <2>1 DEF IsRow
    <3>2. i # 1 => i - 1 \in 1..n
      BY <1>0, <2>1
    <3> QED
      BY <1>7, <2>3, <3>1, <3>2
  <2>5. N[q[i]].next = r[i + 1]
    <3>1. list.nodes[q[i]].next = (IF i = n THEN NULL ELSE q[i + 1])
      BY <2>1 DEF IsRow
    <3>2. n # 0 /\ n \in 1..n /\ list.tail = q[n] /\ q[n] \in Nat
      BY <1>0, <2>1
    <3>3. CASE i = n
      BY <1>7, <2>3, <3>2, <3>3, PipelineConstants
    <3>4. CASE i # n
      <4>1. i < n /\ i + 1 \in 1..n
        BY <1>0, <2>1, <3>4
      <4>2. q[i] < q[n] /\ q[i] \in Nat
        BY <1>0, <2>1, <3>2, <4>1
      <4>3. q[i] # list.tail
        BY <3>2, <4>2
      <4> QED
        BY <1>7, <2>3, <3>1, <3>4, <4>1, <4>3
    <3> QED
      BY <3>3, <3>4
  <2> QED
    BY <2>1, <2>2, <2>4, <2>5
<1>9. /\ N[id].prev = (IF n = 0 THEN NULL ELSE q[n])
      /\ N[id].next = NULL
  <2>1. new[id].prev = list.tail /\ new[id].next = NULL
    OBVIOUS
  <2>2. list.tail # id
    BY <1>0, <1>5, <1>2, PipelineConstants
  <2>3. /\ N[id].prev = new[id].prev
        /\ N[id].next = IF list.tail # NULL /\ id = list.tail THEN id ELSE new[id].next
    BY <1>4
  <2> QED
    BY <1>0, <2>1, <2>2, <2>3
<1>10. IsRow(l, r)
  <2>1. \A i, j \in 1..(n + 1) : i < j => r[i] < r[j]
    <3> SUFFICES ASSUME NEW i \in 1..(n + 1), NEW j \in 1..(n + 1), i < j
                 PROVE  r[i] < r[j]
      OBVIOUS
    <3>1. i \in 1..n
      BY <1>0
    <3>2. CASE j = n + 1
      BY <1>0, <1>7, <3>1, <3>2
    <3>3. CASE j # n + 1
      <4>1. j \in 1..n
        BY <1>0, <3>3
      <4> QED
        BY <1>0, <1>7, <3>1, <4>1
    <3> QED
      BY <3>2, <3>3
  <2>2. \A i \in 1..(n + 1) : r[i] \in DOMAIN l.nodes
    BY <1>0, <1>6, <1>7, <1>8
  <2>3. \A x \in DOMAIN l.nodes : \E i \in 1..(n + 1) : x = r[i]
    <3> SUFFICES ASSUME NEW x \in DOMAIN l.nodes
                 PROVE  \E i \in 1..(n + 1) : x = r[i]
      OBVIOUS
    <3>1. CASE x = id
      BY <1>0, <1>7, <3>1
    <3>2. CASE x \in D
      <4>1. PICK i \in 1..n : x = q[i]
        BY <3>2 DEF IsRow
      <4> QED
        BY <1>0, <1>7, <4>1
    <3> QED
      BY <1>6, <3>1, <3>2
  <2>4. l.nodes \in [DOMAIN l.nodes -> ListNode]
    BY <1>6
  <2>5. l.len = n + 1 /\ l.tail = r[n + 1] /\ n + 1 # 0
    BY <1>0, <1>1, <1>7 DEF IsRow
  <2>6. l.head = r[1]
    <3>1. CASE n = 0
      BY <1>0, <1>1, <1>7, <3>1
    <3>2. CASE n # 0
      <4>1. n \in 1..n /\ 1 \in 1..n
        BY <1>0, <3>2
      <4> QED
        BY <1>0, <1>1, <1>7, <3>2, <4>1, PipelineConstants
    <3> QED
      BY <3>1, <3>2
  <2>7. \A i \in 1..(n + 1) :
           /\ l.nodes[r[i]].prev = (IF i = 1 THEN NULL ELSE r[i - 1])
           /\ l.nodes[r[i]].next = (IF i = n + 1 THEN NULL ELSE r[i + 1])
    <3> SUFFICES ASSUME NEW i \in 1..(n + 1)
                 PROVE  /\ N[r[i]].prev = (IF i = 1 THEN NULL ELSE r[i - 1])
                        /\ N[r[i]].next = (IF i = n + 1 THEN NULL ELSE r[i + 1])
      BY <1>1
    <3>1. CASE i = n + 1
      <4>1. i - 1 = n /\ (n # 0 => n \in 1..n) /\ (i = 1 <=> n = 0)
        BY <1>0, <3>1
      <4> QED
        BY <1>7, <1>9, <3>1, <4>1
    <3>2. CASE i # n + 1
      BY <1>8, <3>2
    <3> QED
      BY <3>1, <3>2
  <2>8. Len(r) = n + 1 /\ Len(r) # 0
    BY <1>0, <1>7
  <2> HIDE DEF l, r, n, D, N
  <2> QED
    BY <1>7, <2>1, <2>2, <2>3, <2>4, <2>5, <2>6, <2>7, <2>8 DEF IsRow
<1> QED
  BY <1>6, <1>10

\* listDelNode of the head leaves the others as they are, and an iterator that was
\* moved on before is at the new head.
LEMMA RowRemoved ==
    ASSUME NEW list, NEW q, IsRow(list, q), list.head # NULL
    PROVE  LET l == listDelNode(list, list.head) IN
           /\ IsRow(l, Tail(q))
           /\ DOMAIN l.nodes = DOMAIN list.nodes \ {list.head}
           /\ \A x \in DOMAIN l.nodes : l.nodes[x].value = list.nodes[x].value
           /\ l.head = listNext(list, list.head)
<1> DEFINE D  == DOMAIN list.nodes
           n  == Len(q)
           h  == list.head
           a  == list.nodes[h].next
           N  == Link(list.nodes, a, "prev", NULL)
           l  == listDelNode(list, h)
           r  == Tail(q)
<1>0. /\ q \in Seq(Nat) /\ n \in Nat
      /\ \A i, j \in 1..n : i < j => q[i] < q[j]
      /\ \A i \in 1..n : q[i] \in D /\ q[i] \in Nat
      /\ list.nodes \in [D -> ListNode]
      /\ list.len = n
      /\ list.head = (IF n = 0 THEN NULL ELSE q[1])
      /\ list.tail = (IF n = 0 THEN NULL ELSE q[n])
  BY SMTT(30) DEF IsRow
<1>1. /\ n >= 1 /\ 1 \in 1..n /\ n \in 1..n
      /\ h = q[1] /\ h \in D /\ h \in Nat
      /\ list.tail = q[n]
  BY <1>0
<1>2. /\ list.nodes[h].prev = NULL
      /\ a = (IF n = 1 THEN NULL ELSE q[2])
  <2>1. \A i \in 1..n : /\ list.nodes[q[i]].prev = (IF i = 1 THEN NULL ELSE q[i - 1])
                        /\ list.nodes[q[i]].next = (IF i = n THEN NULL ELSE q[i + 1])
    BY DEF IsRow
  <2>2. /\ list.nodes[q[1]].prev = NULL
        /\ list.nodes[q[1]].next = (IF 1 = n THEN NULL ELSE q[1 + 1])
    <3>1. 1 \in 1..n
      BY <1>1
    <3> HIDE DEF n
    <3> QED
      BY <2>1, <3>1, Zenon
  <2>3. 1 + 1 = 2
    OBVIOUS
  <2> QED
    BY <1>1, <2>2, <2>3
<1>3. /\ a \in Nat \cup {NULL}
      /\ a = NULL \/ a \in D
      /\ a = NULL <=> n = 1
  <2>1. CASE n = 1
    BY <1>2, <2>1
  <2>2. CASE n # 1
    <3>1. 2 \in 1..n
      <4>1. n \in Nat /\ n >= 1
        BY <1>0, <1>1
      <4> HIDE DEF n
      <4>2. n >= 2
        BY <2>2, <4>1
      <4> QED
        BY <4>1, <4>2
    <3> QED
      BY <1>0, <1>2, <2>2, <3>1, PipelineConstants
  <2> QED
    BY <2>1, <2>2
<1>4. /\ l.head = a
      /\ l.tail = (IF a = NULL THEN NULL ELSE list.tail)
      /\ l.len = n - 1
      /\ l.nodes = [x \in DOMAIN N \ {h} |-> N[x]]
  BY <1>0, <1>2 DEF listDelNode, Link
<1>5. /\ N \in [D -> ListNode]
      /\ \A x \in D : /\ N[x].next = list.nodes[x].next
                      /\ N[x].value = list.nodes[x].value
                      /\ N[x].prev = IF a # NULL /\ x = a THEN NULL
                                    ELSE list.nodes[x].prev
  <2> DEFINE L == list.nodes
  <2>1. L \in [D -> ListNode] /\ NULL \in Nat \cup {NULL}
    BY <1>0
  <2>2. N = Link(L, a, "prev", NULL)
    OBVIOUS
  <2> HIDE DEF D, a, L, N
  <2>3. /\ N \in [D -> ListNode]
        /\ \A x \in D : /\ N[x].next = L[x].next
                        /\ N[x].value = L[x].value
                        /\ N[x].prev = IF a # NULL /\ x = a THEN NULL ELSE L[x].prev
    <3>1. L \in [D -> ListNode]
      BY <2>1
    <3>2. NULL \in Nat \cup {NULL}
      BY <2>1
    <3>3. a = NULL \/ a \in D
      BY <1>3
    <3>4. PICK z \in Nat \cup {NULL} : z = NULL
      BY <3>2
    <3>5. LET M == Link(L, a, "prev", z) IN
          /\ M \in [D -> ListNode]
          /\ \A x \in D : /\ M[x].next = L[x].next
                          /\ M[x].value = L[x].value
                          /\ M[x].prev = IF a # NULL /\ x = a THEN z ELSE L[x].prev
      BY <3>1, <3>3, LinkPrev
    <3> QED
      BY <2>2, <3>4, <3>5
  <2> QED
    BY <2>3 DEF L
<1>6. /\ DOMAIN l.nodes = D \ {h}
      /\ l.nodes \in [D \ {h} -> ListNode]
      /\ \A x \in D \ {h} : l.nodes[x] = N[x]
  <2> HIDE DEF N, l, h
  <2> QED
    BY <1>4, <1>5
<1>7. /\ r \in Seq(Nat) /\ Len(r) = n - 1 /\ n - 1 \in Nat
      /\ \A i \in 1..(n - 1) : r[i] = q[i + 1] /\ i + 1 \in 1..n
  BY <1>0, <1>1
<1>8. IsRow(l, r)
  <2>1. \A i, j \in 1..(n - 1) : i < j => r[i] < r[j]
    BY <1>0, <1>7
  <2>2. \A i \in 1..(n - 1) : r[i] \in D /\ r[i] # h /\ r[i] \in Nat
    <3> SUFFICES ASSUME NEW i \in 1..(n - 1)
                 PROVE  r[i] \in D /\ r[i] # h /\ r[i] \in Nat
      OBVIOUS
    <3>1. i + 1 \in 1..n /\ 1 < i + 1
      BY <1>0
    <3>2. q[1] < q[i + 1] /\ q[i + 1] \in D /\ q[i + 1] \in Nat /\ q[1] \in Nat
      BY <1>0, <1>1, <3>1
    <3> QED
      BY <1>1, <1>7, <3>2
  <2>3. \A x \in DOMAIN l.nodes : \E i \in 1..(n - 1) : x = r[i]
    <3> SUFFICES ASSUME NEW x \in D, x # h
                 PROVE  \E i \in 1..(n - 1) : x = r[i]
      BY <1>6
    <3>1. PICK i \in 1..n : x = q[i]
      BY DEF IsRow
    <3>2. i # 1
      BY <1>1, <3>1
    <3>3. i - 1 \in 1..(n - 1) /\ (i - 1) + 1 = i
      BY <1>0, <3>2
    <3>4. x = r[i - 1]
      BY <1>7, <3>1, <3>3
    <3> QED
      BY <3>3, <3>4
  <2>4. l.nodes \in [DOMAIN l.nodes -> ListNode]
    BY <1>6
  <2>5. l.head = (IF n - 1 = 0 THEN NULL ELSE r[1])
    <3>1. n - 1 # 0 => 1 \in 1..(n - 1)
      BY <1>7
    <3>2. n - 1 = 0 <=> n = 1
      BY <1>0
    <3> QED
      BY <1>2, <1>4, <1>7, <3>1, <3>2
  <2>6. l.tail = (IF n - 1 = 0 THEN NULL ELSE r[n - 1])
    <3>1. n - 1 # 0 => n - 1 \in 1..(n - 1) /\ (n - 1) + 1 = n
      BY <1>7, <1>0
    <3>2. n - 1 = 0 <=> n = 1
      BY <1>0
    <3> QED
      BY <1>1, <1>3, <1>4, <1>7, <3>1, <3>2
  <2>7. ASSUME NEW i \in 1..(n - 1)
        PROVE  /\ l.nodes[r[i]].prev = (IF i = 1 THEN NULL ELSE r[i - 1])
               /\ l.nodes[r[i]].next = (IF i = n - 1 THEN NULL ELSE r[i + 1])
    <3>1. /\ r[i] \in D /\ r[i] # h /\ r[i] = q[i + 1] /\ i + 1 \in 1..n
          /\ l.nodes[r[i]] = N[r[i]]
      BY <1>6, <1>7, <2>2, SMTT(30)
    <3>2. /\ N[r[i]].next = list.nodes[r[i]].next
          /\ N[r[i]].prev = IF a # NULL /\ r[i] = a THEN NULL
                            ELSE list.nodes[r[i]].prev
      BY <1>5, <3>1
    <3>3. PICK k \in 1..n : k = i + 1
      BY <3>1
    <3>4. /\ list.nodes[q[k]].prev = (IF k = 1 THEN NULL ELSE q[k - 1])
          /\ list.nodes[q[k]].next = (IF k = n THEN NULL ELSE q[k + 1])
      BY DEF IsRow
    <3>5. /\ k # 1 /\ k - 1 = i /\ (k = n <=> i = n - 1)
          /\ (k # n => i + 1 \in 1..(n - 1))
          /\ (i # 1 => i - 1 \in 1..(n - 1) /\ (i - 1) + 1 = i)
          /\ (i = 1 => k = 2)
      BY <1>0, <3>3
    <3>6. l.nodes[r[i]].next = (IF i = n - 1 THEN NULL ELSE r[i + 1])
      BY <1>7, <3>1, <3>2, <3>3, <3>4, <3>5
    <3>7. CASE i = 1
      <4>1. n # 1 /\ a = q[2] /\ r[i] = q[2] /\ a # NULL
        <5>1. n # 1
          BY <1>0, <3>7
        <5>2. r[i] = q[2]
          BY <3>1, <3>7
        <5> QED
          BY <1>2, <1>3, <5>1, <5>2
      <4> QED
        BY <3>1, <3>2, <3>6, <3>7, <4>1
    <3>8. CASE i # 1
      <4>1. r[i - 1] = q[i]
        BY <1>7, <3>5, <3>8
      <4>2. list.nodes[r[i]].prev = r[i - 1]
        BY <3>1, <3>3, <3>4, <3>5, <4>1
      <4>3. r[i] # a
        <5>1. 2 \in 1..n /\ 2 < k /\ n # 1
          BY <1>0, <3>3, <3>8
        <5>2. q[2] < q[k] /\ q[2] \in Nat /\ q[k] \in Nat
          BY <1>0, <5>1
        <5> QED
          BY <1>2, <3>1, <3>3, <5>1, <5>2
      <4> QED
        BY <3>1, <3>2, <3>6, <3>8, <4>2, <4>3, SMTT(30)
    <3> QED
      BY <3>7, <3>8
  <2>8. \A i \in 1..(n - 1) : r[i] \in DOMAIN l.nodes
    BY <1>6, <2>2
  <2>9. l.len = n - 1
    BY <1>4
  <2> HIDE DEF l, r, n, D, N, h, a
  <2> QED
    BY <1>7, <2>1, <2>3, <2>4, <2>5, <2>6, <2>7, <2>8, <2>9 DEF IsRow
<1> QED
  BY <1>4, <1>5, <1>6, <1>8 DEF listNext

-----------------------------------------------------------------------------
(* The replies expected on a connection. *)

\* The node whose connection the reply to request id is read from.
AimOf(nodes, tbl, id) ==
    LET r == nodes[id].value IN IF r.slot # NULL THEN tbl[r.slot] ELSE r.node_addr

\* The requests o expected on node n's connection are those of the list that are
\* aimed at n, in the list's order.
Matches(o, nodes, tbl, n) ==
    /\ \A i \in 1..Len(o) : o[i] \in DOMAIN nodes /\ AimOf(nodes, tbl, o[i]) = n
    /\ \A i, j \in 1..Len(o) : i < j => o[i] < o[j]
    /\ \A id \in DOMAIN nodes : AimOf(nodes, tbl, id) = n => \E i \in 1..Len(o) : o[i] = id

\* The requests two lists share are the same.
Agree(nodes, nodes2) ==
    \A x \in DOMAIN nodes \cap DOMAIN nodes2 : nodes[x].value = nodes2[x].value

\* Requests that both lists hold are aimed at the same node.
LEMMA AimKept ==
    ASSUME NEW nodes, NEW nodes2, NEW tbl, Agree(nodes, nodes2),
           NEW x \in DOMAIN nodes, x \in DOMAIN nodes2
    PROVE  AimOf(nodes2, tbl, x) = AimOf(nodes, tbl, x)
  BY DEF Agree, AimOf

\* Nothing is expected where nothing is outstanding.
LEMMA MatchesEmpty ==
    ASSUME NEW o \in Seq(Nat), NEW nodes, NEW tbl, NEW n,
           DOMAIN nodes = {}, Matches(o, nodes, tbl, n)
    PROVE  o = <<>>
<1>1. Len(o) \in Nat
  OBVIOUS
<1>2. Len(o) = 0
  <2> SUFFICES ASSUME Len(o) # 0
               PROVE  FALSE
    OBVIOUS
  <2>1. 1 \in 1..Len(o)
    BY <1>1
  <2> QED
    BY <2>1 DEF Matches
<1> QED
  BY <1>2

\* A connection on which nothing is expected is in step if no request is aimed
\* at its node.
LEMMA MatchesNone ==
    ASSUME NEW nodes, NEW tbl, NEW n,
           \A id \in DOMAIN nodes : AimOf(nodes, tbl, id) # n
    PROVE  Matches(<<>>, nodes, tbl, n)
<1>1. Len(<<>>) = 0 /\ 1..0 = {}
  OBVIOUS
<1> QED
  BY <1>1 DEF Matches

\* The newest request goes behind the others on its own connection.
LEMMA MatchesAdded ==
    ASSUME NEW o \in Seq(Nat), NEW nodes, NEW nodes2, NEW tbl, NEW n, NEW id \in Nat,
           Matches(o, nodes, tbl, n), Agree(nodes, nodes2),
           DOMAIN nodes2 = DOMAIN nodes \cup {id},
           \A x \in DOMAIN nodes : x < id,
           AimOf(nodes2, tbl, id) = n
    PROVE  Matches(Append(o, id), nodes2, tbl, n)
<1> DEFINE r == Append(o, id)
           k == Len(o)
<1>1. /\ k \in Nat /\ Len(r) = k + 1
      /\ \A i \in 1..k : r[i] = o[i] /\ o[i] \in Nat
      /\ r[k + 1] = id
  OBVIOUS
<1>2. \A i \in 1..(k + 1) : i = k + 1 \/ i \in 1..k
  BY <1>1
<1>3. \A i \in 1..(k + 1) : r[i] \in DOMAIN nodes2 /\ AimOf(nodes2, tbl, r[i]) = n
  <2> SUFFICES ASSUME NEW i \in 1..(k + 1)
               PROVE  r[i] \in DOMAIN nodes2 /\ AimOf(nodes2, tbl, r[i]) = n
    OBVIOUS
  <2>1. CASE i = k + 1
    BY <1>1, <2>1
  <2>2. CASE i \in 1..k
    <3>1. o[i] \in DOMAIN nodes /\ AimOf(nodes, tbl, o[i]) = n
      BY <2>2 DEF Matches
    <3>2. AimOf(nodes2, tbl, o[i]) = AimOf(nodes, tbl, o[i])
      BY <3>1, AimKept
    <3> QED
      BY <1>1, <2>2, <3>1, <3>2
  <2> QED
    BY <1>2, <2>1, <2>2
<1>4. ASSUME NEW i \in 1..(k + 1), NEW j \in 1..(k + 1), i < j
      PROVE  r[i] < r[j]
  <2>1. i \in 1..k
    BY <1>1, <1>4
  <2>2. o[i] \in DOMAIN nodes /\ r[i] = o[i]
    BY <1>1, <2>1 DEF Matches
  <2>3. CASE j = k + 1
    BY <1>1, <2>2, <2>3
  <2>4. CASE j \in 1..k
    <3>1. o[i] < o[j]
      BY <1>4, <2>1, <2>4 DEF Matches
    <3> QED
      BY <1>1, <2>2, <2>4, <3>1
  <2> QED
    BY <1>2, <2>3, <2>4
<1>5. ASSUME NEW x \in DOMAIN nodes2, AimOf(nodes2, tbl, x) = n
      PROVE  \E i \in 1..(k + 1) : r[i] = x
  <2>1. CASE x = id
    BY <1>1, <2>1
  <2>2. CASE x \in DOMAIN nodes
    <3>1. AimOf(nodes, tbl, x) = n
      BY <1>5, <2>2, AimKept
    <3>2. PICK i \in 1..k : o[i] = x
      BY <2>2, <3>1 DEF Matches
    <3> QED
      BY <1>1, <3>2
  <2> QED
    BY <2>1, <2>2
<1> HIDE DEF r, k
<1> QED
  BY <1>1, <1>3, <1>4, <1>5 DEF Matches, r

\* A list that gains or loses a request for another node matches as before.
LEMMA MatchesKept ==
    ASSUME NEW o, NEW nodes, NEW nodes2, NEW tbl, NEW n,
           Matches(o, nodes, tbl, n), Agree(nodes, nodes2),
           \A x \in DOMAIN nodes \ DOMAIN nodes2 : AimOf(nodes, tbl, x) # n,
           \A x \in DOMAIN nodes2 \ DOMAIN nodes : AimOf(nodes2, tbl, x) # n
    PROVE  Matches(o, nodes2, tbl, n)
<1>1. ASSUME NEW i \in 1..Len(o)
      PROVE  o[i] \in DOMAIN nodes2 /\ AimOf(nodes2, tbl, o[i]) = n
  <2>1. o[i] \in DOMAIN nodes /\ AimOf(nodes, tbl, o[i]) = n
    BY DEF Matches
  <2>2. o[i] \in DOMAIN nodes2
    BY <2>1
  <2> QED
    BY <2>1, <2>2, AimKept
<1>2. ASSUME NEW x \in DOMAIN nodes2, AimOf(nodes2, tbl, x) = n
      PROVE  \E i \in 1..Len(o) : o[i] = x
  <2>1. x \in DOMAIN nodes
    BY <1>2
  <2>2. AimOf(nodes, tbl, x) = n
    BY <1>2, <2>1, AimKept
  <2> QED
    BY <2>1, <2>2 DEF Matches
<1>3. \A i, j \in 1..Len(o) : i < j => o[i] < o[j]
  BY DEF Matches
<1> QED
  BY <1>1, <1>2, <1>3 DEF Matches

\* The oldest request is the first one expected on the connection it is aimed at.
LEMMA MatchesRead ==
    ASSUME NEW o \in Seq(Nat), NEW nodes, NEW nodes2, NEW tbl, NEW n, NEW h \in Nat,
           Matches(o, nodes, tbl, n), Agree(nodes, nodes2),
           h \in DOMAIN nodes,
           \A x \in DOMAIN nodes : h <= x,
           DOMAIN nodes2 = DOMAIN nodes \ {h},
           AimOf(nodes, tbl, h) = n
    PROVE  o # <<>> /\ Head(o) = h /\ Matches(Tail(o), nodes2, tbl, n)
<1> DEFINE r == Tail(o)
           k == Len(o)
<1>1. PICK m \in 1..k : o[m] = h
  BY DEF Matches
<1>2. /\ k \in Nat /\ k >= 1 /\ 1 \in 1..k
      /\ \A i \in 1..k : o[i] \in Nat
  BY <1>1
<1>3. o[1] = h
  <2>1. m = 1 \/ 1 < m
    BY <1>2
  <2>2. CASE 1 < m
    <3>1. o[1] < o[m] /\ o[1] \in DOMAIN nodes
      BY <1>2, <2>2 DEF Matches
    <3> QED
      BY <1>1, <1>2, <3>1
  <2> QED
    BY <1>1, <2>1, <2>2
<1>4. o # <<>> /\ Head(o) = h
  BY <1>2, <1>3
<1>5. /\ Len(r) = k - 1 /\ k - 1 \in Nat
      /\ \A i \in 1..(k - 1) : r[i] = o[i + 1] /\ i + 1 \in 1..k
  BY <1>2
<1>6. ASSUME NEW i \in 1..(k - 1)
      PROVE  r[i] \in DOMAIN nodes2 /\ AimOf(nodes2, tbl, r[i]) = n
  <2>1. r[i] = o[i + 1] /\ i + 1 \in 1..k
    BY <1>5
  <2>2. 1 < i + 1
    BY <1>5
  <2>3. o[1] < o[i + 1]
    BY <1>2, <2>1, <2>2 DEF Matches
  <2>4. r[i] # h
    BY <1>2, <1>3, <2>1, <2>3
  <2>5. r[i] \in DOMAIN nodes /\ AimOf(nodes, tbl, r[i]) = n
    BY <2>1 DEF Matches
  <2>6. r[i] \in DOMAIN nodes2
    BY <2>4, <2>5
  <2> HIDE DEF r
  <2> QED
    BY <2>5, <2>6, AimKept
<1>7. ASSUME NEW i \in 1..(k - 1), NEW j \in 1..(k - 1), i < j
      PROVE  r[i] < r[j]
  <2>1. i + 1 \in 1..k /\ j + 1 \in 1..k /\ i + 1 < j + 1
    BY <1>5, <1>7
  <2>2. o[i + 1] < o[j + 1]
    BY <2>1 DEF Matches
  <2> QED
    BY <1>5, <2>2
<1>8. ASSUME NEW x \in DOMAIN nodes2, AimOf(nodes2, tbl, x) = n
      PROVE  \E i \in 1..(k - 1) : r[i] = x
  <2>1. x \in DOMAIN nodes /\ x # h
    OBVIOUS
  <2>2. AimOf(nodes, tbl, x) = n
    BY <1>8, <2>1, AimKept
  <2>3. PICK i \in 1..k : o[i] = x
    BY <2>1, <2>2 DEF Matches
  <2>4. i # 1
    BY <1>3, <2>1, <2>3
  <2>5. i - 1 \in 1..(k - 1) /\ (i - 1) + 1 = i
    BY <1>2, <2>4
  <2>6. r[i - 1] = x
    BY <1>5, <2>3, <2>5
  <2> QED
    BY <2>5, <2>6
<1>9. Matches(r, nodes2, tbl, n)
  <2> HIDE DEF r, k
  <2> QED
    BY <1>5, <1>6, <1>7, <1>8 DEF Matches
<1> QED
  BY <1>4, <1>9

-----------------------------------------------------------------------------
(* The inductive invariant. *)

IDs == DOMAIN requests.nodes
Aim(id) == AimOf(requests.nodes, table, id)
InStep(n) == Matches(con[n].out, requests.nodes, table, n)

Typed ==
    /\ known \subseteq Nodes
    /\ table \in [Slots -> Nodes \cup {NULL}]
    /\ owner \in [Slots -> Nodes \cup {NULL}]
    /\ con \in [Nodes -> Contexts \cup {NULL}]
    /\ need_update_route \in BOOLEAN /\ err \in BOOLEAN
    /\ careful \in BOOLEAN /\ failed \in BOOLEAN /\ mixed \in BOOLEAN
    /\ retry_count \in 0..MaxRetry
    /\ pc \in {"idle", "read", "drop", "clear", "blocked"}
    /\ appended \in 0..MaxAppends
    /\ stale \subseteq Slots

\* Every command adds at most one expected reply.
Counted == \A n \in Nodes : con[n] # NULL => Len(con[n].out) <= appended

\* The list is a row of requests numbered in the order of their appending, and
\* the iterator that deletes them is at its head.
ListSound ==
    /\ \E q \in Seq(Nat) : IsRow(requests, q)
    /\ \A id \in IDs : id <= appended
    /\ pc = "clear" => iter = requests.head

\* Slots are served, and contexts held, by known nodes only.
KnownOnly ==
    /\ \A s \in Slots : table[s] # NULL => table[s] \in known
    /\ \A n \in Nodes : con[n] # NULL => n \in known

\* What holds if the application is careful: usable connections are in step with
\* the list; outside of a reset that has to go through, every request has one.
CarefulSound ==
    /\ ~mixed
    /\ pc # "blocked"
    /\ pc = "read" => ~failed
    /\ pc = "idle" /\ failed => err
    /\ pc \in {"idle", "read"} => \A n \in Nodes : Usable(n) => InStep(n)
    /\ pc = "idle" /\ ~failed => \A id \in IDs : Aim(id) \in known /\ Usable(Aim(id))
    /\ pc = "read" => \A id \in IDs : Aim(id) \in known /\ con[Aim(id)] # NULL
    /\ pc = "clear" => \A n \in Nodes : Usable(n) => con[n].out = <<>>

IInv ==
    /\ Typed
    /\ Counted
    /\ ListSound
    /\ KnownOnly
    /\ careful => CarefulSound

-----------------------------------------------------------------------------
(* Facts the steps share. *)

\* An unchanged list stays sound.
LEMMA ListKept ==
    ASSUME Typed, ListSound, requests' = requests,
           appended' = appended \/ appended' = appended + 1,
           pc' = "clear" => iter' = requests.head
    PROVE  ListSound'
<1>1. PICK q \in Seq(Nat) : IsRow(requests, q)
  BY DEF ListSound
<1>2. \A x \in IDs : x \in Nat
  <2>1. PICK l : l = requests
    OBVIOUS
  <2>2. IsRow(l, q)
    BY <1>1, <2>1
  <2> QED
    BY <2>1, <2>2, RowHead DEF IDs
<1>3. appended \in Nat
  BY PipelineConstants DEF Typed
<1>4. IDs' = IDs /\ IsRow(requests', q)
  BY <1>1 DEF IDs
<1>5. \A x \in IDs' : x <= appended'
  BY <1>2, <1>3, <1>4 DEF ListSound
<1> QED
  BY <1>4, <1>5 DEF ListSound

\* The oldest request of a list that is not empty.
LEMMA ListHead ==
    ASSUME ListSound
    PROVE  /\ requests.head = NULL => IDs = {}
           /\ requests.head # NULL => requests.head \in IDs /\ requests.head \in Nat
           /\ \A x \in IDs : x \in Nat /\ requests.head <= x
<1>1. PICK q \in Seq(Nat) : IsRow(requests, q)
  BY DEF ListSound
<1>2. PICK l : l = requests
  OBVIOUS
<1>3. IsRow(l, q)
  BY <1>1, <1>2
<1> QED
  BY <1>2, <1>3, RowHead DEF IDs

\* Removing the oldest request, by valkeyClusterGetReply or by the loop of
\* valkeyClusterReset, whose iterator moved on.
LEMMA ListPopped ==
    ASSUME Typed, ListSound, requests.head # NULL,
           requests' = listDelNode(requests, requests.head),
           appended' = appended,
           pc' = "clear" => iter' = listNext(requests, requests.head)
    PROVE  /\ ListSound'
           /\ IDs' = IDs \ {requests.head}
           /\ Agree(requests.nodes, requests.nodes')
<1>1. PICK q \in Seq(Nat) : IsRow(requests, q)
  BY DEF ListSound
<1>2. PICK l : l = requests
  OBVIOUS
<1>3. IsRow(l, q) /\ l.head # NULL
  BY <1>1, <1>2
<1>4. PICK d : d = listDelNode(l, l.head)
  OBVIOUS
<1>5. /\ IsRow(d, Tail(q))
      /\ DOMAIN d.nodes = DOMAIN l.nodes \ {l.head}
      /\ \A x \in DOMAIN d.nodes : d.nodes[x].value = l.nodes[x].value
      /\ d.head = listNext(l, l.head)
  BY <1>3, <1>4, RowRemoved
<1>6. requests' = d
  BY <1>2, <1>4
<1>7. Tail(q) \in Seq(Nat)
  BY <1>5 DEF IsRow
<1>8. /\ IDs' = IDs \ {requests.head}
      /\ Agree(requests.nodes, requests.nodes')
  BY <1>2, <1>5, <1>6 DEF IDs, Agree
<1>9. ListSound'
  <2>1. \E r \in Seq(Nat) : IsRow(requests', r)
    BY <1>5, <1>6, <1>7
  <2>2. \A x \in IDs' : x <= appended'
    BY <1>8 DEF ListSound
  <2>3. pc' = "clear" => iter' = requests'.head
    BY <1>2, <1>5, <1>6
  <2> QED
    BY <2>1, <2>2, <2>3 DEF ListSound
<1> QED
  BY <1>8, <1>9

\* Appending the request with the next number.
LEMMA ListGrown ==
    ASSUME Typed, ListSound, NEW v \in Request,
           requests' = listAddNodeTail(requests, appended + 1, v),
           appended' = appended + 1,
           pc' # "clear"
    PROVE  /\ ListSound'
           /\ IDs' = IDs \cup {appended + 1}
           /\ \A x \in IDs : x < appended + 1
           /\ requests'.nodes[appended + 1].value = v
           /\ Agree(requests.nodes, requests.nodes')
<1>1. PICK q \in Seq(Nat) : IsRow(requests, q)
  BY DEF ListSound
<1>2. PICK l : l = requests
  OBVIOUS
<1>3. IsRow(l, q)
  BY <1>1, <1>2
<1>a. appended \in Nat
  BY PipelineConstants DEF Typed
<1>b. PICK id \in Nat : id = appended + 1
  BY <1>a
<1>c. \A x \in IDs : x \in Nat
  BY ListHead
<1>d. \A x \in IDs : x < id
  BY <1>a, <1>b, <1>c DEF ListSound
<1>e. \A x \in DOMAIN l.nodes : x < id
  BY <1>2, <1>d DEF IDs
<1>4. PICK d : d = listAddNodeTail(l, id, v)
  OBVIOUS
<1>5. /\ IsRow(d, Append(q, id))
      /\ DOMAIN d.nodes = DOMAIN l.nodes \cup {id}
      /\ d.nodes[id].value = v
      /\ \A x \in DOMAIN l.nodes : d.nodes[x].value = l.nodes[x].value
  BY <1>3, <1>4, <1>e, RowAdded
<1>6. requests' = d
  BY <1>2, <1>4, <1>b
<1>7. Append(q, id) \in Seq(Nat)
  BY <1>5 DEF IsRow
<1>8. /\ IDs' = IDs \cup {id}
      /\ Agree(requests.nodes, requests.nodes')
      /\ requests'.nodes[id].value = v
  BY <1>2, <1>5, <1>6 DEF IDs, Agree
<1>9. ListSound'
  <2>1. \E r \in Seq(Nat) : IsRow(requests', r)
    BY <1>5, <1>6, <1>7
  <2>2. \A x \in IDs' : x <= appended'
    BY <1>8, <1>a, <1>b, <1>c, <1>d
  <2> QED
    BY <2>1, <2>2 DEF ListSound
<1> QED
  BY <1>8, <1>9, <1>b, <1>d

\* A context with other expected replies.
LEMMA WithOut ==
    ASSUME NEW k \in Contexts, NEW o \in Seq(Nat)
    PROVE  LET c == [k EXCEPT !.out = o] IN
           c \in Contexts /\ c.out = o /\ c.st = k.st
  BY DEF Contexts

\* A context in another state.
LEMMA WithSt ==
    ASSUME NEW k \in Contexts, NEW st \in {"ok", "broken", "err"}
    PROVE  LET c == [k EXCEPT !.st = st] IN
           c \in Contexts /\ c.out = k.out /\ c.st = st
  BY DEF Contexts

\* What valkeyClusterGetValkeyContext returns: the context as it is when it is
\* usable, otherwise one on which nothing is expected.
LEMMA GotContext ==
    ASSUME Typed, Counted, NEW n \in Nodes
    PROVE  LET c == valkeyClusterGetValkeyContext(n) IN
           /\ c \in Contexts \cup {NULL}
           /\ c # NULL => Len(c.out) <= appended
           /\ Usable(n) => c = con[n]
           /\ ~Usable(n) /\ c # NULL => c.out = <<>>
           /\ con[n] # NULL => c # NULL
<1> DEFINE c == valkeyClusterGetValkeyContext(n)
<1>0. /\ con[n] \in Contexts \cup {NULL}
      /\ appended \in Nat
      /\ con[n] # NULL => Len(con[n].out) <= appended
      /\ NULL \notin Contexts
  BY PipelineConstants DEF Typed, Counted
<1>1. Fresh \in Contexts /\ Fresh.out = <<>> /\ Len(<<>>) = 0
  BY DEF Fresh, Contexts
<1>2. CASE Usable(n)
  <2>1. c = con[n]
    BY <1>2 DEF valkeyClusterGetValkeyContext
  <2> QED
    BY <1>0, <1>2, <2>1
<1>3. CASE ~Usable(n) /\ n \in alive
  <2>1. c = Fresh
    BY <1>3 DEF valkeyClusterGetValkeyContext
  <2> QED
    BY <1>0, <1>1, <1>3, <2>1
<1>4. CASE ~Usable(n) /\ n \notin alive /\ con[n] = NULL
  <2>1. c = NULL
    BY <1>4 DEF valkeyClusterGetValkeyContext
  <2> QED
    BY <1>4, <2>1
<1>5. CASE ~Usable(n) /\ n \notin alive /\ con[n] # NULL
  <2>1. c = [con[n] EXCEPT !.out = <<>>]
    BY <1>5 DEF valkeyClusterGetValkeyContext
  <2>2. PICK k \in Contexts : k = con[n]
    BY <1>0, <1>5
  <2>3. c = [k EXCEPT !.out = <<>>]
    BY <2>1, <2>2
  <2>4. c \in Contexts /\ c.out = <<>>
    BY <2>3, WithOut, <1>1 DEF Contexts, Fresh
  <2> QED
    BY <1>0, <1>1, <1>5, <2>4
<1> QED
  BY <1>2, <1>3, <1>4, <1>5

\* Between pipelines nothing is expected on a usable connection.
LEMMA NothingExpected ==
    ASSUME IInv, careful, pc = "idle", requests.head = NULL, NEW n \in Nodes, Usable(n)
    PROVE  con[n].out = <<>>
<1>1. IDs = {}
  BY ListHead DEF IInv
<1>2. InStep(n)
  BY DEF IInv, CarefulSound
<1>3. con[n] \in Contexts
  BY DEF IInv, Typed, Usable
<1>4. con[n].out \in Seq(Nat)
  BY <1>3 DEF Contexts
<1> QED
  BY <1>1, <1>2, <1>4, MatchesEmpty DEF InStep, IDs

\* With no request in the list, connections on which nothing is expected suffice.
LEMMA DrainedSound ==
    ASSUME IDs' = {}, ~mixed', pc' = "idle", failed' => err',
           \A n \in Nodes : Usable(n)' => con'[n].out = <<>>
    PROVE  CarefulSound'
<1>1. ASSUME NEW n \in Nodes, Usable(n)'
      PROVE  InStep(n)'
  <2>1. PICK nodes, tbl : nodes = requests'.nodes /\ tbl = table'
    OBVIOUS
  <2>2. DOMAIN nodes = {}
    BY <2>1 DEF IDs
  <2>3. Matches(<<>>, nodes, tbl, n)
    BY <2>2, MatchesNone
  <2>4. con'[n].out = <<>>
    BY <1>1
  <2> QED
    BY <2>1, <2>3, <2>4 DEF InStep
<1> QED
  BY <1>1 DEF CarefulSound

-----------------------------------------------------------------------------
(* The steps. *)

\* A command is appended, or its node cannot be reached.
LEMMA AppendStep ==
    ASSUME IInv, Allowed, appended < MaxAppends,
           NEW n \in known, NEW s \in Slots \cup {NULL}, s # NULL => table[s] = n,
           AppendTo(n, s),
           UNCHANGED <<pc, iter, careful, envVars, failed, mixed, stale>>
    PROVE  IInv'
<1> DEFINE c == valkeyClusterGetValkeyContext(n)
<1>a. appended \in Nat
  BY PipelineConstants DEF IInv, Typed
<1>b. PICK id \in Nat : id = appended + 1
  BY <1>a
<1>0. /\ Typed /\ Counted /\ ListSound /\ KnownOnly
      /\ n \in Nodes
      /\ appended \in Nat /\ MaxAppends \in Nat
      /\ NULL \notin Contexts
      /\ pc = "idle"
      /\ known' = known /\ table' = table /\ appended' = id
      /\ need_update_route' = need_update_route /\ retry_count' = retry_count
      /\ pc' = pc /\ careful' = careful /\ owner' = owner /\ failed' = failed
      /\ mixed' = mixed /\ stale' = stale
  BY <1>b, PipelineConstants DEF IInv, Typed, AppendTo, Allowed, envVars
<1>1. /\ c \in Contexts \cup {NULL}
      /\ c # NULL => Len(c.out) <= appended
      /\ Usable(n) => c = con[n]
      /\ ~Usable(n) /\ c # NULL => c.out = <<>>
      /\ con[n] # NULL => c # NULL
  BY <1>0, GotContext
<1>2. appended' \in 0..MaxAppends /\ appended <= appended'
  BY <1>0, <1>b
<1>3. con \in [Nodes -> Contexts \cup {NULL}]
  BY <1>0 DEF Typed
<1>4. careful => /\ ~failed /\ ~mixed
                 /\ \A m \in Nodes : Usable(m) => InStep(m)
                 /\ \A x \in IDs : Aim(x) \in known /\ Usable(Aim(x))
  BY <1>0 DEF IInv, CarefulSound, Allowed
<1>5. known \subseteq Nodes
  BY <1>0 DEF Typed
<1>6. CASE c = NULL \/ c.st = "err"
  <2>1. con' = [con EXCEPT ![n] = c] /\ err' = TRUE /\ requests' = requests
    BY <1>6 DEF AppendTo
  <2>2. ~Usable(n)
    BY <1>1, <1>6 DEF Usable
  <2>3. con'[n] = c /\ (\A m \in Nodes : m # n => con'[m] = con[m])
    BY <1>0, <1>3, <2>1
  <2>4. con' \in [Nodes -> Contexts \cup {NULL}]
    BY <1>0, <1>1, <1>3, <2>1
  <2>5. Typed'
    BY <1>0, <1>2, <2>1, <2>4 DEF Typed
  <2>6. Counted'
    <3> SUFFICES ASSUME NEW m \in Nodes, con'[m] # NULL
                 PROVE  Len(con'[m].out) <= appended'
      BY DEF Counted
    <3>1. con'[m] \in Contexts
      BY <2>4
    <3>2. Len(con'[m].out) \in Nat
      BY <3>1 DEF Contexts
    <3>3. Len(con'[m].out) <= appended
      BY <1>0, <1>1, <2>3 DEF Counted
    <3> QED
      BY <1>0, <1>2, <3>2, <3>3
  <2>7. ListSound'
    BY <1>0, <1>b, <2>1, ListKept
  <2>8. KnownOnly'
    BY <1>0, <2>3 DEF KnownOnly
  <2>9. ASSUME careful
        PROVE  CarefulSound'
    <3>1. \A m \in Nodes : Usable(m)' => Usable(m) /\ con'[m] = con[m]
      BY <1>1, <1>6, <2>3 DEF Usable
    <3>2. \A m \in Nodes : Usable(m) => Usable(m)' /\ con'[m] = con[m]
      BY <2>2, <2>3 DEF Usable
    <3>3. \A m \in Nodes : Usable(m)' => InStep(m)'
      BY <1>0, <1>4, <2>1, <2>9, <3>1 DEF InStep
    <3>4. IDs' = IDs /\ (\A x : Aim(x)' = Aim(x))
      BY <1>0, <2>1 DEF IDs, Aim
    <3>5. \A x \in IDs' : Aim(x)' \in known' /\ Usable(Aim(x))'
      <4> SUFFICES ASSUME NEW x \in IDs
                   PROVE  Aim(x)' \in known' /\ Usable(Aim(x))'
        BY <3>4
      <4>1. PICK m \in Nodes : m = Aim(x)
        BY <1>4, <1>5, <2>9
      <4>2. m \in known /\ Usable(m) /\ Aim(x)' = m
        BY <1>4, <2>9, <3>4, <4>1
      <4> QED
        BY <1>0, <3>2, <4>2 DEF Usable
    <3> QED
      BY <1>0, <1>4, <2>9, <3>3, <3>5 DEF CarefulSound
  <2> QED
    BY <1>0, <2>5, <2>6, <2>7, <2>8, <2>9 DEF IInv
<1>7. CASE ~(c = NULL \/ c.st = "err")
  <2> DEFINE v == [slot |-> s, node_addr |-> IF s = NULL THEN n ELSE NULL]
  <2>1. /\ con' = [con EXCEPT ![n] = [c EXCEPT !.out = Append(@, id)]]
        /\ err' = err
        /\ requests' = listAddNodeTail(requests, id, v)
    BY <1>7, <1>b DEF AppendTo
  <2>2. PICK k \in Contexts : k = c
    BY <1>1, <1>7
  <2>3. k.out \in Seq(Nat) /\ id \in Nat /\ k.st # "err"
    BY <1>0, <1>7, <2>2 DEF Contexts
  <2>a. Append(k.out, id) \in Seq(Nat)
    BY <2>3
  <2>4. PICK o \in Seq(Nat) : o = Append(k.out, id)
    BY <2>a
  <2>5. PICK e \in Contexts : /\ e = [k EXCEPT !.out = o]
                              /\ e.out = o /\ e.st = k.st
    BY WithOut
  <2>6. con' = [con EXCEPT ![n] = e]
    BY <2>1, <2>2, <2>4, <2>5
  <2>7. con'[n] = e /\ (\A m \in Nodes : m # n => con'[m] = con[m])
    BY <1>0, <1>3, <2>6
  <2>8. con' \in [Nodes -> Contexts \cup {NULL}]
    BY <1>0, <1>3, <2>6
  <2>9. Typed'
    BY <1>0, <1>2, <2>1, <2>8 DEF Typed
  <2>10. Counted'
    <3> SUFFICES ASSUME NEW m \in Nodes, con'[m] # NULL
                 PROVE  Len(con'[m].out) <= appended'
      BY DEF Counted
    <3>1. CASE m = n
      <4>1. Len(o) = Len(k.out) + 1 /\ Len(k.out) \in Nat
        BY <2>3, <2>4
      <4>2. Len(k.out) <= appended
        BY <1>1, <1>7, <2>2
      <4> QED
        <5>1. con'[m].out = o
          BY <2>5, <2>7, <3>1
        <5>2. appended' = appended + 1
          BY <1>0, <1>b
        <5>3. Len(o) <= appended + 1
          BY <1>a, <4>1, <4>2
        <5> QED
          BY <5>1, <5>2, <5>3
    <3>2. CASE m # n
      <4>1. con[m] \in Contexts /\ con'[m] = con[m] /\ con[m] # NULL
        BY <1>3, <2>7, <3>2
      <4>2. Len(con[m].out) \in Nat
        BY <4>1 DEF Contexts
      <4>3. Len(con[m].out) <= appended
        BY <1>0, <4>1 DEF Counted
      <4> QED
        BY <1>0, <1>2, <4>1, <4>2, <4>3
    <3> QED
      BY <3>1, <3>2
  <2>b. v \in Request
    BY <1>0 DEF Request
  <2>11. PICK w \in Request : w = v
    BY <2>b
  <2>12. /\ ListSound'
         /\ IDs' = IDs \cup {id}
         /\ \A x \in IDs : x < id
         /\ requests'.nodes[id].value = w
         /\ Agree(requests.nodes, requests.nodes')
    BY <1>0, <1>b, <2>1, <2>11, ListGrown
  <2>13. KnownOnly'
    BY <1>0, <2>7 DEF KnownOnly
  <2>14. ASSUME careful
         PROVE  CarefulSound'
    <3>1. Aim(id)' = n
      <4>1. w.slot = s /\ w.node_addr = (IF s = NULL THEN n ELSE NULL)
        BY <2>11
      <4> QED
        BY <1>0, <2>12, <4>1 DEF Aim, AimOf
    <3>2. \A x \in IDs : Aim(x)' = Aim(x)
      <4> SUFFICES ASSUME NEW x \in IDs
                   PROVE  Aim(x)' = Aim(x)
        OBVIOUS
      <4>1. x \in DOMAIN requests.nodes /\ x \in DOMAIN requests.nodes'
        BY <2>12 DEF IDs
      <4> QED
        BY <1>0, <2>12, <4>1, AimKept DEF Aim
    <3>3. id \notin IDs
      BY <2>3, <2>12
    <3>4. ASSUME NEW m \in Nodes, Usable(m)'
          PROVE  InStep(m)'
      <4>1. PICK nodes, nodes2, tbl : /\ nodes = requests.nodes
                                      /\ nodes2 = requests.nodes'
                                      /\ tbl = table
        OBVIOUS
      <4>2. /\ Agree(nodes, nodes2)
            /\ DOMAIN nodes2 = DOMAIN nodes \cup {id}
            /\ \A x \in DOMAIN nodes : x < id
            /\ AimOf(nodes2, tbl, id) = n
        BY <1>0, <2>12, <3>1, <4>1 DEF IDs, Aim
      <4>3. CASE m = n
        <5>1. Matches(k.out, nodes, tbl, n)
          <6>1. CASE Usable(n)
            <7>1. InStep(n) /\ k = con[n]
              BY <1>0, <1>1, <1>4, <2>2, <2>14, <6>1
            <7> QED
              BY <4>1, <7>1 DEF InStep
          <6>2. CASE ~Usable(n)
            <7>1. k.out = <<>>
              BY <1>1, <1>7, <2>2, <6>2
            <7>2. \A x \in DOMAIN nodes : AimOf(nodes, tbl, x) # n
              BY <1>4, <2>14, <4>1, <6>2 DEF IDs, Aim
            <7> QED
              BY <7>1, <7>2, MatchesNone
          <6> QED
            BY <6>1, <6>2
        <5>2. Matches(o, nodes2, tbl, n)
          BY <2>3, <2>4, <4>2, <5>1, MatchesAdded
        <5> QED
          BY <1>0, <2>5, <2>7, <4>1, <4>3, <5>2 DEF InStep
      <4>4. CASE m # n
        <5>1. Usable(m) /\ con'[m] = con[m]
          BY <2>7, <3>4, <4>4 DEF Usable
        <5>2. PICK g : g = con[m].out
          OBVIOUS
        <5>3. Matches(g, nodes, tbl, m)
          BY <1>4, <2>14, <4>1, <5>1, <5>2 DEF InStep
        <5>4. Matches(g, nodes2, tbl, m)
          <6>1. \A x \in DOMAIN nodes \ DOMAIN nodes2 : AimOf(nodes, tbl, x) # m
            BY <4>2
          <6>2. \A x \in DOMAIN nodes2 \ DOMAIN nodes : AimOf(nodes2, tbl, x) # m
            BY <4>2, <4>4
          <6> QED
            BY <4>2, <5>3, <6>1, <6>2, MatchesKept
        <5> QED
          BY <1>0, <4>1, <5>1, <5>2, <5>4 DEF InStep
      <4> QED
        BY <4>3, <4>4
    <3>5. ASSUME NEW x \in IDs'
          PROVE  Aim(x)' \in known' /\ Usable(Aim(x))'
      <4>0. Usable(n)'
        BY <1>0, <2>3, <2>5, <2>7 DEF Usable
      <4>1. CASE x = id
        BY <1>0, <3>1, <4>0, <4>1 DEF Usable
      <4>2. CASE x \in IDs
        <5>1. PICK m \in Nodes : m = Aim(x)
          BY <1>4, <1>5, <2>14, <4>2
        <5>2. m \in known /\ Usable(m) /\ Aim(x)' = m
          BY <1>4, <2>14, <3>2, <4>2, <5>1
        <5>3. Usable(m)'
          BY <2>7, <4>0, <5>2 DEF Usable
        <5> QED
          BY <1>0, <5>2, <5>3 DEF Usable
      <4> QED
        BY <2>12, <4>1, <4>2
    <3> QED
      BY <1>0, <1>4, <2>14, <3>4, <3>5 DEF CarefulSound
  <2> QED
    BY <1>0, <2>9, <2>10, <2>12, <2>13, <2>14 DEF IInv
<1> QED
  BY <1>6, <1>7

\* A command that is refused leaves an error behind and nothing else.
LEMMA RefusedStep ==
    ASSUME IInv, pc = "idle", err' = TRUE,
           \/ appended' = appended
           \/ appended < MaxAppends /\ appended' = appended + 1,
           UNCHANGED <<known, table, con, requests, need_update_route, retry_count, pc,
                       iter, careful, envVars, failed, mixed, stale>>
    PROVE  IInv'
<1>0. /\ Typed /\ Counted /\ ListSound /\ KnownOnly
      /\ appended \in Nat /\ MaxAppends \in Nat
      /\ known' = known /\ table' = table /\ con' = con /\ requests' = requests
      /\ need_update_route' = need_update_route /\ retry_count' = retry_count
      /\ pc' = pc /\ careful' = careful /\ owner' = owner /\ failed' = failed
      /\ mixed' = mixed /\ stale' = stale
  BY PipelineConstants DEF IInv, Typed, envVars
<1>1. appended' \in 0..MaxAppends /\ appended <= appended'
  BY <1>0 DEF Typed
<1>2. Typed'
  BY <1>0, <1>1 DEF Typed
<1>3. Counted'
  <2> SUFFICES ASSUME NEW m \in Nodes, con[m] # NULL
               PROVE  Len(con[m].out) <= appended'
    BY <1>0 DEF Counted
  <2>1. con[m] \in Contexts
    BY <1>0 DEF Typed
  <2>2. Len(con[m].out) \in Nat
    BY <2>1 DEF Contexts
  <2>3. Len(con[m].out) <= appended
    BY <1>0 DEF Counted
  <2> QED
    BY <1>0, <1>1, <2>2, <2>3
<1>4. ListSound'
  BY <1>0, ListKept
<1>5. KnownOnly'
  BY <1>0 DEF KnownOnly
<1>6. ASSUME careful
      PROVE  CarefulSound'
  <2>1. CarefulSound
    BY <1>6 DEF IInv
  <2>2. IDs' = IDs /\ (\A x : Aim(x)' = Aim(x)) /\ (\A m : Usable(m)' = Usable(m))
        /\ (\A m : InStep(m)' = InStep(m))
    BY <1>0 DEF IDs, Aim, InStep, Usable
  <2> QED
    BY <1>0, <2>1, <2>2 DEF CarefulSound, IDs, Aim, InStep, Usable
<1> QED
  BY <1>0, <1>2, <1>3, <1>4, <1>5, <1>6 DEF IInv

\* A new slot map: only nodes of the map keep their contexts.
LEMMA NewSlotmap ==
    ASSUME Typed, NEW cons \in [Nodes -> Contexts \cup {NULL}], updateNodesAndSlotmap(cons)
    PROVE  /\ known' \subseteq Nodes
           /\ table' \in [Slots -> Nodes \cup {NULL}]
           /\ con' \in [Nodes -> Contexts \cup {NULL}]
           /\ need_update_route' = FALSE /\ stale' = {}
           /\ KnownOnly'
           /\ \A m \in Nodes : con'[m] = cons[m] \/ con'[m] = NULL
<1>1. PICK nodes : nodes = {owner[s] : s \in Slots} \ {NULL}
  OBVIOUS
<1>2. /\ known' = nodes /\ table' = owner
      /\ con' = [n \in Nodes |-> IF n \in nodes THEN cons[n] ELSE NULL]
      /\ need_update_route' = FALSE /\ stale' = {}
  BY <1>1 DEF updateNodesAndSlotmap
<1>3. \A s \in Slots : owner[s] \in Nodes \cup {NULL}
  BY DEF Typed
<1>4. nodes \subseteq Nodes /\ (\A s \in Slots : owner[s] # NULL => owner[s] \in nodes)
  BY <1>1, <1>3
<1>5. con' \in [Nodes -> Contexts \cup {NULL}]
  BY <1>2
<1>6. \A m \in Nodes : /\ con'[m] = cons[m] \/ con'[m] = NULL
                       /\ con'[m] # NULL => m \in nodes
  BY <1>2
<1>7. KnownOnly'
  BY <1>2, <1>4, <1>6 DEF KnownOnly
<1> QED
  BY <1>2, <1>4, <1>5, <1>6, <1>7 DEF Typed

\* valkeyClusterUpdateSlotmap keeps a context, or drops it, or has it connected
\* anew.
LEMMA SlotmapAsked ==
    ASSUME Typed, Counted, KnownOnly, valkeyClusterUpdateSlotmap
    PROVE  /\ known' \subseteq Nodes
           /\ table' \in [Slots -> Nodes \cup {NULL}]
           /\ con' \in [Nodes -> Contexts \cup {NULL}]
           /\ need_update_route' \in BOOLEAN /\ err' \in BOOLEAN /\ stale' \subseteq Slots
           /\ KnownOnly'
           /\ \A m \in Nodes : con'[m] = con[m] \/ con'[m] = NULL \/ con'[m].out = <<>>
<1>0. known \subseteq Nodes /\ con \in [Nodes -> Contexts \cup {NULL}]
  BY DEF Typed
<1>1. PICK failing : failing = {n \in known : ~Delivers(n)}
  OBVIOUS
<1>2. CASE /\ failing = known
           /\ con' = [m \in Nodes |-> IF m \in known THEN NULL ELSE con[m]]
           /\ err' = TRUE
           /\ UNCHANGED <<known, table, need_update_route, stale>>
  <2>1. con' \in [Nodes -> Contexts \cup {NULL}]
    BY <1>0, <1>2
  <2>2. \A m \in Nodes : con'[m] = con[m] \/ con'[m] = NULL
    BY <1>2
  <2>3. KnownOnly'
    BY <1>2, <2>2 DEF KnownOnly
  <2>4. /\ known' \subseteq Nodes
        /\ table' \in [Slots -> Nodes \cup {NULL}]
        /\ need_update_route' \in BOOLEAN /\ err' \in BOOLEAN /\ stale' \subseteq Slots
    BY <1>2 DEF Typed
  <2> QED
    BY <2>1, <2>2, <2>3, <2>4
<1>3. ASSUME NEW n \in known \ failing, NEW tried \in SUBSET failing,
             updateNodesAndSlotmap([m \in Nodes |->
                IF m \in tried THEN NULL
                ELSE IF m = n THEN valkeyClusterGetValkeyContext(n) ELSE con[m]]),
             err' = FALSE
      PROVE  /\ known' \subseteq Nodes
             /\ table' \in [Slots -> Nodes \cup {NULL}]
             /\ con' \in [Nodes -> Contexts \cup {NULL}]
             /\ need_update_route' \in BOOLEAN /\ err' \in BOOLEAN /\ stale' \subseteq Slots
             /\ KnownOnly'
             /\ \A m \in Nodes : con'[m] = con[m] \/ con'[m] = NULL \/ con'[m].out = <<>>
  <2>1. n \in Nodes /\ Delivers(n)
    BY <1>0, <1>1
  <2>2. PICK c : c = valkeyClusterGetValkeyContext(n)
    OBVIOUS
  <2>3. c \in Contexts \cup {NULL}
    BY <2>1, <2>2, GotContext
  <2>4. c.out = <<>>
    BY <2>1, <2>2 DEF Delivers
  <2>5. PICK cons : cons = [m \in Nodes |-> IF m \in tried THEN NULL
                                           ELSE IF m = n THEN c ELSE con[m]]
    OBVIOUS
  <2>6. cons \in [Nodes -> Contexts \cup {NULL}]
    BY <1>0, <2>3, <2>5
  <2>7. updateNodesAndSlotmap(cons)
    BY <1>3, <2>2, <2>5
  <2>8. /\ known' \subseteq Nodes
        /\ table' \in [Slots -> Nodes \cup {NULL}]
        /\ con' \in [Nodes -> Contexts \cup {NULL}]
        /\ need_update_route' = FALSE /\ stale' = {}
        /\ KnownOnly'
        /\ \A m \in Nodes : con'[m] = cons[m] \/ con'[m] = NULL
    BY <2>6, <2>7, NewSlotmap
  <2>9. \A m \in Nodes : cons[m] = NULL \/ cons[m] = con[m] \/ cons[m].out = <<>>
    BY <2>4, <2>5
  <2> QED
    BY <1>3, <2>8, <2>9
<1> QED
  BY <1>1, <1>2, <1>3 DEF valkeyClusterUpdateSlotmap

\* A slot map update, asked for by the application or made at the end of a reset.
LEMMA SlotmapStep ==
    ASSUME IInv, valkeyClusterUpdateSlotmap, pc' = "idle", failed' = FALSE \/ failed' = failed,
           careful => /\ requests.head = NULL /\ ~failed'
                      /\ \A n \in Nodes : Usable(n) => con[n].out = <<>>,
           UNCHANGED <<requests, retry_count, iter, careful, envVars, appended, mixed>>
    PROVE  IInv'
<1>0. /\ Typed /\ Counted /\ ListSound /\ KnownOnly
      /\ appended \in Nat
      /\ requests' = requests /\ retry_count' = retry_count /\ careful' = careful
      /\ owner' = owner /\ appended' = appended /\ mixed' = mixed
  BY PipelineConstants DEF IInv, Typed, envVars
<1>1. /\ known' \subseteq Nodes
      /\ table' \in [Slots -> Nodes \cup {NULL}]
      /\ con' \in [Nodes -> Contexts \cup {NULL}]
      /\ need_update_route' \in BOOLEAN /\ err' \in BOOLEAN /\ stale' \subseteq Slots
      /\ KnownOnly'
      /\ \A m \in Nodes : con'[m] = con[m] \/ con'[m] = NULL \/ con'[m].out = <<>>
  BY <1>0, SlotmapAsked
<1>2. Typed'
  BY <1>0, <1>1 DEF Typed
<1>3. Counted'
  <2> SUFFICES ASSUME NEW m \in Nodes, con'[m] # NULL
               PROVE  Len(con'[m].out) <= appended
    BY <1>0 DEF Counted
  <2>1. CASE con'[m] = con[m]
    BY <1>0, <2>1 DEF Counted
  <2>2. CASE con'[m].out = <<>>
    BY <1>0, <2>2
  <2> QED
    BY <1>1, <2>1, <2>2
<1>4. ListSound'
  BY <1>0, ListKept
<1>5. ASSUME careful
      PROVE  CarefulSound'
  <2>1. IDs' = {}
    BY <1>0, <1>5, ListHead DEF IDs
  <2>2. ~mixed'
    BY <1>0, <1>5 DEF IInv, CarefulSound
  <2>3. ASSUME NEW m \in Nodes, Usable(m)'
        PROVE  con'[m].out = <<>>
    <3>1. con'[m] # NULL
      BY <2>3 DEF Usable
    <3>2. con'[m] = con[m] => Usable(m)
      BY <2>3 DEF Usable
    <3> QED
      BY <1>1, <1>5, <3>1, <3>2
  <2> QED
    BY <1>5, <2>1, <2>2, <2>3, DrainedSound
<1> QED
  BY <1>0, <1>1, <1>2, <1>3, <1>4, <1>5 DEF IInv

\* A command sent to a node outside of a pipeline.
LEMMA CommandStep ==
    ASSUME IInv, NEW n \in Nodes, valkeyClusterCommandToNode(n)
    PROVE  IInv'
<1> DEFINE c == valkeyClusterGetValkeyContext(n)
<1>a. appended \in Nat /\ MaxAppends \in Nat /\ appended < MaxAppends
  BY PipelineConstants DEF IInv, Typed, valkeyClusterCommandToNode
<1>b. PICK id \in Nat : id = appended + 1
  BY <1>a
<1>0. /\ Typed /\ Counted /\ ListSound /\ KnownOnly
      /\ n \in known /\ pc = "idle"
      /\ NULL \notin Contexts
      /\ appended' = id
      /\ requests' = requests /\ retry_count' = retry_count
      /\ pc' = pc /\ careful' = careful /\ owner' = owner /\ failed' = failed
  BY <1>b, PipelineConstants
     DEF IInv, Typed, valkeyClusterCommandToNode, Allowed, AllowedAlone, envVars
<1>1. /\ c \in Contexts \cup {NULL}
      /\ c # NULL => Len(c.out) <= appended
      /\ Usable(n) => c = con[n]
      /\ ~Usable(n) /\ c # NULL => c.out = <<>>
      /\ con[n] # NULL => c # NULL
  BY <1>0, GotContext
<1>2. appended' \in 0..MaxAppends /\ appended <= appended'
  BY <1>0, <1>a, <1>b
<1>3. con \in [Nodes -> Contexts \cup {NULL}]
  BY <1>0 DEF Typed
<1>4. ASSUME careful
      PROVE  /\ requests.head = NULL /\ IDs = {} /\ ~failed /\ ~mixed
             /\ \A m \in Nodes : Usable(m) => con[m].out = <<>>
             /\ c # NULL => c.out = <<>>
  <2>1. requests.head = NULL /\ ~failed /\ ~mixed
    BY <1>4 DEF valkeyClusterCommandToNode, Allowed, AllowedAlone, listFirst, IInv, CarefulSound
  <2>2. IDs = {}
    BY <1>0, <2>1, ListHead
  <2>3. \A m \in Nodes : Usable(m) => con[m].out = <<>>
    BY <1>0, <1>4, <2>1, NothingExpected
  <2> QED
    BY <1>1, <2>1, <2>2, <2>3
<1>5. ListSound'
  BY <1>0, <1>b, ListKept
<1>6. ASSUME NEW e \in Contexts \cup {NULL}, e # NULL => Len(e.out) <= appended,
             careful /\ e # NULL /\ e.st # "err" => e.out = <<>>,
             con' = [con EXCEPT ![n] = e],
             known' = known, table' = table, stale' = stale,
             err' \in BOOLEAN, need_update_route' \in BOOLEAN, mixed' \in BOOLEAN,
             careful => ~mixed'
      PROVE  IInv'
  <2>1. con'[n] = e /\ (\A m \in Nodes : m # n => con'[m] = con[m])
    BY <1>3, <1>6
  <2>2. con' \in [Nodes -> Contexts \cup {NULL}]
    BY <1>3, <1>6
  <2>3. Typed'
    BY <1>0, <1>2, <1>6, <2>2 DEF Typed
  <2>4. Counted'
    <3> SUFFICES ASSUME NEW m \in Nodes, con'[m] # NULL
                 PROVE  Len(con'[m].out) <= appended'
      BY DEF Counted
    <3>1. con'[m] \in Contexts
      BY <2>2
    <3>2. Len(con'[m].out) \in Nat
      BY <3>1 DEF Contexts
    <3>3. Len(con'[m].out) <= appended
      BY <1>0, <1>6, <2>1 DEF Counted
    <3> QED
      BY <1>a, <1>2, <3>2, <3>3
  <2>5. KnownOnly'
    BY <1>0, <1>6, <2>1 DEF KnownOnly
  <2>6. ASSUME careful
        PROVE  CarefulSound'
    <3>1. IDs' = {}
      BY <1>0, <1>4, <2>6 DEF IDs
    <3>2. ASSUME NEW m \in Nodes, Usable(m)'
          PROVE  con'[m].out = <<>>
      <4>1. CASE m = n
        BY <1>6, <2>1, <2>6, <3>2, <4>1 DEF Usable
      <4>2. CASE m # n
        <5>1. Usable(m)
          BY <2>1, <3>2, <4>2 DEF Usable
        <5> QED
          BY <1>4, <2>1, <2>6, <4>2, <5>1
      <4> QED
        BY <4>1, <4>2
    <3>3. pc' = "idle" /\ ~mixed' /\ ~failed'
      BY <1>0, <1>4, <1>6, <2>6
    <3> QED
      BY <3>1, <3>2, <3>3, DrainedSound
  <2> QED
    BY <1>0, <1>5, <2>3, <2>4, <2>5, <2>6 DEF IInv
<1>7. CASE c = NULL \/ c.st = "err"
  <2>1. /\ con' = [con EXCEPT ![n] = c]
        /\ err' = TRUE
        /\ UNCHANGED <<known, table, need_update_route, stale, mixed>>
    BY <1>7 DEF valkeyClusterCommandToNode
  <2>2. PICK e \in Contexts \cup {NULL} : e = c
    BY <1>1
  <2>3. /\ e # NULL => Len(e.out) <= appended
        /\ careful /\ e # NULL /\ e.st # "err" => e.out = <<>>
        /\ con' = [con EXCEPT ![n] = e]
    BY <1>1, <1>7, <2>1, <2>2
  <2>4. /\ err' \in BOOLEAN /\ need_update_route' \in BOOLEAN /\ mixed' \in BOOLEAN
        /\ careful => ~mixed'
    BY <1>0, <1>4, <2>1 DEF Typed
  <2> QED
    BY <1>6, <2>1, <2>3, <2>4
<1>8. ASSUME ~(c = NULL \/ c.st = "err"), c.st = "broken",
             con' = [con EXCEPT ![n] = [c EXCEPT !.st = "err"]],
             need_update_route' = TRUE, err' = TRUE,
             UNCHANGED <<known, table, stale, mixed>>
      PROVE  IInv'
  <2>1. PICK k \in Contexts : k = c
    BY <1>1, <1>8
  <2>2. PICK e \in Contexts : e = [k EXCEPT !.st = "err"] /\ e.out = k.out /\ e.st = "err"
    BY WithSt
  <2>3. /\ Len(e.out) <= appended
        /\ con' = [con EXCEPT ![n] = e]
    BY <1>1, <1>8, <2>1, <2>2
  <2>4. mixed' \in BOOLEAN /\ (careful => ~mixed')
    BY <1>0, <1>4, <1>8 DEF Typed
  <2> QED
    BY <1>6, <1>8, <2>2, <2>3, <2>4
<1>9. ASSUME ~(c = NULL \/ c.st = "err"), c.st = "ok",
             Returned(id, Head(Append(c.out, id))), err' = FALSE
      PROVE  /\ mixed' \in BOOLEAN /\ (careful => ~mixed')
             /\ err' \in BOOLEAN
             /\ c \in Contexts /\ c.out \in Seq(Nat) /\ Len(c.out) \in Nat
             /\ Len(c.out) <= appended
  <2>1. c \in Contexts
    BY <1>1, <1>9
  <2>2. c.out \in Seq(Nat)
    BY <2>1 DEF Contexts
  <2>3. mixed' \in BOOLEAN
    BY <1>9 DEF Returned
  <2>4. ASSUME careful
        PROVE  ~mixed'
    <3>1. c.out = <<>> /\ ~mixed
      BY <1>4, <1>9, <2>4
    <3>2. Head(Append(c.out, id)) = id
      BY <3>1
    <3> QED
      BY <1>9, <3>1, <3>2 DEF Returned
  <2>5. err' \in BOOLEAN
    BY <1>9
  <2>6. Len(c.out) \in Nat
    BY <2>2
  <2>7. Len(c.out) <= appended
    BY <1>1, <1>9
  <2> HIDE DEF c
  <2> QED
    BY <2>1, <2>2, <2>3, <2>4, <2>5, <2>6, <2>7
<1>10. ASSUME ~(c = NULL \/ c.st = "err"), c.st = "ok",
              Returned(id, Head(Append(c.out, id))), err' = FALSE,
              need_update_route, c.out = <<>>, updateNodesAndSlotmap([con EXCEPT ![n] = c])
       PROVE  IInv'
  <2>1. PICK cons : cons = [con EXCEPT ![n] = c]
    OBVIOUS
  <2>2. cons \in [Nodes -> Contexts \cup {NULL}] /\ updateNodesAndSlotmap(cons)
    BY <1>1, <1>3, <1>10, <2>1
  <2>3. /\ known' \subseteq Nodes
        /\ table' \in [Slots -> Nodes \cup {NULL}]
        /\ con' \in [Nodes -> Contexts \cup {NULL}]
        /\ need_update_route' = FALSE /\ stale' = {}
        /\ KnownOnly'
        /\ \A m \in Nodes : con'[m] = cons[m] \/ con'[m] = NULL
    BY <1>0, <2>2, NewSlotmap
  <2>4. \A m \in Nodes : cons[m] = con[m] \/ cons[m].out = <<>>
    BY <1>3, <1>10, <2>1
  <2>5. Typed'
    BY <1>0, <1>2, <1>9, <1>10, <2>3 DEF Typed
  <2>6. Counted'
    <3> SUFFICES ASSUME NEW m \in Nodes, con'[m] # NULL
                 PROVE  Len(con'[m].out) <= appended'
      BY DEF Counted
    <3>1. CASE con'[m] = con[m]
      <4>1. con[m] \in Contexts
        BY <2>3, <3>1
      <4>2. Len(con[m].out) \in Nat
        BY <4>1 DEF Contexts
      <4>3. Len(con[m].out) <= appended
        BY <1>0, <3>1 DEF Counted
      <4> QED
        BY <1>a, <1>2, <3>1, <4>2, <4>3
    <3>2. CASE con'[m].out = <<>>
      BY <1>2, <3>2
    <3> QED
      BY <2>3, <2>4, <3>1, <3>2
  <2>7. ASSUME careful
        PROVE  CarefulSound'
    <3>1. IDs' = {}
      BY <1>0, <1>4, <2>7 DEF IDs
    <3>2. ASSUME NEW m \in Nodes, Usable(m)'
          PROVE  con'[m].out = <<>>
      <4>1. con'[m] # NULL
        BY <3>2 DEF Usable
      <4>2. con'[m] = con[m] => Usable(m)
        BY <3>2 DEF Usable
      <4> QED
        BY <1>4, <2>3, <2>4, <2>7, <4>1, <4>2
    <3>3. pc' = "idle" /\ ~mixed' /\ ~failed'
      BY <1>0, <1>4, <1>9, <1>10, <2>7
    <3> QED
      BY <3>1, <3>2, <3>3, DrainedSound
  <2> QED
    BY <1>0, <1>5, <2>3, <2>5, <2>6, <2>7 DEF IInv
<1>11. ASSUME ~(c = NULL \/ c.st = "err"), c.st = "ok",
              Returned(id, Head(Append(c.out, id))), err' = FALSE,
              NEW o, con' = [con EXCEPT ![n] = [c EXCEPT !.out = o]],
              \/ o = Tail(Append(c.out, id))
              \/ c.out # <<>> /\ o = Append(Tail(Tail(Append(c.out, id))), 0),
              UNCHANGED <<known, table, need_update_route, stale>>
       PROVE  IInv'
  <2>1. /\ mixed' \in BOOLEAN /\ (careful => ~mixed')
        /\ err' \in BOOLEAN
        /\ c \in Contexts /\ c.out \in Seq(Nat) /\ Len(c.out) \in Nat
        /\ Len(c.out) <= appended
    BY <1>9, <1>11
  <2>2. PICK a \in Seq(Nat) : a = c.out
    BY <2>1
  <2>3. o \in Seq(Nat) /\ Len(o) = Len(a) /\ (a = <<>> => o = <<>>)
    <3>1. PICK b \in Seq(Nat) : b = Append(a, id) /\ Len(b) = Len(a) + 1
      <4>1. Append(a, id) \in Seq(Nat) /\ Len(Append(a, id)) = Len(a) + 1
        OBVIOUS
      <4> QED
        BY <4>1
    <3>2. Len(a) \in Nat /\ b # <<>>
      BY <3>1, SMTT(30)
    <3>3. PICK t \in Seq(Nat) : t = Tail(b) /\ Len(t) = Len(a)
      <4>1. Tail(b) \in Seq(Nat) /\ Len(Tail(b)) = Len(b) - 1
        BY <3>2
      <4>2. Len(Tail(b)) = Len(a)
        BY <3>1, <3>2, <4>1
      <4> QED
        BY <4>1, <4>2
    <3>4. CASE o = t
      <4>1. a = <<>> => t = <<>>
        BY <3>3
      <4> QED
        BY <3>3, <3>4, <4>1
    <3>5. CASE a # <<>> /\ o = Append(Tail(t), 0)
      <4>1. Len(t) >= 1
        BY <3>2, <3>3, <3>5
      <4>2. t # <<>>
        BY <4>1
      <4>3. Tail(t) \in Seq(Nat) /\ Len(Tail(t)) = Len(t) - 1
        BY <4>2
      <4>4. o \in Seq(Nat) /\ Len(o) = (Len(t) - 1) + 1
        BY <3>5, <4>3
      <4>5. (Len(t) - 1) + 1 = Len(a)
        BY <3>2, <3>3
      <4> QED
        BY <3>5, <4>4, <4>5
    <3> QED
      BY <1>11, <2>2, <3>1, <3>3, <3>4, <3>5
  <2>4. PICK k \in Contexts : k = c
    BY <2>1
  <2>5. PICK e \in Contexts : e = [k EXCEPT !.out = o] /\ e.out = o /\ e.st = k.st
    BY <2>3, WithOut
  <2>6. con' = [con EXCEPT ![n] = e]
    BY <1>11, <2>4, <2>5
  <2>7. careful => e.out = <<>>
    BY <1>4, <1>11, <2>2, <2>3, <2>5
  <2>8. Len(e.out) <= appended
    BY <2>1, <2>2, <2>3, <2>5
  <2>9. need_update_route' \in BOOLEAN
    BY <1>0, <1>11 DEF Typed
  <2> QED
    BY <1>6, <1>11, <2>1, <2>5, <2>6, <2>7, <2>8, <2>9
<1>12. CASE ~(c = NULL \/ c.st = "err")
  <2>1. \/ /\ c.st = "ok"
           /\ Returned(appended + 1, Head(Append(c.out, appended + 1)))
           /\ err' = FALSE
           /\ IF need_update_route
              THEN IF c.out = <<>>
                   THEN updateNodesAndSlotmap([con EXCEPT ![n] = c])
                   ELSE /\ con' = [con EXCEPT ![n] = [c EXCEPT !.out =
                                       Append(Tail(Tail(Append(c.out, appended + 1))), 0)]]
                        /\ UNCHANGED <<known, table, need_update_route, stale>>
              ELSE /\ con' = [con EXCEPT ![n] = [c EXCEPT !.out =
                                                 Tail(Append(c.out, appended + 1))]]
                   /\ UNCHANGED <<known, table, need_update_route, stale>>
        \/ /\ c.st = "broken"
           /\ con' = [con EXCEPT ![n] = [c EXCEPT !.st = "err"]]
           /\ need_update_route' = TRUE
           /\ err' = TRUE
           /\ UNCHANGED <<known, table, stale, mixed>>
    BY <1>12 DEF valkeyClusterCommandToNode
  <2> HIDE DEF c
  <2>2. CASE c.st = "broken"
    BY <1>8, <1>12, <2>1, <2>2
  <2>3. CASE c.st # "broken"
    BY <1>10, <1>11, <1>12, <1>b, <2>1, <2>3
  <2> QED
    BY <2>2, <2>3, SMTT(30)
<1> QED
  BY <1>7, <1>12

\* What the list remembers of a request.
LEMMA RequestTyped ==
    ASSUME ListSound, NEW x \in IDs
    PROVE  /\ requests.nodes[x].value.slot \in Slots \cup {NULL}
           /\ requests.nodes[x].value.node_addr \in Nodes \cup {NULL}
<1>1. PICK q \in Seq(Nat) : IsRow(requests, q)
  BY DEF ListSound
<1>2. requests.nodes \in [IDs -> ListNode]
  BY <1>1 DEF IsRow, IDs
<1>3. PICK w \in ListNode : w = requests.nodes[x]
  BY <1>2
<1>4. PICK v \in Request : v = w.value
  BY DEF ListNode
<1>5. v.slot \in Slots \cup {NULL} /\ v.node_addr \in Nodes \cup {NULL}
  BY DEF Request
<1> QED
  BY <1>3, <1>4, <1>5

\* valkeyClusterGetReply, called by the application or by valkeyClusterReset.
LEMMA ReadStep ==
    ASSUME IInv, NEW ok, NEW bad, requests.head # NULL,
           \/ pc = "idle" /\ ok = "idle" /\ bad = "idle" /\ (careful => ~failed)
           \/ pc = "read" /\ ok = "read" /\ bad = "drop",
           valkeyClusterGetReply(ok, bad),
           UNCHANGED <<iter, careful, envVars, appended>>
    PROVE  IInv'
<1>0. /\ Typed /\ Counted /\ ListSound /\ KnownOnly
      /\ known \subseteq Nodes
      /\ con \in [Nodes -> Contexts \cup {NULL}]
      /\ NULL \notin Contexts /\ NULL \notin Nodes
      /\ appended \in Nat
      /\ careful' = careful /\ owner' = owner /\ appended' = appended
  BY PipelineConstants DEF IInv, Typed, envVars
<1>1. PICK h \in Nat : h = requests.head /\ h \in IDs
  BY <1>0, ListHead
<1>2. \A x \in IDs : x \in Nat /\ h <= x
  BY <1>0, <1>1, ListHead
<1>3. PICK node : node = IF requests.nodes[h].value.slot # NULL
                         THEN table[requests.nodes[h].value.slot]
                         ELSE IF requests.nodes[h].value.node_addr \in known
                         THEN requests.nodes[h].value.node_addr ELSE NULL
  OBVIOUS
<1>4. /\ requests' = listDelNode(requests, requests.head)
      /\ IF node = NULL
         THEN /\ Done(FALSE) /\ pc' = bad
              /\ UNCHANGED <<known, table, con, need_update_route, retry_count, mixed, stale>>
         ELSE valkeyClusterGetReplyFromNode(node, h, ok, bad)
  BY <1>1, <1>3 DEF valkeyClusterGetReply, listFirst, listNodeValue
<1>5. /\ requests.nodes[h].value.slot \in Slots \cup {NULL}
      /\ requests.nodes[h].value.node_addr \in Nodes \cup {NULL}
  BY <1>0, <1>1, RequestTyped
<1>6. node \in Nodes \cup {NULL}
  <2>1. \A s \in Slots : table[s] \in Nodes \cup {NULL}
    BY <1>0 DEF Typed
  <2> QED
    BY <1>3, <1>5, <2>1
<1>7. pc' \in {ok, bad, "blocked"} /\ known' = known /\ table' = table
  BY <1>4 DEF valkeyClusterGetReplyFromNode, ReplyRead
<1>8. pc' # "clear" /\ pc' \in {"idle", "read", "drop", "clear", "blocked"}
  BY <1>7
<1>9. /\ ListSound'
      /\ IDs' = IDs \ {h}
      /\ Agree(requests.nodes, requests.nodes')
  BY <1>0, <1>1, <1>4, <1>8, ListPopped
<1>10. PICK nodes, nodes2, tbl : /\ nodes = requests.nodes
                                 /\ nodes2 = requests.nodes'
                                 /\ tbl = table
  OBVIOUS
<1>11. /\ Agree(nodes, nodes2)
       /\ DOMAIN nodes2 = DOMAIN nodes \ {h}
       /\ h \in DOMAIN nodes
       /\ \A x \in DOMAIN nodes : h <= x
  BY <1>1, <1>2, <1>9, <1>10 DEF IDs
\* The invariant follows from what happened to the connections.
<1>12. ASSUME con' \in [Nodes -> Contexts \cup {NULL}],
              \A m \in Nodes : con'[m] # NULL => /\ con[m] # NULL
                                                /\ Len(con'[m].out) <= appended,
              stale' \subseteq Slots, err' \in BOOLEAN, failed' \in BOOLEAN,
              mixed' \in BOOLEAN, need_update_route' \in BOOLEAN,
              retry_count' \in 0..MaxRetry,
              careful => CarefulSound'
       PROVE  IInv'
  <2>1. Typed'
    BY <1>0, <1>7, <1>8, <1>12 DEF Typed
  <2>2. Counted'
    BY <1>0, <1>12 DEF Counted
  <2>3. KnownOnly'
    BY <1>0, <1>7, <1>12 DEF KnownOnly
  <2> QED
    BY <1>0, <1>9, <1>12, <2>1, <2>2, <2>3 DEF IInv
\* For a careful application the head is aimed at a node with a context.
<1>13. ASSUME careful
       PROVE  /\ ~mixed
              /\ pc = "idle" => ~failed
              /\ pc = "read" => ~failed
              /\ \A m \in Nodes : Usable(m) => Matches(con[m].out, nodes, tbl, m)
              /\ \A x \in IDs : Aim(x) \in known /\ con[Aim(x)] # NULL
              /\ pc = "idle" => \A x \in IDs : Usable(Aim(x))
  BY <1>10, <1>13 DEF IInv, CarefulSound, InStep, Usable
<1>14. ASSUME careful
       PROVE  /\ node = Aim(h) /\ node \in known /\ node # NULL
              /\ con[node] # NULL
              /\ pc = "idle" => Usable(node)
  <2>1. Aim(h) \in known /\ con[Aim(h)] # NULL /\ (pc = "idle" => Usable(Aim(h)))
    BY <1>1, <1>13, <1>14
  <2>2. Aim(h) = IF requests.nodes[h].value.slot # NULL
                 THEN table[requests.nodes[h].value.slot]
                 ELSE requests.nodes[h].value.node_addr
    BY DEF Aim, AimOf
  <2>3. node = Aim(h)
    BY <1>3, <2>1, <2>2
  <2> QED
    BY <1>0, <2>1, <2>3
\* Its reply is the next one on that connection.
<1>15. ASSUME careful, Usable(node)
       PROVE  /\ con[node].out # <<>>
              /\ Head(con[node].out) = h
              /\ Matches(Tail(con[node].out), nodes2, tbl, node)
  <2>1. node \in Nodes /\ AimOf(nodes, tbl, h) = node
    BY <1>0, <1>10, <1>14, <1>15 DEF Aim
  <2>2. con[node] \in Contexts
    BY <1>0, <1>14, <1>15, <2>1
  <2>3. con[node].out \in Seq(Nat)
    BY <2>2 DEF Contexts
  <2>4. PICK o \in Seq(Nat) : o = con[node].out
    BY <2>3
  <2>5. Matches(o, nodes, tbl, node)
    BY <1>13, <1>15, <2>1, <2>4
  <2>6. o # <<>> /\ Head(o) = h /\ Matches(Tail(o), nodes2, tbl, node)
    BY <1>11, <2>1, <2>5, MatchesRead
  <2> QED
    BY <2>4, <2>6
\* The other connections are not concerned.
<1>16. ASSUME careful, NEW m \in Nodes, m # node, Usable(m)
       PROVE  Matches(con[m].out, nodes2, tbl, m)
  <2>1. PICK g : g = con[m].out
    OBVIOUS
  <2>2. Matches(g, nodes, tbl, m)
    BY <1>13, <1>16, <2>1
  <2>3. AimOf(nodes, tbl, h) = node
    BY <1>10, <1>14, <1>16 DEF Aim
  <2>4. \A x \in DOMAIN nodes \ DOMAIN nodes2 : AimOf(nodes, tbl, x) # m
    BY <1>11, <1>16, <2>3
  <2>5. \A x \in DOMAIN nodes2 \ DOMAIN nodes : AimOf(nodes2, tbl, x) # m
    BY <1>11
  <2>6. Matches(g, nodes2, tbl, m)
    BY <1>11, <2>2, <2>4, <2>5, MatchesKept
  <2> QED
    BY <2>1, <2>6
<1>17. \A x \in IDs' : x \in IDs /\ Aim(x)' = Aim(x)
  <2> SUFFICES ASSUME NEW x \in IDs'
               PROVE  x \in IDs /\ Aim(x)' = Aim(x)
    OBVIOUS
  <2>1. x \in IDs /\ x \in DOMAIN requests.nodes /\ x \in DOMAIN requests.nodes'
    BY <1>9 DEF IDs
  <2> QED
    BY <1>7, <1>9, <2>1, AimKept DEF Aim
<1>18. CASE node = NULL
  <2>1. /\ Done(FALSE) /\ pc' = bad
        /\ UNCHANGED <<known, table, con, need_update_route, retry_count, mixed, stale>>
    BY <1>4, <1>18
  <2>2. ~careful
    BY <1>14, <1>18
  <2>3. \A m \in Nodes : con'[m] # NULL => con[m] # NULL /\ Len(con'[m].out) <= appended
    BY <1>0, <2>1 DEF Counted
  <2> QED
    BY <1>0, <1>12, <2>1, <2>2, <2>3 DEF Typed, Done
<1>19. CASE node # NULL
  <2>0. node \in Nodes /\ valkeyClusterGetReplyFromNode(node, h, ok, bad)
    BY <1>4, <1>6, <1>19
  <2>1. \A m \in Nodes : con[m] # NULL => Len(con[m].out) <= appended
    BY <1>0 DEF Counted
  <2>2. ASSUME con[node] = NULL, failed' = TRUE, err' = FALSE, pc' = bad,
               UNCHANGED <<known, table, con, need_update_route, retry_count, mixed, stale>>
        PROVE  IInv'
    <3>1. ~careful
      BY <1>14, <2>2
    <3> QED
      BY <1>0, <1>12, <2>1, <2>2, <3>1 DEF Typed
  <2>3. ASSUME con[node] # NULL, con[node].st = "err",
               LET over == retry_count + 1 > MaxRetry IN
               /\ need_update_route' = (need_update_route \/ over)
               /\ retry_count' = IF need_update_route THEN retry_count
                                 ELSE IF over THEN 0 ELSE retry_count + 1,
               Done(FALSE), pc' = bad,
               UNCHANGED <<known, table, con, mixed, stale>>
        PROVE  IInv'
    <3>1. careful => pc' = "drop"
      BY <1>14, <2>3 DEF Usable
    <3>2. careful => CarefulSound'
      BY <1>13, <2>3, <3>1 DEF CarefulSound
    <3>3. retry_count' \in 0..MaxRetry
      <4>1. retry_count \in 0..MaxRetry /\ MaxRetry \in Nat
        BY <1>0, PipelineConstants DEF Typed
      <4> QED
        BY <2>3, <4>1
    <3>4. need_update_route' \in BOOLEAN
      BY <2>3
    <3>5. err' \in BOOLEAN /\ failed' \in BOOLEAN
      BY <2>3 DEF Done
    <3> QED
      BY <1>0, <1>12, <2>1, <2>3, <3>2, <3>3, <3>4, <3>5 DEF Typed
  <2>4. ASSUME con[node] # NULL, con[node].st = "broken",
               con' = [con EXCEPT ![node].st = "err"],
               Done(FALSE), pc' = bad,
               UNCHANGED <<known, table, need_update_route, retry_count, mixed, stale>>
        PROVE  IInv'
    <3>1. PICK k \in Contexts : k = con[node]
      BY <1>0, <2>0, <2>4
    <3>2. PICK e \in Contexts : e = [k EXCEPT !.st = "err"] /\ e.out = k.out /\ e.st = "err"
      BY WithSt
    <3>3. con' = [con EXCEPT ![node] = e]
      BY <2>4, <3>1, <3>2
    <3>4. con'[node] = e /\ (\A m \in Nodes : m # node => con'[m] = con[m])
      BY <1>0, <2>0, <3>3
    <3>5. con' \in [Nodes -> Contexts \cup {NULL}]
      BY <1>0, <3>3
    <3>6. \A m \in Nodes : con'[m] # NULL => con[m] # NULL /\ Len(con'[m].out) <= appended
      BY <2>0, <2>1, <2>4, <3>1, <3>2, <3>4
    <3>7. err' = TRUE /\ failed' = TRUE
      BY <2>4 DEF Done
    <3>8. ASSUME careful
          PROVE  CarefulSound'
      <4>1. ASSUME NEW m \in Nodes, Usable(m)'
            PROVE  InStep(m)'
        <5>1. m # node /\ Usable(m) /\ con'[m] = con[m]
          BY <3>2, <3>4, <4>1 DEF Usable
        <5>2. Matches(con[m].out, nodes2, tbl, m)
          BY <1>16, <3>8, <5>1
        <5> QED
          BY <1>7, <1>10, <5>1, <5>2 DEF InStep
      <4>2. ~mixed' /\ pc' # "read" /\ pc' # "clear" /\ pc' # "blocked"
        BY <1>13, <2>4, <3>8
      <4> QED
        BY <3>7, <4>1, <4>2 DEF CarefulSound
    <3> QED
      BY <1>0, <1>12, <2>4, <3>5, <3>6, <3>7, <3>8 DEF Typed
  <2>5. ASSUME Usable(node), con[node].out # <<>>, ReplyRead(node, h), Done(TRUE), pc' = ok
        PROVE  IInv'
    <3>1. PICK k \in Contexts : k = con[node]
      BY <1>0, <2>0, <2>5 DEF Usable
    <3>2. k.out \in Seq(Nat) /\ k.out # <<>> /\ k.st # "err"
      BY <2>5, <3>1 DEF Contexts, Usable
    <3>a. Tail(k.out) \in Seq(Nat) /\ Len(Tail(k.out)) = Len(k.out) - 1 /\ Len(k.out) \in Nat
      BY <3>2
    <3>3. PICK o \in Seq(Nat) : o = Tail(k.out)
      BY <3>a
    <3>4. PICK e \in Contexts : e = [k EXCEPT !.out = o] /\ e.out = o /\ e.st = k.st
      BY WithOut
    <3>b. con' = [con EXCEPT ![node].out = Tail(con[node].out)]
      BY <2>5 DEF ReplyRead
    <3>5. con' = [con EXCEPT ![node] = e]
      BY <3>b, <3>1, <3>3, <3>4
    <3>6. con'[node] = e /\ (\A m \in Nodes : m # node => con'[m] = con[m])
      BY <1>0, <2>0, <3>5
    <3>7. con' \in [Nodes -> Contexts \cup {NULL}]
      BY <1>0, <3>5
    <3>8. Len(o) <= appended
      <4>1. Len(k.out) <= appended
        BY <1>0, <2>0, <2>1, <3>1
      <4> QED
        BY <1>0, <3>a, <3>3, <4>1
    <3>9. \A m \in Nodes : con'[m] # NULL => con[m] # NULL /\ Len(con'[m].out) <= appended
      BY <2>1, <2>5, <3>4, <3>6, <3>8 DEF Usable
    <3>10. err' = FALSE /\ failed' = failed /\ failed' \in BOOLEAN
      BY <1>0, <2>5 DEF Done, Typed
    <3>11. mixed' \in BOOLEAN /\ mixed' = (mixed \/ h # Head(con[node].out))
           /\ retry_count' = retry_count
      BY <2>5 DEF ReplyRead, Returned
    <3>12. stale' \subseteq Slots /\ need_update_route' \in BOOLEAN
      <4>1. stale \subseteq Slots
        BY <1>0 DEF Typed
      <4> QED
        BY <1>5, <2>5, <4>1 DEF ReplyRead, listNodeValue
    <3>13. ASSUME careful
           PROVE  CarefulSound'
      <4>1. \A m \in Nodes : Usable(m)' <=> Usable(m)
        BY <1>0, <2>5, <3>1, <3>4, <3>6 DEF Usable
      <4>2. ASSUME NEW m \in Nodes, Usable(m)'
            PROVE  InStep(m)'
        <5>1. CASE m = node
          <6>1. Matches(o, nodes2, tbl, node)
            BY <1>15, <2>5, <3>1, <3>3, <3>13
          <6> QED
            BY <1>7, <1>10, <3>4, <3>6, <5>1, <6>1 DEF InStep
        <5>2. CASE m # node
          <6>1. Usable(m) /\ con'[m] = con[m]
            BY <3>6, <4>1, <4>2, <5>2
          <6>2. Matches(con[m].out, nodes2, tbl, m)
            BY <1>16, <3>13, <5>2, <6>1
          <6> QED
            BY <1>7, <1>10, <6>1, <6>2 DEF InStep
        <5> QED
          BY <5>1, <5>2
      <4>3. ASSUME NEW x \in IDs'
            PROVE  /\ Aim(x)' \in known' /\ con'[Aim(x)'] # NULL
                   /\ pc = "idle" => Usable(Aim(x))'
        <5>1. x \in IDs /\ Aim(x)' = Aim(x)
          BY <1>17
        <5>2. Aim(x) \in known /\ con[Aim(x)] # NULL /\ (pc = "idle" => Usable(Aim(x)))
          BY <1>13, <3>13, <5>1
        <5>3. PICK m \in Nodes : m = Aim(x)
          BY <1>0, <5>2
        <5>4. con'[m] # NULL
          BY <1>0, <3>6, <5>2, <5>3
        <5>5. pc = "idle" => Usable(m)'
          BY <4>1, <5>2, <5>3
        <5> QED
          BY <1>7, <5>1, <5>2, <5>3, <5>4, <5>5 DEF Usable
      <4>4. ~mixed'
        BY <1>13, <1>15, <2>5, <3>11, <3>13
      <4>5. pc' = pc /\ pc' \in {"idle", "read"}
        BY <2>5
      <4>6. ~failed'
        BY <1>13, <3>10, <3>13, <4>5
      <4> QED
        BY <4>2, <4>3, <4>4, <4>5, <4>6 DEF CarefulSound
    <3>14. retry_count' \in 0..MaxRetry
      BY <1>0, <3>11 DEF Typed
    <3> QED
      BY <1>12, <3>7, <3>9, <3>10, <3>11, <3>12, <3>13, <3>14
  <2>6. ASSUME con[node] # NULL, con[node].st = "ok", con[node].out = <<>>, pc' = "blocked",
               UNCHANGED <<known, table, con, need_update_route, retry_count, err, failed,
                           mixed, stale>>
        PROVE  IInv'
    <3>1. ~careful
      BY <1>15, <2>6 DEF Usable
    <3> QED
      BY <1>0, <1>12, <2>1, <2>6, <3>1 DEF Typed
  <2> QED
    BY <2>0, <2>2, <2>3, <2>4, <2>5, <2>6 DEF valkeyClusterGetReplyFromNode
<1> QED
  BY <1>18, <1>19

\* valkeyClusterClearAll, and the iterator set to the first request: after an
\* error, or after a reply could not be read.
LEMMA ClearStep ==
    ASSUME IInv, valkeyClusterClearAll, Clearing,
           UNCHANGED <<known, table, requests, need_update_route, retry_count, careful,
                       envVars, appended, failed, mixed, stale>>
    PROVE  IInv'
<1>0. /\ Typed /\ Counted /\ ListSound /\ KnownOnly
      /\ con \in [Nodes -> Contexts \cup {NULL}]
      /\ known' = known /\ table' = table /\ requests' = requests
      /\ need_update_route' = need_update_route /\ retry_count' = retry_count
      /\ careful' = careful /\ owner' = owner /\ failed' = failed
      /\ mixed' = mixed /\ stale' = stale /\ appended' = appended
      /\ pc' = "clear" /\ iter' = requests.head /\ err' = FALSE
  BY DEF IInv, Typed, envVars, Clearing, listRewind, valkeyClusterClearAll
<1>1. con' = [n \in Nodes |-> IF n \in known THEN NULL ELSE con[n]]
  BY DEF valkeyClusterClearAll
<1>2. \A m \in Nodes : con'[m] = NULL
  BY <1>0, <1>1 DEF KnownOnly
<1>3. con' \in [Nodes -> Contexts \cup {NULL}]
  BY <1>0, <1>1
<1>4. Typed'
  BY <1>0, <1>3 DEF Typed
<1>5. ListSound'
  BY <1>0, ListKept
<1>6. careful => CarefulSound'
  BY <1>0, <1>2 DEF IInv, CarefulSound, Usable
<1> QED
  BY <1>0, <1>2, <1>4, <1>5, <1>6 DEF IInv, Counted, KnownOnly

\* A reset that flushes the output first.
LEMMA FlushStep ==
    ASSUME IInv, pc = "idle", ~err, valkeyClusterSendAll, pc' = "read",
           UNCHANGED <<err, iter, known, table, requests, need_update_route, retry_count,
                       careful, envVars, appended, failed, mixed, stale>>
    PROVE  IInv'
<1>0. /\ Typed /\ Counted /\ ListSound /\ KnownOnly
      /\ known \subseteq Nodes
      /\ con \in [Nodes -> Contexts \cup {NULL}]
      /\ NULL \notin Contexts /\ appended \in Nat
      /\ known' = known /\ table' = table /\ requests' = requests /\ err' = err
      /\ need_update_route' = need_update_route /\ retry_count' = retry_count
      /\ careful' = careful /\ owner' = owner /\ failed' = failed
      /\ mixed' = mixed /\ stale' = stale /\ appended' = appended
  BY PipelineConstants DEF IInv, Typed, envVars
<1>1. PICK visited \in SUBSET known, f \in known \cup {NULL} :
        LET c == [n \in known |-> valkeyClusterGetValkeyContext(n)] IN
        /\ IF f = NULL THEN visited = known
           ELSE f \in visited /\ c[f] # NULL /\ c[f].st # "ok"
        /\ \A n \in visited \ {f} : c[n] # NULL => c[n].st # "err"
        /\ con' = [n \in Nodes |-> IF n \notin visited THEN con[n]
                                   ELSE IF n = f THEN [c[n] EXCEPT !.st = "err"]
                                   ELSE c[n]]
  BY DEF valkeyClusterSendAll
\* What becomes of each context.
<1>2. ASSUME NEW m \in Nodes
      PROVE  /\ con'[m] \in Contexts \cup {NULL}
             /\ con'[m] # NULL => Len(con'[m].out) <= appended
             /\ con'[m] # NULL => m \in known
             /\ con[m] # NULL => con'[m] # NULL
             /\ Usable(m)' => con'[m].out = IF Usable(m) THEN con[m].out ELSE <<>>
  <2>1. PICK c : c = valkeyClusterGetValkeyContext(m)
    OBVIOUS
  <2>2. /\ c \in Contexts \cup {NULL}
        /\ c # NULL => Len(c.out) <= appended
        /\ Usable(m) => c = con[m]
        /\ ~Usable(m) /\ c # NULL => c.out = <<>>
        /\ con[m] # NULL => c # NULL
    BY <1>0, <2>1, GotContext
  <2>3. CASE m \notin visited
    <3>1. con'[m] = con[m]
      BY <1>1, <2>3
    <3>2. con[m] \in Contexts \cup {NULL}
      BY <1>0
    <3>3. con[m] # NULL => Len(con[m].out) <= appended /\ m \in known
      BY <1>0 DEF Counted, KnownOnly
    <3>4. Usable(m)' => Usable(m)
      BY <3>1 DEF Usable
    <3> QED
      BY <3>1, <3>2, <3>3, <3>4
  <2>4. CASE m \in visited /\ m # f
    <3>1. m \in known /\ con'[m] = c
      BY <1>1, <2>1, <2>4
    <3>2. Usable(m)' => c # NULL
      BY <3>1 DEF Usable
    <3> QED
      BY <2>2, <3>1, <3>2
  <2>5. CASE m \in visited /\ m = f
    <3>0. m \in known /\ m \in Nodes /\ f # NULL
      BY <2>5, PipelineConstants
    <3>1. con'[m] = [c EXCEPT !.st = "err"] /\ c # NULL
      BY <1>1, <2>1, <2>5, <3>0
    <3>2. PICK k \in Contexts : k = c
      BY <2>2, <3>1
    <3>3. PICK e \in Contexts : e = [k EXCEPT !.st = "err"] /\ e.out = k.out /\ e.st = "err"
      BY WithSt
    <3>4. con'[m] = e
      BY <3>1, <3>2, <3>3
    <3>5. ~Usable(m)'
      BY <3>3, <3>4 DEF Usable
    <3> QED
      BY <1>0, <2>2, <3>0, <3>1, <3>2, <3>3, <3>4, <3>5
  <2> QED
    BY <2>3, <2>4, <2>5
<1>3. con' \in [Nodes -> Contexts \cup {NULL}]
  <2>1. \E g : con' = [n \in Nodes |-> g[n]]
    <3>1. PICK g : g = con'
      OBVIOUS
    <3>2. g = [n \in Nodes |-> g[n]]
      BY <1>1, <3>1
    <3> QED
      BY <3>1, <3>2
  <2> QED
    BY <1>2, <2>1
<1>4. Typed'
  BY <1>0, <1>3 DEF Typed
<1>5. Counted'
  BY <1>0, <1>2 DEF Counted
<1>6. ListSound'
  BY <1>0, ListKept
<1>7. KnownOnly'
  BY <1>0, <1>2 DEF KnownOnly
<1>8. ASSUME careful
      PROVE  CarefulSound'
  <2>1. /\ ~mixed /\ ~failed
        /\ \A n \in Nodes : Usable(n) => InStep(n)
        /\ \A x \in IDs : Aim(x) \in known /\ Usable(Aim(x))
    BY <1>8 DEF IInv, CarefulSound
  <2>2. IDs' = IDs /\ (\A x : Aim(x)' = Aim(x))
    BY <1>0 DEF IDs, Aim
  <2>3. ASSUME NEW m \in Nodes, Usable(m)'
        PROVE  InStep(m)'
    <3>1. con'[m].out = IF Usable(m) THEN con[m].out ELSE <<>>
      BY <1>2, <2>3
    <3>2. CASE Usable(m)
      BY <1>0, <2>1, <3>1, <3>2 DEF InStep
    <3>3. CASE ~Usable(m)
      <4>1. PICK nodes, tbl : nodes = requests.nodes /\ tbl = table
        OBVIOUS
      <4>2. \A x \in DOMAIN nodes : AimOf(nodes, tbl, x) # m
        BY <2>1, <3>3, <4>1 DEF IDs, Aim
      <4>3. Matches(<<>>, nodes, tbl, m)
        BY <4>2, MatchesNone
      <4> QED
        BY <1>0, <3>1, <3>3, <4>1, <4>3 DEF InStep
    <3> QED
      BY <3>2, <3>3
  <2>4. ASSUME NEW x \in IDs'
        PROVE  Aim(x)' \in known' /\ con'[Aim(x)'] # NULL
    <3>1. PICK m \in Nodes : m = Aim(x) /\ m \in known /\ Usable(m)
      BY <1>0, <2>1, <2>2
    <3>2. con'[m] # NULL
      BY <1>2, <3>1 DEF Usable
    <3> QED
      BY <1>0, <2>2, <3>1, <3>2
  <2> QED
    BY <1>0, <2>1, <2>3, <2>4 DEF CarefulSound
<1> QED
  BY <1>0, <1>4, <1>5, <1>6, <1>7, <1>8 DEF IInv

\* Every reply was read.
LEMMA ReadAllStep ==
    ASSUME IInv, pc = "read", requests.head = NULL, Clearing, err' = FALSE,
           UNCHANGED <<known, table, con, requests, need_update_route, retry_count,
                       failed, mixed, stale, careful, envVars, appended>>
    PROVE  IInv'
<1>0. /\ Typed /\ Counted /\ ListSound /\ KnownOnly
      /\ known' = known /\ table' = table /\ requests' = requests /\ con' = con
      /\ need_update_route' = need_update_route /\ retry_count' = retry_count
      /\ careful' = careful /\ owner' = owner /\ failed' = failed
      /\ mixed' = mixed /\ stale' = stale /\ appended' = appended
      /\ pc' = "clear" /\ iter' = requests.head
  BY DEF IInv, Typed, envVars, Clearing, listRewind
<1>1. Typed'
  BY <1>0 DEF Typed
<1>2. ListSound'
  BY <1>0, ListKept
<1>3. IDs = {}
  BY <1>0, ListHead
<1>4. ASSUME careful
      PROVE  CarefulSound'
  <2>1. CarefulSound
    BY <1>4 DEF IInv
  <2>2. ASSUME NEW m \in Nodes, Usable(m)'
        PROVE  con'[m].out = <<>>
    <3>1. Usable(m) /\ InStep(m)
      BY <1>0, <2>1, <2>2 DEF CarefulSound, Usable
    <3>2. con[m] \in Contexts
      BY <1>0, <3>1 DEF Typed, Usable
    <3>3. con[m].out \in Seq(Nat)
      BY <3>2 DEF Contexts
    <3> QED
      BY <1>0, <1>3, <3>1, <3>3, MatchesEmpty DEF InStep, IDs
  <2> QED
    BY <1>0, <2>1, <2>2 DEF CarefulSound
<1> QED
  BY <1>0, <1>1, <1>2, <1>4 DEF IInv, Counted, KnownOnly

\* One request is deleted.
LEMMA DeleteStep ==
    ASSUME IInv, ResetDelete
    PROVE  IInv'
<1>0. /\ Typed /\ Counted /\ ListSound /\ KnownOnly
      /\ known' = known /\ table' = table /\ con' = con /\ err' = err /\ pc' = pc
      /\ need_update_route' = need_update_route /\ retry_count' = retry_count
      /\ careful' = careful /\ owner' = owner /\ failed' = failed
      /\ mixed' = mixed /\ stale' = stale /\ appended' = appended
      /\ pc = "clear" /\ iter # NULL
      /\ requests' = listDelNode(requests, iter)
      /\ iter' = listNext(requests, iter)
  BY DEF IInv, Typed, envVars, ResetDelete
<1>1. iter = requests.head
  BY <1>0 DEF ListSound
<1>2. ListSound'
  BY <1>0, <1>1, ListPopped
<1>3. Typed'
  BY <1>0 DEF Typed
<1>4. careful => CarefulSound'
  BY <1>0 DEF IInv, CarefulSound, Usable
<1> QED
  BY <1>0, <1>2, <1>3, <1>4 DEF IInv, Counted, KnownOnly

\* The end of a reset.
LEMMA EndStep ==
    ASSUME IInv, ResetEnd
    PROVE  IInv'
<1>0. /\ Typed /\ Counted /\ ListSound /\ KnownOnly
      /\ pc = "clear" /\ iter = NULL /\ pc' = "idle" /\ failed' = FALSE
      /\ requests' = requests /\ retry_count' = retry_count /\ iter' = iter
      /\ careful' = careful /\ owner' = owner /\ mixed' = mixed /\ appended' = appended
  BY DEF IInv, Typed, envVars, ResetEnd
<1>1. requests.head = NULL
  BY <1>0 DEF ListSound
<1>2. careful => \A n \in Nodes : Usable(n) => con[n].out = <<>>
  BY <1>0 DEF IInv, CarefulSound
<1>3. CASE need_update_route
  <2>1. valkeyClusterUpdateSlotmap
    BY <1>3 DEF ResetEnd
  <2>2. UNCHANGED <<requests, retry_count, iter, careful, envVars, appended, mixed>>
    BY DEF ResetEnd
  <2> QED
    BY <1>0, <1>1, <1>2, <2>1, <2>2, SlotmapStep
<1>4. CASE ~need_update_route
  <2>1. UNCHANGED <<known, table, con, need_update_route, err, stale>>
    BY <1>4 DEF ResetEnd
  <2>2. Typed'
    BY <1>0, <2>1 DEF Typed
  <2>3. ListSound'
    BY <1>0, ListKept
  <2>4. ASSUME careful
        PROVE  CarefulSound'
    <3>1. IDs' = {}
      BY <1>0, <1>1, ListHead DEF IDs
    <3>2. \A n \in Nodes : Usable(n)' => con'[n].out = <<>>
      BY <1>2, <2>1, <2>4 DEF Usable
    <3>3. ~mixed'
      BY <1>0, <2>4 DEF IInv, CarefulSound
    <3> QED
      BY <1>0, <3>1, <3>2, <3>3, DrainedSound
  <2> QED
    BY <1>0, <2>1, <2>2, <2>3, <2>4 DEF IInv, Counted, KnownOnly
<1> QED
  BY <1>3, <1>4

\* A node crashes: its connection breaks, what was expected on it is not changed.
LEMMA CrashStep ==
    ASSUME IInv, NEW n \in Nodes, Crash(n)
    PROVE  IInv'
<1>0. /\ Typed /\ Counted /\ ListSound /\ KnownOnly
      /\ con \in [Nodes -> Contexts \cup {NULL}]
      /\ NULL \notin Contexts
      /\ known' = known /\ table' = table /\ requests' = requests /\ err' = err /\ pc' = pc
      /\ need_update_route' = need_update_route /\ retry_count' = retry_count
      /\ careful' = careful /\ owner' = owner /\ failed' = failed /\ iter' = iter
      /\ mixed' = mixed /\ stale' = stale /\ appended' = appended
  BY PipelineConstants DEF IInv, Typed, Crash
<1>1. \A m \in Nodes : /\ con'[m] \in Contexts \cup {NULL}
                       /\ con'[m] # NULL <=> con[m] # NULL
                       /\ con'[m] # NULL => con'[m].out = con[m].out
                       /\ Usable(m)' <=> Usable(m)
  <2> SUFFICES ASSUME NEW m \in Nodes
               PROVE  /\ con'[m] \in Contexts \cup {NULL}
                      /\ con'[m] # NULL <=> con[m] # NULL
                      /\ con'[m] # NULL => con'[m].out = con[m].out
                      /\ Usable(m)' <=> Usable(m)
    OBVIOUS
  <2>1. CASE m = n /\ Usable(n)
    <3>1. PICK k \in Contexts : k = con[n]
      BY <1>0, <2>1 DEF Usable
    <3>2. PICK e \in Contexts : /\ e = [k EXCEPT !.st = "broken"]
                                /\ e.out = k.out /\ e.st = "broken"
      BY WithSt
    <3>3. con' = [con EXCEPT ![n] = e]
      BY <2>1, <3>1, <3>2 DEF Crash
    <3>4. con'[m] = e
      BY <1>0, <2>1, <3>3
    <3> QED
      BY <1>0, <2>1, <3>1, <3>2, <3>4 DEF Usable
  <2>2. CASE ~(m = n /\ Usable(n))
    <3>1. con'[m] = con[m]
      BY <1>0, <2>2 DEF Crash
    <3> QED
      BY <1>0, <3>1 DEF Usable
  <2> QED
    BY <2>1, <2>2
<1>2. con' \in [Nodes -> Contexts \cup {NULL}]
  <2>1. \E e : con' = [con EXCEPT ![n] = e]
    BY DEF Crash
  <2> QED
    BY <1>0, <1>1, <2>1
<1>3. Typed'
  BY <1>0, <1>2 DEF Typed
<1>4. Counted'
  BY <1>0, <1>1 DEF Counted
<1>5. ListSound'
  <2>1. pc' = "clear" => iter' = requests.head
    BY <1>0 DEF ListSound
  <2> QED
    BY <1>0, <2>1, ListKept
<1>6. KnownOnly'
  BY <1>0, <1>1 DEF KnownOnly
<1>7. ASSUME careful
      PROVE  CarefulSound'
  <2>1. CarefulSound
    BY <1>7 DEF IInv
  <2>2. IDs' = IDs /\ (\A x : Aim(x)' = Aim(x))
    BY <1>0 DEF IDs, Aim
  <2>3. \A m \in Nodes : Usable(m)' => con'[m].out = con[m].out /\ (InStep(m) => InStep(m)')
    BY <1>0, <1>1 DEF InStep, Usable
  <2>4. pc' \in {"idle", "read"} => \A m \in Nodes : Usable(m)' => InStep(m)'
    BY <1>0, <1>1, <2>1, <2>3 DEF CarefulSound
  <2>5. pc' = "clear" => \A m \in Nodes : Usable(m)' => con'[m].out = <<>>
    BY <1>0, <1>1, <2>1, <2>3 DEF CarefulSound
  <2>6. ASSUME NEW x \in IDs'
        PROVE  /\ pc' = "idle" /\ ~failed' => Aim(x)' \in known' /\ Usable(Aim(x))'
               /\ pc' = "read" => Aim(x)' \in known' /\ con'[Aim(x)'] # NULL
    <3>0. x \in IDs /\ Aim(x)' = Aim(x)
      BY <2>2
    <3>1. pc = "idle" /\ ~failed => Aim(x) \in known /\ Usable(Aim(x))
      BY <2>1, <3>0 DEF CarefulSound
    <3>2. pc = "read" => Aim(x) \in known /\ con[Aim(x)] # NULL
      BY <2>1, <3>0 DEF CarefulSound
    <3>3. CASE Aim(x) \in known
      <4>1. PICK m \in Nodes : m = Aim(x)
        BY <1>0, <3>3 DEF Typed
      <4>2. Usable(m)' = Usable(Aim(x))'
        BY <3>0, <4>1 DEF Usable
      <4> QED
        BY <1>0, <1>1, <3>0, <3>1, <3>2, <4>1, <4>2
    <3>4. CASE Aim(x) \notin known
      BY <1>0, <3>1, <3>2, <3>4
    <3> QED
      BY <3>3, <3>4
  <2>7. /\ ~mixed' /\ pc' # "blocked"
        /\ pc' = "read" => ~failed'
        /\ pc' = "idle" /\ failed' => err'
    BY <1>0, <2>1 DEF CarefulSound
  <2> QED
    BY <2>4, <2>5, <2>6, <2>7 DEF CarefulSound
<1> QED
  BY <1>0, <1>3, <1>4, <1>5, <1>6, <1>7 DEF IInv

\* What happens between other nodes does not concern the client.
LEMMA QuietStep ==
    ASSUME IInv, owner' \in [Slots -> Nodes \cup {NULL}],
           UNCHANGED <<ccVars, pc, iter, careful, appended, failed, mixed, stale>>
    PROVE  IInv'
<1>0. /\ Typed /\ Counted /\ ListSound /\ KnownOnly
      /\ known' = known /\ table' = table /\ requests' = requests /\ con' = con
      /\ err' = err /\ pc' = pc
      /\ need_update_route' = need_update_route /\ retry_count' = retry_count
      /\ careful' = careful /\ failed' = failed /\ iter' = iter
      /\ mixed' = mixed /\ stale' = stale /\ appended' = appended
  BY DEF IInv, ccVars
<1>1. Typed'
  BY <1>0 DEF Typed
<1>2. ListSound'
  BY <1>0 DEF ListSound, IDs
<1>3. careful => CarefulSound'
  BY <1>0 DEF IInv, CarefulSound, Usable, IDs, Aim, InStep
<1> QED
  BY <1>0, <1>1, <1>2, <1>3 DEF IInv, Counted, KnownOnly

-----------------------------------------------------------------------------
(* The invariant. *)

\* A client that was just created.
LEMMA InitSound == Init => IInv
<1> SUFFICES ASSUME Init
             PROVE  IInv
  OBVIOUS
<1>0. \A s \in Slots : FirstOwner[s] \in Nodes
  BY PipelineConstants
<1>1. Typed
  <2>1. 0 \in 0..MaxRetry /\ 0 \in 0..MaxAppends
    BY PipelineConstants
  <2>2. table \in [Slots -> Nodes \cup {NULL}] /\ owner \in [Slots -> Nodes \cup {NULL}]
    BY PipelineConstants DEF Init
  <2>3. known \subseteq Nodes
    BY <1>0 DEF Init
  <2>4. con \in [Nodes -> Contexts \cup {NULL}]
    BY DEF Init
  <2> QED
    BY <2>1, <2>2, <2>3, <2>4 DEF Init, Typed
<1>2. \A n \in Nodes : con[n] = NULL
  BY DEF Init
<1>3. requests.head = NULL /\ requests.tail = NULL /\ requests.len = 0 /\ requests.nodes = <<>>
  BY DEF Init, listCreate
<1>4. DOMAIN requests.nodes = {} /\ requests.nodes \in [DOMAIN requests.nodes -> ListNode]
  <2>1. DOMAIN <<>> = {} /\ <<>> = [x \in {} |-> <<>>[x]]
    OBVIOUS
  <2> QED
    BY <1>3, <2>1
<1>5. <<>> \in Seq(Nat) /\ Len(<<>>) = 0 /\ 1..0 = {}
  OBVIOUS
<1>6. IsRow(requests, <<>>)
  BY <1>3, <1>4, <1>5 DEF IsRow
<1>7. ListSound
  BY <1>4, <1>5, <1>6 DEF ListSound, IDs, Init
<1>8. KnownOnly
  BY <1>2 DEF Init, KnownOnly
<1>9. CarefulSound
  BY <1>2, <1>4 DEF Init, CarefulSound, Usable, IDs
<1> QED
  BY <1>1, <1>2, <1>7, <1>8, <1>9 DEF IInv, Counted

\* Every step of the client and of the cluster preserves the invariant.
LEMMA NextSound == IInv /\ [Next]_vars => IInv'
<1> SUFFICES ASSUME IInv, [Next]_vars
             PROVE  IInv'
  OBVIOUS
<1>0. /\ owner \in [Slots -> Nodes \cup {NULL}]
      /\ \A s \in Slots : table[s] # NULL => table[s] \in known
      /\ known \subseteq Nodes
  BY DEF IInv, Typed, KnownOnly
<1>1. ASSUME NEW s \in Slots, valkeyClusterAppendCommand(s)
      PROVE  IInv'
  <2>0. /\ Allowed /\ pc = "idle" /\ appended < MaxAppends /\ s # NULL
        /\ UNCHANGED <<pc, iter, careful, envVars, failed, mixed, stale>>
    BY <1>1, PipelineConstants DEF valkeyClusterAppendCommand, Allowed
  <2>1. CASE table[s] = NULL
    <3>1. err' = TRUE /\ UNCHANGED <<known, table, con, requests, need_update_route,
                                      retry_count, appended>>
      BY <1>1, <2>1 DEF valkeyClusterAppendCommand
    <3> QED
      BY <2>0, <3>1, RefusedStep
  <2>2. CASE table[s] # NULL
    <3>1. AppendTo(table[s], s)
      BY <1>1, <2>2 DEF valkeyClusterAppendCommand
    <3>2. PICK n \in known : n = table[s]
      BY <1>0, <2>2
    <3>3. AppendTo(n, s) /\ s \in Slots \cup {NULL}
      BY <3>1, <3>2
    <3> QED
      BY <2>0, <3>2, <3>3, AppendStep
  <2> QED
    BY <2>1, <2>2
<1>2. ASSUME NEW n \in Nodes, valkeyClusterAppendCommandToNode(n)
      PROVE  IInv'
  <2>1. /\ Allowed /\ appended < MaxAppends /\ n \in known /\ AppendTo(n, NULL)
        /\ UNCHANGED <<pc, iter, careful, envVars, failed, mixed, stale>>
    BY <1>2 DEF valkeyClusterAppendCommandToNode
  <2>2. PICK s \in Slots \cup {NULL} : s = NULL
    OBVIOUS
  <2>3. AppendTo(n, s)
    BY <2>1, <2>2
  <2> QED
    BY <2>1, <2>2, <2>3, AppendStep
<1>3. CASE AppendRefused
  BY <1>3, RefusedStep DEF AppendRefused, Allowed
<1>4. ASSUME NEW n \in Nodes, valkeyClusterCommandToNode(n)
      PROVE  IInv'
  BY <1>4, CommandStep
<1>5. CASE UpdateSlotmap
  <2>1. /\ AllowedAlone /\ valkeyClusterUpdateSlotmap /\ pc = "idle"
        /\ UNCHANGED <<requests, retry_count, pc, iter, careful, envVars, appended, failed,
                       mixed>>
    BY <1>5 DEF UpdateSlotmap, AllowedAlone, Allowed
  <2>2. pc' = "idle" /\ failed' = failed
        /\ UNCHANGED <<requests, retry_count, iter, careful, envVars, appended, mixed>>
    BY <2>1
  <2>3. ASSUME careful
        PROVE  /\ requests.head = NULL /\ ~failed'
               /\ \A n \in Nodes : Usable(n) => con[n].out = <<>>
    <3>1. requests.head = NULL /\ ~failed'
      BY <2>1, <2>3 DEF AllowedAlone, Allowed, listFirst
    <3> QED
      BY <2>1, <2>3, <3>1, NothingExpected
  <2> QED
    BY <2>1, <2>2, <2>3, SlotmapStep
<1>6. CASE GetReply
  <2>0. pc = "idle" /\ (careful => ~failed)
        /\ UNCHANGED <<iter, careful, envVars, appended>>
    BY <1>6 DEF GetReply, Allowed
  <2>1. CASE requests.head = NULL
    <3>1. err' = FALSE /\ UNCHANGED <<known, table, con, requests, need_update_route,
                                       retry_count, pc, failed, mixed, stale>>
      BY <1>6, <2>1 DEF GetReply, listFirst
    <3>2. /\ known' = known /\ table' = table /\ requests' = requests /\ con' = con
          /\ pc' = pc /\ need_update_route' = need_update_route
          /\ retry_count' = retry_count /\ careful' = careful /\ failed' = failed
          /\ mixed' = mixed /\ stale' = stale /\ appended' = appended /\ owner' = owner
      BY <2>0, <3>1 DEF envVars
    <3>3. Typed /\ Counted /\ ListSound /\ KnownOnly
      BY DEF IInv
    <3>4. Typed'
      BY <3>1, <3>2, <3>3 DEF Typed
    <3>5. ListSound'
      BY <2>0, <3>2, <3>3, ListKept
    <3>6. ASSUME careful
          PROVE  CarefulSound'
      <4>1. IDs' = {}
        BY <2>1, <3>2, <3>3, ListHead DEF IDs
      <4>2. \A n \in Nodes : Usable(n) => con[n].out = <<>>
        BY <2>0, <2>1, <3>6, NothingExpected
      <4>3. \A n \in Nodes : Usable(n)' => con'[n].out = <<>>
        BY <3>2, <4>2 DEF Usable
      <4>4. ~mixed' /\ pc' = "idle" /\ ~failed'
        BY <2>0, <3>2, <3>6 DEF IInv, CarefulSound
      <4> QED
        BY <4>1, <4>3, <4>4, DrainedSound
    <3> QED
      BY <3>2, <3>3, <3>4, <3>5, <3>6 DEF IInv, Counted, KnownOnly
  <2>2. CASE requests.head # NULL
    <3>1. valkeyClusterGetReply("idle", "idle")
      BY <1>6, <2>2 DEF GetReply, listFirst
    <3>2. PICK a : a = "idle"
      OBVIOUS
    <3> QED
      BY <2>0, <2>2, <3>1, <3>2, ReadStep
  <2> QED
    BY <2>1, <2>2
<1>7. CASE ResetBegin
  <2>0. /\ pc = "idle"
        /\ UNCHANGED <<known, table, requests, need_update_route, retry_count, careful,
                       envVars, appended, failed, mixed, stale>>
    BY <1>7 DEF ResetBegin
  <2>1. CASE err
    <3>1. valkeyClusterClearAll /\ Clearing
      BY <1>7, <2>1 DEF ResetBegin
    <3> QED
      BY <2>0, <3>1, ClearStep
  <2>2. CASE ~err
    <3>1. valkeyClusterSendAll /\ pc' = "read" /\ UNCHANGED <<err, iter>>
      BY <1>7, <2>2 DEF ResetBegin
    <3> QED
      BY <2>0, <2>2, <3>1, FlushStep
  <2> QED
    BY <2>1, <2>2
<1>8. CASE ResetRead
  <2>0. pc = "read" /\ UNCHANGED <<careful, envVars, appended>>
    BY <1>8 DEF ResetRead
  <2>1. CASE requests.head = NULL
    <3>1. /\ Clearing /\ err' = FALSE
          /\ UNCHANGED <<known, table, con, requests, need_update_route, retry_count,
                         failed, mixed, stale>>
      BY <1>8, <2>1 DEF ResetRead, listFirst
    <3> QED
      BY <2>0, <2>1, <3>1, ReadAllStep
  <2>2. CASE requests.head # NULL
    <3>1. valkeyClusterGetReply("read", "drop") /\ UNCHANGED iter
      BY <1>8, <2>2 DEF ResetRead, listFirst
    <3> QED
      BY <2>0, <2>2, <3>1, ReadStep
  <2> QED
    BY <2>1, <2>2
<1>9. CASE ResetDrop
  BY <1>9, ClearStep DEF ResetDrop
<1>10. CASE ResetDelete
  BY <1>10, DeleteStep
<1>11. CASE ResetEnd
  BY <1>11, EndStep
<1>12. ASSUME NEW n \in Nodes, Crash(n)
       PROVE  IInv'
  BY <1>12, CrashStep
<1>13. ASSUME NEW n \in Nodes, Restart(n)
       PROVE  IInv'
  BY <1>0, <1>13, QuietStep DEF Restart
<1>14. ASSUME NEW s \in Slots, NEW n \in Nodes \cup {NULL}, Move(s, n)
       PROVE  IInv'
  <2>1. owner' \in [Slots -> Nodes \cup {NULL}]
    BY <1>0, <1>14 DEF Move
  <2> QED
    BY <1>14, <2>1, QuietStep DEF Move
<1>15. CASE UNCHANGED vars
  BY <1>0, <1>15, QuietStep DEF vars, ccVars, envVars
<1> QED
  BY <1>1, <1>2, <1>3, <1>4, <1>5, <1>6, <1>7, <1>8, <1>9, <1>10, <1>11, <1>12, <1>13,
     <1>14, <1>15 DEF Next, ResetStep

\* For every set of nodes and slots and every bound: the list of requests and the
\* replies expected on the connections of a pipeline stay as IInv describes them.
THEOREM PipelineInvariant == Spec => []IInv
  BY InitSound, NextSound, PTL DEF Spec

\* PipelineInStep is always true: the list of requests is well formed, and for a
\* careful application valkeyClusterGetReply and valkeyClusterCommandToNode hand
\* out the reply to the right command, a drained pipeline leaves no reply behind,
\* and no call waits for a reply that cannot come.
THEOREM RepliesOfPipeline == Spec => []PipelineInStep
<1>1. IInv => PipelineInStep
  <2> SUFFICES ASSUME IInv
               PROVE  PipelineInStep
    OBVIOUS
  <2>1. TypeOK
    <3>1. ASSUME NEW n \in Nodes, con[n] # NULL
          PROVE  con[n].st \in {"ok", "broken", "err"} /\ Len(con[n].out) <= MaxAppends + 1
      <4>1. con[n] \in Contexts
        BY <3>1 DEF IInv, Typed
      <4>2. con[n].st \in {"ok", "broken", "err"} /\ Len(con[n].out) \in Nat
        BY <4>1 DEF Contexts
      <4>3. Len(con[n].out) <= appended
        BY <3>1 DEF IInv, Counted
      <4>4. appended \in Nat /\ MaxAppends \in Nat /\ appended <= MaxAppends
        BY PipelineConstants DEF IInv, Typed
      <4>5. Len(con[n].out) <= MaxAppends + 1
        BY <4>2, <4>3, <4>4
      <4> QED
        BY <4>2, <4>5
    <3> QED
      BY <3>1 DEF IInv, Typed, TypeOK
  <2>2. RequestsWellFormed
    <3>1. PICK q \in Seq(Nat) : IsRow(requests, q)
      BY DEF IInv, ListSound
    <3>2. PICK l : l = requests
      OBVIOUS
    <3>3. WellFormed(l)
      BY <3>1, <3>2, RowWellFormed
    <3> QED
      BY <3>2, <3>3 DEF RequestsWellFormed
  <2>3. PipelineOwnReply /\ NeverStarves
    BY DEF IInv, CarefulSound, PipelineOwnReply, NeverStarves
  <2>4. CleanWhenDrained
    BY NothingExpected DEF CleanWhenDrained, listFirst
  <2> QED
    BY <2>1, <2>2, <2>3, <2>4 DEF PipelineInStep
<1> QED
  BY <1>1, PipelineInvariant, PTL

\* RedirectRemembered is always true: a slot that answered MOVED stays marked for
\* an update until a new slot map is in place.
THEOREM RedirectNotForgotten == Spec => []RedirectRemembered
<1>1. Init => RedirectRemembered
  BY DEF Init, RedirectRemembered
<1>2. ASSUME RedirectRemembered, [Next]_vars
      PROVE  RedirectRemembered'
  <2>1. ASSUME NEW cons, updateNodesAndSlotmap(cons)
        PROVE  stale' = {}
    BY <2>1 DEF updateNodesAndSlotmap
  <2>2. ASSUME valkeyClusterUpdateSlotmap
        PROVE  RedirectRemembered'
    <3>1. stale' = {} \/ UNCHANGED <<need_update_route, stale>>
      BY <2>1, <2>2 DEF valkeyClusterUpdateSlotmap
    <3> QED
      BY <1>2, <3>1 DEF RedirectRemembered
  <2>3. ASSUME NEW ok, NEW bad, valkeyClusterGetReply(ok, bad)
        PROVE  RedirectRemembered'
    <3>1. ASSUME NEW n, NEW p, ReplyRead(n, p)
          PROVE  RedirectRemembered'
      BY <1>2, <3>1 DEF ReplyRead, RedirectRemembered
    <3>2. ASSUME NEW n, NEW p, valkeyClusterGetReplyFromNode(n, p, ok, bad)
          PROVE  RedirectRemembered'
      <4>1. \/ ReplyRead(n, p)
            \/ stale' = stale /\ (need_update_route => need_update_route')
        BY <3>2 DEF valkeyClusterGetReplyFromNode
      <4> QED
        BY <1>2, <3>1, <4>1 DEF RedirectRemembered
    <3> QED
      BY <1>2, <2>3, <3>2 DEF valkeyClusterGetReply, RedirectRemembered
  <2>4. ASSUME NEW n \in Nodes, valkeyClusterCommandToNode(n)
        PROVE  RedirectRemembered'
    <3>1. \/ stale' = {}
          \/ stale' = stale /\ (need_update_route => need_update_route')
      BY <2>1, <2>4 DEF valkeyClusterCommandToNode
    <3> QED
      BY <1>2, <3>1 DEF RedirectRemembered
  <2>5. CASE UNCHANGED <<need_update_route, stale>>
    BY <1>2, <2>5 DEF RedirectRemembered
  <2>6. ASSUME NEW s \in Slots, valkeyClusterAppendCommand(s)
        PROVE  UNCHANGED <<need_update_route, stale>>
    BY <2>6 DEF valkeyClusterAppendCommand, AppendTo
  <2>7. ASSUME NEW n \in Nodes, valkeyClusterAppendCommandToNode(n)
        PROVE  UNCHANGED <<need_update_route, stale>>
    BY <2>7 DEF valkeyClusterAppendCommandToNode, AppendTo
  <2>8. CASE UpdateSlotmap
    BY <2>2, <2>8 DEF UpdateSlotmap
  <2>9. CASE GetReply
    BY <2>3, <2>5, <2>9 DEF GetReply
  <2>10. CASE ResetRead
    BY <2>3, <2>5, <2>10 DEF ResetRead
  <2>11. CASE ResetEnd
    BY <2>2, <2>5, <2>11 DEF ResetEnd
  <2>12. AppendRefused \/ ResetBegin \/ ResetDrop \/ ResetDelete
         => UNCHANGED <<need_update_route, stale>>
    BY DEF AppendRefused, ResetBegin, ResetDrop, ResetDelete
  <2>13. (\E n \in Nodes : Crash(n) \/ Restart(n)) => UNCHANGED <<need_update_route, stale>>
    BY DEF Crash, Restart, ccVars
  <2>14. (\E s \in Slots, n \in Nodes \cup {NULL} : Move(s, n))
         => UNCHANGED <<need_update_route, stale>>
    BY DEF Move, ccVars
  <2>15. UNCHANGED vars => UNCHANGED <<need_update_route, stale>>
    BY DEF vars, ccVars
  <2> QED
    BY <1>2, <2>4, <2>5, <2>6, <2>7, <2>8, <2>9, <2>10, <2>11, <2>12, <2>13, <2>14, <2>15
       DEF Next, ResetStep
<1> QED
  BY <1>1, <1>2, PTL DEF Spec
=============================================================================
