------------------------- MODULE ClusterAsyncProof -------------------------
(***************************************************************************)
(* Proofs about the asynchronous cluster client (ClusterAsync), for every  *)
(* set of nodes and slots, every limit on retries, every number of         *)
(* commands and every scenario.                                            *)
(***************************************************************************)
EXTENDS ClusterAsync, FiniteSetTheorems, TLAPS

-----------------------------------------------------------------------------
(* The inductive invariant. *)

AccType == [nodes: SUBSET Nodes, table: {NULL} \cup [Slots -> Nodes],
            ctx: [Nodes -> {NULL} \cup ContextType], attempted: SUBSET Nodes,
            lastSlotmapUpdateAttempt: {"old", "recent", "ongoing"}, err: BOOLEAN,
            disconnecting: BOOLEAN, freed: BOOLEAN]

\* Two callbacks that wait for the same thing: for one command, or for a slot map.
Alike(x, y) == \/ x.k = "slots" /\ y.k = "slots"
               \/ x.k = "cmd" /\ y.k = "cmd" /\ x.id = y.id

\* Node n's context has its i-th callback.
Place(a, n, i) == a.ctx[n] # NULL /\ i \in 1..Len(a.ctx[n].q)
At(a, n, i) == a.ctx[n].q[i]

Queued(a) == CallbacksOf(a, Nodes)
CmdsIn(S) == {x \in S : x.k = "cmd"}

\* Contexts belong to known nodes, and so do slots.
Known(a) ==
    /\ a \in AccType
    /\ a.nodes # {}
    /\ a.table # NULL => \A s \in Slots : a.table[s] \in a.nodes
    /\ \A n \in Nodes : a.ctx[n] # NULL => n \in a.nodes

\* Nothing waits in two places, in the queues of a and among the orphans o.
Unique(a, o) ==
    /\ \A n, m \in Nodes : \A i, j \in Nat :
         Place(a, n, i) /\ Place(a, m, j) /\ Alike(At(a, n, i), At(a, m, j))
            => n = m /\ i = j
    /\ \A n \in Nodes : \A i \in Nat : \A x \in o :
         Place(a, n, i) => ~Alike(At(a, n, i), x)
    /\ \A x, y \in o : Alike(x, y) => x = y

\* A slot map is waited for when the time stamp says so.
Ongoing(a, o) == a.lastSlotmapUpdateAttempt = "ongoing" <=> SlotsCb \in Queued(a) \cup o

\* No slot map is waited for, whatever the time stamp says.
Idle(a, o) == /\ Known(a) /\ o \subseteq CallbackType /\ Unique(a, o)
              /\ SlotsCb \notin Queued(a) \cup o

Good(a, o) == Known(a) /\ o \subseteq CallbackType /\ Unique(a, o) /\ Ongoing(a, o)

\* A waiting command was accepted and not called back, and each send but the
\* first was counted.
Paid(x) ==
    /\ x.id \in accepted /\ calls[x.id] = 0
    /\ \/ x.rc = NO_RETRY /\ sends[x.id] <= 1
       \/ /\ x.rc \in 0..MaxRetry /\ x.slot \in Slots /\ acc.table # NULL
          /\ sends[x.id] <= x.rc + 1

Accounted ==
    /\ owner \in [Slots -> Nodes] /\ budget \in ScenarioType
    /\ issued \in 0..MaxCmds /\ accepted \subseteq 1..issued
    /\ calls \in [Cmds -> {0, 1}] /\ sends \in [Cmds -> 0..MaxRetry + 1]
    /\ \A x \in CmdsIn(Callbacks) : Paid(x)
    /\ \A c \in Cmds : calls[c] = 1 => c \in accepted
    /\ \A c \in accepted : calls[c] = 1 \/ \E x \in CmdsIn(Callbacks) : x.id = c

IInv == Good(acc, orphans) /\ Accounted

\* Once a client disconnects it opens no context.
StaysClosed(a, b) == a.disconnecting => \A n \in Nodes : a.ctx[n] = NULL => b.ctx[n] = NULL

\* From a to b the client keeps its nodes, its slot map and its commands.
Kept(a, b) == /\ b.nodes = a.nodes /\ b.table = a.table
              /\ b.disconnecting = a.disconnecting
              /\ CmdsIn(Queued(b)) = CmdsIn(Queued(a))
              /\ StaysClosed(a, b)

\* From a with orphans o to b with orphans p the command of callback x has left
\* the queues, and no other.
Without(a, o, b, p, x) ==
    /\ a.table # NULL => b.table # NULL
    /\ b.disconnecting = a.disconnecting
    /\ CmdsIn(Queued(a) \cup o) = CmdsIn(Queued(b) \cup p) \cup {x}
    /\ \A y \in CmdsIn(Queued(b) \cup p) : y.id # x.id
    /\ StaysClosed(a, b)

-----------------------------------------------------------------------------
(* Queues of contexts. *)

\* The parts of a cluster context.
LEMMA AccFacts ==
    ASSUME NEW a \in AccType
    PROVE  /\ a.nodes \in SUBSET Nodes /\ a.table \in {NULL} \cup [Slots -> Nodes]
           /\ a.ctx \in [Nodes -> {NULL} \cup ContextType] /\ a.attempted \in SUBSET Nodes
           /\ a.lastSlotmapUpdateAttempt \in {"old", "recent", "ongoing"}
           /\ a.err \in BOOLEAN /\ a.disconnecting \in BOOLEAN /\ a.freed \in BOOLEAN
BY DEF AccType

\* The parts of a node's context.
LEMMA ContextFacts ==
    ASSUME NEW a \in AccType, NEW n \in Nodes, a.ctx[n] # NULL
    PROVE  /\ a.ctx[n] \in ContextType
           /\ a.ctx[n].up \in BOOLEAN /\ a.ctx[n].err \in BOOLEAN
           /\ a.ctx[n].st \in {"open", "closing", "dying"}
           /\ a.ctx[n].q \in Seq(CallbackType)
           /\ DOMAIN a.ctx[n].q = 1..Len(a.ctx[n].q)
           /\ Len(a.ctx[n].q) \in Nat
           /\ \A i \in 1..Len(a.ctx[n].q) : a.ctx[n].q[i] \in CallbackType
<1>1. a.ctx[n] \in ContextType
  BY AccFacts
<1>2. /\ a.ctx[n].up \in BOOLEAN /\ a.ctx[n].err \in BOOLEAN
      /\ a.ctx[n].st \in {"open", "closing", "dying"} /\ a.ctx[n].q \in Seq(CallbackType)
  BY <1>1 DEF ContextType
<1> QED
  BY <1>1, <1>2

\* A callback waits in a client if it has a place in the queue of some context.
LEMMA QueuedPlaces ==
    ASSUME NEW a \in AccType, NEW x
    PROVE  x \in Queued(a) <=> \E n \in Nodes : \E i \in Nat : Place(a, n, i) /\ At(a, n, i) = x
<1>1. x \in Queued(a) <=> \E n \in Nodes : a.ctx[n] # NULL /\ x \in Range(a.ctx[n].q)
  BY DEF Queued, CallbacksOf
<1>2. ASSUME NEW n \in Nodes, a.ctx[n] # NULL
      PROVE  x \in Range(a.ctx[n].q) <=> \E i \in Nat : Place(a, n, i) /\ At(a, n, i) = x
  <2>1. DOMAIN a.ctx[n].q = 1..Len(a.ctx[n].q) /\ Len(a.ctx[n].q) \in Nat
    BY <1>2, ContextFacts
  <2> QED
    BY <1>2, <2>1 DEF Range, Place, At
<1>3. \A n \in Nodes : \A i \in Nat : Place(a, n, i) => a.ctx[n] # NULL
  BY DEF Place
<1> QED
  BY <1>1, <1>2, <1>3

\* What waits is a callback.
LEMMA QueuedTyped ==
    ASSUME NEW a \in AccType
    PROVE  Queued(a) \subseteq CallbackType
<1>1. ASSUME NEW n \in Nodes, NEW i \in Nat, Place(a, n, i)
      PROVE  At(a, n, i) \in CallbackType
  BY <1>1, ContextFacts DEF Place, At
<1> QED
  BY <1>1, QueuedPlaces

\* Callbacks of the three kinds that are not commands are told apart, and are
\* alike only if they wait for a slot map.
LEMMA CallbackKinds ==
    /\ SlotsCb \in CallbackType /\ AskingCb \in CallbackType /\ SelectCb \in CallbackType
    /\ SlotsCb.k = "slots" /\ AskingCb.k = "asking" /\ SelectCb.k = "select"
    /\ \A x \in CallbackType : /\ x.k \in {"slots", "asking", "select", "cmd"}
                               /\ x.k = "slots" => x = SlotsCb
                               /\ x.k = "select" => x = SelectCb
                               /\ x.k = "asking" => x = AskingCb
                               /\ x.k = "cmd" => x.id \in Cmds /\ x.rc \in Int
                                                 /\ x.slot \in Slots \cup {NULL}
                                                 /\ x \in [k: {"cmd"}, id: Cmds,
                                                           slot: Slots \cup {NULL}, rc: Int]
BY DEF CallbackType, SlotsCb, AskingCb, SelectCb

\* A client with the same contexts has the same callbacks in the same places.
LEMMA SameContexts ==
    ASSUME NEW a, NEW b, b.ctx = a.ctx, NEW o
    PROVE  /\ Queued(b) = Queued(a)
           /\ Unique(a, o) => Unique(b, o)
           /\ StaysClosed(a, b)
BY DEF Queued, CallbacksOf, Unique, Place, At, StaysClosed

\* A client that differs in its error, its throttle and the like only.
LEMMA SameGood ==
    ASSUME NEW a, NEW b \in AccType, NEW o, Good(a, o), b.ctx = a.ctx,
           b.nodes = a.nodes, b.table = a.table, b.disconnecting = a.disconnecting,
           b.lastSlotmapUpdateAttempt = a.lastSlotmapUpdateAttempt
    PROVE  Good(b, o) /\ Kept(a, b)
BY SameContexts DEF Good, Known, Ongoing, Kept

-----------------------------------------------------------------------------
(* Callbacks join and leave queues. *)

\* A context with another queue.
LEMMA Requeued ==
    ASSUME NEW x \in ContextType, NEW q \in Seq(CallbackType)
    PROVE  /\ [x EXCEPT !.q = q] \in ContextType
           /\ [x EXCEPT !.q = q].q = q /\ [x EXCEPT !.q = q].st = x.st
           /\ [x EXCEPT !.q = q].up = x.up /\ [x EXCEPT !.q = q].err = x.err
           /\ [x EXCEPT !.q = q] # NULL
BY NullAssumption DEF ContextType

\* A client with another context for one of its nodes.
LEMMA Replaced ==
    ASSUME NEW a \in AccType, NEW n \in Nodes, NEW x \in {NULL} \cup ContextType
    PROVE  LET b == [a EXCEPT !.ctx = [a.ctx EXCEPT ![n] = x]] IN
           /\ b \in AccType
           /\ b.nodes = a.nodes /\ b.table = a.table /\ b.disconnecting = a.disconnecting
           /\ b.attempted = a.attempted /\ b.err = a.err /\ b.freed = a.freed
           /\ b.lastSlotmapUpdateAttempt = a.lastSlotmapUpdateAttempt
           /\ \A m \in Nodes \ {n} : b.ctx[m] = a.ctx[m]
           /\ b.ctx[n] = x
<1>1. a.ctx \in [Nodes -> {NULL} \cup ContextType]
  BY AccFacts
<1> DEFINE f == [a.ctx EXCEPT ![n] = x]
<1>2. /\ f \in [Nodes -> {NULL} \cup ContextType] /\ f[n] = x
      /\ \A m \in Nodes \ {n} : f[m] = a.ctx[m]
  BY <1>1
<1> HIDE DEF f
<1>3. LET b == [a EXCEPT !.ctx = f] IN
      /\ b \in AccType /\ b.ctx = f
      /\ b.nodes = a.nodes /\ b.table = a.table /\ b.disconnecting = a.disconnecting
      /\ b.attempted = a.attempted /\ b.err = a.err /\ b.freed = a.freed
      /\ b.lastSlotmapUpdateAttempt = a.lastSlotmapUpdateAttempt
  BY <1>2 DEF AccType
<1> QED
  BY <1>2, <1>3 DEF f

\* Send, part by part.
LEMMA SentParts ==
    ASSUME NEW a \in AccType, NEW n \in Nodes, a.ctx[n] # NULL, NEW cb \in CallbackType
    PROVE  LET b == Send(a, n, cb) IN
           /\ b \in AccType
           /\ b.nodes = a.nodes /\ b.table = a.table /\ b.disconnecting = a.disconnecting
           /\ b.attempted = a.attempted /\ b.err = a.err /\ b.freed = a.freed
           /\ b.lastSlotmapUpdateAttempt = a.lastSlotmapUpdateAttempt
           /\ \A m \in Nodes \ {n} : b.ctx[m] = a.ctx[m]
           /\ b.ctx[n] # NULL /\ b.ctx[n].q = Append(a.ctx[n].q, cb)
           /\ b.ctx[n].st = a.ctx[n].st /\ b.ctx[n].up = a.ctx[n].up
           /\ b.ctx[n].err = a.ctx[n].err
<1> DEFINE b == Send(a, n, cb)
           c == [a.ctx[n] EXCEPT !.q = Append(@, cb)]
<1>1. a.ctx[n] \in ContextType /\ a.ctx[n].q \in Seq(CallbackType)
  BY ContextFacts
<1>2. Append(a.ctx[n].q, cb) \in Seq(CallbackType)
  BY <1>1
<1>3. c \in ContextType /\ c.q = Append(a.ctx[n].q, cb) /\ c.st = a.ctx[n].st
      /\ c.up = a.ctx[n].up /\ c.err = a.ctx[n].err /\ c # NULL
  BY <1>1, <1>2, Requeued
<1>4. b = [a EXCEPT !.ctx = [a.ctx EXCEPT ![n] = c]]
  BY DEF Send
<1> HIDE DEF c
<1> QED
  BY <1>3, <1>4, Replaced

\* A callback that is like no other joins a queue.
LEMMA SentUnique ==
    ASSUME NEW a, NEW o, Known(a), Unique(a, o), o \subseteq CallbackType,
           NEW n \in Nodes, a.ctx[n] # NULL, NEW cb \in CallbackType,
           \A x \in Queued(a) \cup o : ~Alike(x, cb)
    PROVE  LET b == Send(a, n, cb) IN
           Known(b) /\ Unique(b, o) /\ Queued(b) = Queued(a) \cup {cb}
<1> DEFINE b == Send(a, n, cb)
           L == Len(a.ctx[n].q)
<1>0. a \in AccType
  BY DEF Known
<1>1. /\ b \in AccType /\ b.nodes = a.nodes /\ b.table = a.table
      /\ \A m \in Nodes \ {n} : b.ctx[m] = a.ctx[m]
      /\ b.ctx[n] # NULL /\ b.ctx[n].q = Append(a.ctx[n].q, cb)
  BY <1>0, SentParts
<1> HIDE DEF b
<1>2. a.ctx[n].q \in Seq(CallbackType) /\ L \in Nat
  BY <1>0, ContextFacts
<1>3. /\ Len(b.ctx[n].q) = L + 1 /\ b.ctx[n].q[L + 1] = cb
      /\ \A i \in 1..L : b.ctx[n].q[i] = a.ctx[n].q[i]
  BY <1>1, <1>2
<1> HIDE DEF L
<1>4. ASSUME NEW m \in Nodes, NEW i \in Nat, Place(b, m, i)
      PROVE  \/ Place(a, m, i) /\ At(b, m, i) = At(a, m, i)
             \/ m = n /\ i = L + 1 /\ At(b, m, i) = cb
  <2>1. CASE m # n
    BY <1>1, <1>4, <2>1 DEF Place, At
  <2>2. CASE m = n
    <3>1. i \in 1..(L + 1)
      BY <1>3, <1>4, <2>2 DEF Place
    <3>2. CASE i = L + 1
      BY <1>3, <2>2, <3>2 DEF At
    <3>3. CASE i \in 1..L
      BY <1>3, <2>2, <3>3 DEF Place, At, L
    <3> QED
      BY <1>2, <3>1, <3>2, <3>3
  <2> QED
    BY <2>1, <2>2
<1>5. ASSUME NEW m \in Nodes, NEW i \in Nat, Place(a, m, i)
      PROVE  Place(b, m, i) /\ At(b, m, i) = At(a, m, i)
  <2>1. CASE m # n
    BY <1>1, <1>5, <2>1 DEF Place, At
  <2>2. CASE m = n
    <3>1. i \in 1..L
      BY <1>5, <2>2 DEF Place, L
    <3> QED
      BY <1>1, <1>2, <1>3, <2>2, <3>1, SMTT(30) DEF Place, At
  <2> QED
    BY <2>1, <2>2
<1>6. Place(b, n, L + 1) /\ At(b, n, L + 1) = cb /\ L + 1 \in Nat
  BY <1>1, <1>2, <1>3 DEF Place, At
<1>7. \A m \in Nodes : \A i \in Nat : Place(a, m, i) => At(a, m, i) \in Queued(a)
  BY <1>0, QueuedPlaces
<1>8. Queued(b) = Queued(a) \cup {cb}
  <2>1. ASSUME NEW x \in Queued(b)
        PROVE  x \in Queued(a) \cup {cb}
    <3>1. PICK m \in Nodes, i \in Nat : Place(b, m, i) /\ At(b, m, i) = x
      BY <1>1, <2>1, QueuedPlaces
    <3> QED
      BY <1>4, <1>7, <3>1
  <2>2. ASSUME NEW x \in Queued(a)
        PROVE  x \in Queued(b)
    <3>1. PICK m \in Nodes, i \in Nat : Place(a, m, i) /\ At(a, m, i) = x
      BY <1>0, <2>2, QueuedPlaces
    <3>2. Place(b, m, i) /\ At(b, m, i) = x
      BY <1>5, <3>1
    <3> QED
      BY <1>1, <3>2, QueuedPlaces
  <2>3. cb \in Queued(b)
    BY <1>1, <1>6, QueuedPlaces
  <2> QED
    BY <2>1, <2>2, <2>3
<1>9. Known(b)
  BY <1>1 DEF Known
<1>10. Unique(b, o)
  <2>1. ASSUME NEW m \in Nodes, NEW k \in Nodes, NEW i \in Nat, NEW j \in Nat,
               Place(b, m, i), Place(b, k, j), Alike(At(b, m, i), At(b, k, j))
        PROVE  m = k /\ i = j
    <3>1. CASE Place(a, m, i) /\ Place(a, k, j) /\ At(b, m, i) = At(a, m, i)
               /\ At(b, k, j) = At(a, k, j)
      BY <2>1, <3>1 DEF Unique
    <3>2. CASE Place(a, m, i) /\ At(b, m, i) = At(a, m, i) /\ At(b, k, j) = cb
      BY <1>7, <2>1, <3>2
    <3>3. CASE Place(a, k, j) /\ At(b, k, j) = At(a, k, j) /\ At(b, m, i) = cb
      BY <1>7, <2>1, <3>3 DEF Alike
    <3> QED
      BY <1>4, <2>1, <3>1, <3>2, <3>3
  <2>2. ASSUME NEW m \in Nodes, NEW i \in Nat, NEW x \in o, Place(b, m, i)
        PROVE  ~Alike(At(b, m, i), x)
    BY <1>4, <2>2 DEF Unique, Alike
  <2>3. \A x, y \in o : Alike(x, y) => x = y
    BY DEF Unique
  <2> QED
    BY <2>1, <2>2, <2>3 DEF Unique
<1> QED
  BY <1>8, <1>9, <1>10 DEF b

\* The first callback leaves a queue: nothing like it is left anywhere.
LEMMA ShiftUnique ==
    ASSUME NEW a, NEW o, Known(a), Unique(a, o), o \subseteq CallbackType,
           NEW n \in Nodes, a.ctx[n] # NULL, a.ctx[n].q # <<>>
    PROVE  LET b == [a EXCEPT !.ctx[n].q = Tail(@)]
               h == Head(a.ctx[n].q)
           IN  /\ Known(b) /\ Unique(b, o) /\ h \in CallbackType /\ h \in Queued(a)
               /\ b.nodes = a.nodes /\ b.table = a.table
               /\ b.disconnecting = a.disconnecting
               /\ b.lastSlotmapUpdateAttempt = a.lastSlotmapUpdateAttempt
               /\ \A m \in Nodes : a.ctx[m] = NULL <=> b.ctx[m] = NULL
               /\ b.ctx[n].st = a.ctx[n].st
               /\ Queued(b) \subseteq Queued(a)
               /\ \A x \in Queued(a) : x = h \/ x \in Queued(b)
               /\ \A x \in Queued(b) \cup o : ~Alike(x, h)
<1> DEFINE b == [a EXCEPT !.ctx[n].q = Tail(@)]
           c == [a.ctx[n] EXCEPT !.q = Tail(@)]
           q == a.ctx[n].q
           h == Head(q)
<1>0. a \in AccType
  BY DEF Known
<1>1. a.ctx[n] \in ContextType /\ q \in Seq(CallbackType) /\ Len(q) \in Nat
  BY <1>0, ContextFacts
<1>2. /\ Tail(q) \in Seq(CallbackType) /\ Len(Tail(q)) = Len(q) - 1 /\ h = q[1] /\ Len(q) > 0
      /\ \A i \in 1..(Len(q) - 1) : Tail(q)[i] = q[i + 1]
  BY <1>1
<1>3. c \in ContextType /\ c.q = Tail(q) /\ c.st = a.ctx[n].st /\ c # NULL
  BY <1>1, <1>2, Requeued
<1>4. b = [a EXCEPT !.ctx = [a.ctx EXCEPT ![n] = c]]
  OBVIOUS
<1> HIDE DEF b, c
<1>5. /\ b \in AccType /\ b.nodes = a.nodes /\ b.table = a.table
      /\ b.disconnecting = a.disconnecting
      /\ b.lastSlotmapUpdateAttempt = a.lastSlotmapUpdateAttempt
      /\ \A m \in Nodes \ {n} : b.ctx[m] = a.ctx[m]
      /\ b.ctx[n] = c
  BY <1>0, <1>3, <1>4, Replaced
<1>6. ASSUME NEW i \in Nat
      PROVE  /\ Place(b, n, i) <=> i > 0 /\ Place(a, n, i + 1)
             /\ Place(b, n, i) => At(b, n, i) = At(a, n, i + 1)
  <2>1. b.ctx[n].q = Tail(q) /\ b.ctx[n] # NULL
    BY <1>3, <1>5
  <2> QED
    BY <1>1, <1>2, <2>1 DEF Place, At
<1>7. ASSUME NEW m \in Nodes \ {n}, NEW i
      PROVE  /\ Place(b, m, i) <=> Place(a, m, i)
             /\ At(b, m, i) = At(a, m, i)
  BY <1>5 DEF Place, At
<1>8. Place(a, n, 1) /\ At(a, n, 1) = h
  BY <1>1, <1>2 DEF Place, At
<1> HIDE DEF h, q
\* Every place of b is another place of a than the first of n.
<1>9. ASSUME NEW m \in Nodes, NEW i \in Nat, Place(b, m, i)
      PROVE  LET j == IF m = n THEN i + 1 ELSE i IN
             /\ Place(a, m, j) /\ At(b, m, i) = At(a, m, j) /\ j \in Nat
             /\ ~(m = n /\ j = 1)
  <2>1. CASE m = n
    BY <1>6, <1>9, <2>1
  <2>2. CASE m # n
    BY <1>7, <1>9, <2>2
  <2> QED
    BY <2>1, <2>2
<1>10. Known(b)
  <2>1. \A m \in Nodes : b.ctx[m] # NULL => m \in b.nodes
    BY <1>5 DEF Known
  <2> QED
    BY <1>5, <2>1 DEF Known
<1>11. Unique(b, o)
  <2>1. ASSUME NEW m \in Nodes, NEW k \in Nodes, NEW i \in Nat, NEW j \in Nat,
               Place(b, m, i), Place(b, k, j), Alike(At(b, m, i), At(b, k, j))
        PROVE  m = k /\ i = j
    <3> DEFINE i2 == IF m = n THEN i + 1 ELSE i
               j2 == IF k = n THEN j + 1 ELSE j
    <3>1. Place(a, m, i2) /\ At(b, m, i) = At(a, m, i2) /\ i2 \in Nat
      BY <1>9, <2>1
    <3>2. Place(a, k, j2) /\ At(b, k, j) = At(a, k, j2) /\ j2 \in Nat
      BY <1>9, <2>1
    <3>3. m = k /\ i2 = j2
      BY <2>1, <3>1, <3>2 DEF Unique
    <3> QED
      BY <3>3
  <2>2. ASSUME NEW m \in Nodes, NEW i \in Nat, NEW x \in o, Place(b, m, i)
        PROVE  ~Alike(At(b, m, i), x)
    <3> DEFINE i2 == IF m = n THEN i + 1 ELSE i
    <3>1. Place(a, m, i2) /\ At(b, m, i) = At(a, m, i2) /\ i2 \in Nat
      BY <1>9, <2>2
    <3> QED
      BY <3>1 DEF Unique
  <2>3. \A x, y \in o : Alike(x, y) => x = y
    BY DEF Unique
  <2> QED
    BY <2>1, <2>2, <2>3 DEF Unique
<1>12. h \in Queued(a)
  BY <1>0, <1>8, QueuedPlaces
<1>13. ASSUME NEW x \in Queued(b)
       PROVE  x \in Queued(a) /\ ~Alike(x, h)
  <2>1. PICK m \in Nodes, i \in Nat : Place(b, m, i) /\ At(b, m, i) = x
    BY <1>5, <1>13, QueuedPlaces
  <2> DEFINE j == IF m = n THEN i + 1 ELSE i
  <2>2. Place(a, m, j) /\ x = At(a, m, j) /\ j \in Nat /\ ~(m = n /\ j = 1)
    BY <1>9, <2>1
  <2> HIDE DEF j
  <2>3. x \in Queued(a)
    BY <1>0, <2>2, QueuedPlaces
  <2>4. ~Alike(x, h)
    BY <1>8, <2>2 DEF Unique
  <2> QED
    BY <2>3, <2>4
<1>14. ASSUME NEW x \in Queued(a), x # h
       PROVE  x \in Queued(b)
  <2>1. PICK m \in Nodes, i \in Nat : Place(a, m, i) /\ At(a, m, i) = x
    BY <1>0, <1>14, QueuedPlaces
  <2>2. CASE m # n
    BY <1>5, <1>7, <2>1, <2>2, QueuedPlaces
  <2>3. CASE m = n
    <3>1. i # 1 /\ i \in 1..Len(q)
      BY <1>8, <1>14, <2>1, <2>3 DEF Place, q
    <3>2. i - 1 \in Nat /\ i - 1 > 0 /\ (i - 1) + 1 = i
      BY <1>1, <3>1
    <3>3. Place(b, n, i - 1) /\ At(b, n, i - 1) = x
      BY <1>6, <2>1, <2>3, <3>2
    <3> QED
      BY <1>5, <3>2, <3>3, QueuedPlaces
  <2> QED
    BY <2>2, <2>3
<1>15. ASSUME NEW x \in o
       PROVE  ~Alike(x, h)
  BY <1>8 DEF Unique, Alike
<1>16. h \in CallbackType
  BY <1>0, <1>12, QueuedTyped
<1>17. \A m \in Nodes : a.ctx[m] = NULL <=> b.ctx[m] = NULL
  BY <1>3, <1>5
<1>18. b.ctx[n].st = a.ctx[n].st
  BY <1>3, <1>5
<1>19. \A x \in Queued(b) \cup o : ~Alike(x, h)
  BY <1>13, <1>15
<1>20. Queued(b) \subseteq Queued(a) /\ \A x \in Queued(a) : x = h \/ x \in Queued(b)
  BY <1>13, <1>14
<1> QED
  BY <1>5, <1>10, <1>11, <1>12, <1>16, <1>17, <1>18, <1>19, <1>20 DEF b, h, q
\* What is left when the first callback is taken off a queue to be run.
LEMMA ShiftKinds ==
    ASSUME NEW a, NEW o, Good(a, o), NEW n \in Nodes, a.ctx[n] # NULL, a.ctx[n].q # <<>>
    PROVE  LET b == [a EXCEPT !.ctx[n].q = Tail(@)]
               h == Head(a.ctx[n].q)
           IN  /\ h \in CallbackType /\ h \in Queued(a)
               /\ b.ctx[n] # NULL /\ b.ctx[n].st = a.ctx[n].st
               /\ b.nodes = a.nodes /\ b.table = a.table
               /\ h.k = "cmd" => Good(b, o) /\ Without(a, o, b, o, h)
               /\ h.k = "slots" => Idle(b, o) /\ Kept(a, b)
               /\ h.k \in {"select", "asking"} => Good(b, o) /\ Kept(a, b)
<1> DEFINE b == [a EXCEPT !.ctx[n].q = Tail(@)]
           h == Head(a.ctx[n].q)
<1>1. /\ Known(b) /\ Unique(b, o) /\ h \in CallbackType /\ h \in Queued(a)
      /\ b.nodes = a.nodes /\ b.table = a.table
      /\ b.disconnecting = a.disconnecting
      /\ b.lastSlotmapUpdateAttempt = a.lastSlotmapUpdateAttempt
      /\ \A m \in Nodes : a.ctx[m] = NULL <=> b.ctx[m] = NULL
      /\ b.ctx[n].st = a.ctx[n].st
      /\ Queued(b) \subseteq Queued(a)
      /\ \A x \in Queued(a) : x = h \/ x \in Queued(b)
      /\ \A x \in Queued(b) \cup o : ~Alike(x, h)
  BY ShiftUnique DEF Good
<1> HIDE DEF b, h
<1>2. StaysClosed(a, b) /\ b.ctx[n] # NULL /\ o \subseteq CallbackType
  BY <1>1 DEF StaysClosed, Good
<1>3. ASSUME h.k = "cmd"
      PROVE  Good(b, o) /\ Without(a, o, b, o, h)
  <2>1. SlotsCb # h
    BY <1>3, CallbackKinds
  <2>2. Ongoing(b, o)
    BY <1>1, <2>1 DEF Ongoing, Good
  <2>3. \A y \in CmdsIn(Queued(b) \cup o) : y.id # h.id
    BY <1>1, <1>3 DEF CmdsIn, Alike
  <2>4. CmdsIn(Queued(a) \cup o) = CmdsIn(Queued(b) \cup o) \cup {h}
    BY <1>1, <1>3 DEF CmdsIn
  <2> QED
    BY <1>1, <1>2, <2>2, <2>3, <2>4 DEF Good, Without
<1>4. ASSUME h.k # "cmd"
      PROVE  Kept(a, b)
  <2>1. CmdsIn(Queued(b)) = CmdsIn(Queued(a))
    BY <1>1, <1>4 DEF CmdsIn
  <2> QED
    BY <1>1, <1>2, <2>1 DEF Kept
<1>5. ASSUME h.k = "slots"
      PROVE  Idle(b, o)
  <2>1. SlotsCb \notin Queued(b) \cup o
    BY <1>1, <1>5, CallbackKinds DEF Alike
  <2> QED
    BY <1>1, <1>2, <2>1 DEF Idle
<1>6. ASSUME h.k \in {"select", "asking"}
      PROVE  Good(b, o)
  <2>1. SlotsCb # h
    BY <1>6, CallbackKinds
  <2>2. Ongoing(b, o)
    BY <1>1, <2>1 DEF Ongoing, Good
  <2> QED
    BY <1>1, <1>2, <2>2 DEF Good
<1>7. h.k \in {"select", "asking"} => h.k # "cmd"
  OBVIOUS
<1>8. h.k = "slots" => h.k # "cmd"
  OBVIOUS
<1> QED
  BY <1>1, <1>2, <1>3, <1>4, <1>5, <1>6, <1>7, <1>8 DEF b, h

\* A client whose contexts have the same queues.
LEMMA SameQueues ==
    ASSUME NEW a, NEW b \in AccType, NEW o, Good(a, o),
           \A n \in Nodes : /\ a.ctx[n] = NULL <=> b.ctx[n] = NULL
                            /\ a.ctx[n] # NULL => b.ctx[n].q = a.ctx[n].q,
           b.nodes = a.nodes, b.table = a.table,
           b.lastSlotmapUpdateAttempt = a.lastSlotmapUpdateAttempt
    PROVE  Good(b, o) /\ Queued(b) = Queued(a) /\ StaysClosed(a, b)
<1>0. a \in AccType
  BY DEF Good, Known
<1>1. \A n \in Nodes : \A i \in Nat : Place(a, n, i) <=> Place(b, n, i)
  BY DEF Place
<1>2. \A n \in Nodes : \A i \in Nat : Place(a, n, i) => At(a, n, i) = At(b, n, i)
  BY DEF Place, At
<1>3. \A x : x \in Queued(b) <=> x \in Queued(a)
  BY <1>0, <1>1, <1>2, QueuedPlaces
<1>4. Queued(b) = Queued(a)
  BY <1>3
<1>5. Unique(b, o)
  BY <1>1, <1>2 DEF Good, Unique
<1>6. Known(b) /\ Ongoing(b, o)
  BY <1>4 DEF Good, Known, Ongoing
<1> QED
  BY <1>4, <1>5, <1>6 DEF Good, StaysClosed

\* Settled changes the state of a context at most.
LEMMA SettledKeeps ==
    ASSUME NEW a, NEW o, Good(a, o), NEW n \in Nodes
    PROVE  /\ Good(Settled(a, n), o) /\ Kept(a, Settled(a, n))
           /\ \A m \in Nodes : a.ctx[m] = NULL <=> Settled(a, n).ctx[m] = NULL
<1> DEFINE b == Settled(a, n)
           c == [a.ctx[n] EXCEPT !.st = "dying"]
<1>0. a \in AccType
  BY DEF Good, Known
<1>1. CASE ~(a.ctx[n] # NULL /\ a.ctx[n].st = "closing" /\ a.ctx[n].q = <<>>)
  <2>1. b = a
    BY <1>1 DEF Settled
  <2> QED
    BY <2>1 DEF Kept, StaysClosed
<1>2. CASE a.ctx[n] # NULL /\ a.ctx[n].st = "closing" /\ a.ctx[n].q = <<>>
  <2>1. a.ctx[n] \in ContextType
    BY <1>0, <1>2, ContextFacts
  <2>2. c \in ContextType /\ c.q = a.ctx[n].q /\ c # NULL
    BY <2>1, NullAssumption DEF ContextType
  <2>3. b = [a EXCEPT !.ctx = [a.ctx EXCEPT ![n] = c]]
    BY <1>2 DEF Settled
  <2> HIDE DEF b, c
  <2>4. /\ b \in AccType
        /\ b.nodes = a.nodes /\ b.table = a.table /\ b.disconnecting = a.disconnecting
        /\ b.lastSlotmapUpdateAttempt = a.lastSlotmapUpdateAttempt
        /\ \A m \in Nodes \ {n} : b.ctx[m] = a.ctx[m]
        /\ b.ctx[n] = c
    BY <1>0, <2>2, <2>3, Replaced
  <2>5. \A m \in Nodes : /\ a.ctx[m] = NULL <=> b.ctx[m] = NULL
                         /\ a.ctx[m] # NULL => b.ctx[m].q = a.ctx[m].q
    BY <1>2, <2>2, <2>4
  <2>6. Good(b, o) /\ Queued(b) = Queued(a) /\ StaysClosed(a, b)
    BY <2>4, <2>5, SameQueues
  <2> QED
    BY <2>4, <2>5, <2>6 DEF Kept, b
<1> QED
  BY <1>1, <1>2

-----------------------------------------------------------------------------
(* Contexts are opened, and slot maps asked for. *)

\* What is kept from a to b and from b to c is kept from a to c.
LEMMA KeptTwice ==
    ASSUME NEW a, NEW b, NEW c, Kept(a, b), Kept(b, c)
    PROVE  Kept(a, c)
BY DEF Kept, StaysClosed

\* A new context waits for nothing, or for the answer to SELECT.
LEMMA NewContextFacts ==
    /\ NewContext \in ContextType /\ NewContext # NULL /\ Len(NewContext.q) \in {0, 1}
    /\ Len(NewContext.q) = 1 => NewContext.q[1] = SelectCb
<1> DEFINE q == IF budget.select THEN <<SelectCb>> ELSE <<>>
<1>1. <<>> \in Seq(CallbackType) /\ Len(<<>>) = 0
  OBVIOUS
<1>2. <<SelectCb>> \in Seq(CallbackType) /\ Len(<<SelectCb>>) = 1 /\ <<SelectCb>>[1] = SelectCb
  BY CallbackKinds
<1>3. q \in Seq(CallbackType) /\ Len(q) \in {0, 1} /\ (Len(q) = 1 => q[1] = SelectCb)
  BY <1>1, <1>2
<1>4. NewContext = [up |-> FALSE, err |-> FALSE, st |-> "open", q |-> q]
  BY DEF NewContext
<1> HIDE DEF q
<1>5. NewContext \in ContextType /\ NewContext.q = q
  BY <1>3, <1>4 DEF ContextType
<1> QED
  BY <1>3, <1>5, NullAssumption

\* A node gets a new context.
LEMMA Opened ==
    ASSUME NEW a, NEW o, Good(a, o), NEW n \in a.nodes, a.ctx[n] = NULL, ~a.disconnecting
    PROVE  LET b == [a EXCEPT !.ctx = [a.ctx EXCEPT ![n] = NewContext]] IN
           /\ Good(b, o) /\ Kept(a, b) /\ b.ctx[n] # NULL
           /\ b.lastSlotmapUpdateAttempt = a.lastSlotmapUpdateAttempt
<1> DEFINE b == [a EXCEPT !.ctx = [a.ctx EXCEPT ![n] = NewContext]]
           q == NewContext.q
<1>0. a \in AccType /\ n \in Nodes
  BY AccFacts DEF Good, Known
<1>1. NewContext \in ContextType /\ NewContext # NULL /\ Len(q) \in {0, 1}
      /\ (Len(q) = 1 => q[1] = SelectCb)
  BY NewContextFacts
<1>2. /\ b \in AccType
      /\ b.nodes = a.nodes /\ b.table = a.table /\ b.disconnecting = a.disconnecting
      /\ b.lastSlotmapUpdateAttempt = a.lastSlotmapUpdateAttempt
      /\ \A m \in Nodes \ {n} : b.ctx[m] = a.ctx[m]
      /\ b.ctx[n] = NewContext
  BY <1>0, <1>1, Replaced
<1> HIDE DEF b
<1>3. ASSUME NEW m \in Nodes, NEW i \in Nat, Place(b, m, i)
      PROVE  \/ Place(a, m, i) /\ At(b, m, i) = At(a, m, i)
             \/ m = n /\ i = 1 /\ At(b, m, i) = SelectCb
  <2>1. CASE m # n
    BY <1>2, <1>3, <2>1 DEF Place, At
  <2>2. CASE m = n
    <3>1. i \in 1..Len(q)
      BY <1>2, <1>3, <2>2 DEF Place
    <3>2. i = 1 /\ q[1] = SelectCb
      <4>1. CASE Len(q) = 0
        BY ONLY <3>1, <4>1, i \in Nat
      <4>2. CASE Len(q) = 1
        <5>1. i = 1
          BY ONLY <3>1, <4>2, i \in Nat
        <5> QED
          BY <1>1, <4>2, <5>1
      <4> QED
        BY <1>1, <4>1, <4>2
    <3> QED
      BY <1>2, <2>2, <3>2 DEF At
  <2> QED
    BY <2>1, <2>2
<1>4. ASSUME NEW m \in Nodes, NEW i \in Nat, Place(a, m, i)
      PROVE  Place(b, m, i) /\ At(b, m, i) = At(a, m, i)
  <2>1. m # n
    BY <1>4 DEF Place
  <2> QED
    BY <1>2, <1>4, <2>1 DEF Place, At
<1>5. SelectCb.k = "select" /\ \A x : ~Alike(x, SelectCb) /\ ~Alike(SelectCb, x)
  BY CallbackKinds DEF Alike
<1>6. \A x : (x \in Queued(b) => x \in Queued(a) \/ x = SelectCb)
             /\ (x \in Queued(a) => x \in Queued(b))
  <2>1. ASSUME NEW x \in Queued(b)
        PROVE  x \in Queued(a) \/ x = SelectCb
    <3>1. PICK m \in Nodes, i \in Nat : Place(b, m, i) /\ At(b, m, i) = x
      BY <1>2, <2>1, QueuedPlaces
    <3> QED
      BY <1>0, <1>3, <3>1, QueuedPlaces
  <2>2. ASSUME NEW x \in Queued(a)
        PROVE  x \in Queued(b)
    <3>1. PICK m \in Nodes, i \in Nat : Place(a, m, i) /\ At(a, m, i) = x
      BY <1>0, <2>2, QueuedPlaces
    <3>2. Place(b, m, i) /\ At(b, m, i) = x
      BY <1>4, <3>1
    <3> QED
      BY <1>2, <3>2, QueuedPlaces
  <2> QED
    BY <2>1, <2>2
<1>7. Known(b)
  BY <1>2 DEF Good, Known
<1>8. Unique(b, o)
  <2>1. ASSUME NEW m \in Nodes, NEW k \in Nodes, NEW i \in Nat, NEW j \in Nat,
               Place(b, m, i), Place(b, k, j), Alike(At(b, m, i), At(b, k, j))
        PROVE  m = k /\ i = j
    <3>1. At(b, m, i) # SelectCb /\ At(b, k, j) # SelectCb
      BY <1>5, <2>1
    <3>2. Place(a, m, i) /\ At(b, m, i) = At(a, m, i)
      BY <1>3, <2>1, <3>1
    <3>3. Place(a, k, j) /\ At(b, k, j) = At(a, k, j)
      BY <1>3, <2>1, <3>1
    <3> QED
      BY <2>1, <3>2, <3>3 DEF Good, Unique
  <2>2. ASSUME NEW m \in Nodes, NEW i \in Nat, NEW x \in o, Place(b, m, i)
        PROVE  ~Alike(At(b, m, i), x)
    BY <1>3, <1>5, <2>2 DEF Good, Unique
  <2>3. \A x, y \in o : Alike(x, y) => x = y
    BY DEF Good, Unique
  <2> QED
    BY <2>1, <2>2, <2>3 DEF Unique
<1>9. SlotsCb # SelectCb
  BY CallbackKinds
<1>10. Ongoing(b, o)
  BY <1>2, <1>6, <1>9 DEF Good, Ongoing
<1>11. CmdsIn(Queued(b)) = CmdsIn(Queued(a))
  BY <1>5, <1>6 DEF CmdsIn
<1>12. Kept(a, b)
  BY <1>2, <1>11 DEF Kept, StaysClosed
<1> QED
  BY <1>1, <1>2, <1>7, <1>8, <1>10, <1>12 DEF Good, b

\* A client with another error, throttle or set of nodes tried.
LEMMA Remarked ==
    ASSUME NEW a \in AccType
    PROVE  /\ \A e \in BOOLEAN :
                /\ [a EXCEPT !.err = e] \in AccType
                /\ [a EXCEPT !.err = e].ctx = a.ctx
                /\ [a EXCEPT !.err = e].nodes = a.nodes
                /\ [a EXCEPT !.err = e].table = a.table
                /\ [a EXCEPT !.err = e].disconnecting = a.disconnecting
                /\ [a EXCEPT !.err = e].lastSlotmapUpdateAttempt
                      = a.lastSlotmapUpdateAttempt
           /\ \A t \in SUBSET Nodes :
                /\ [a EXCEPT !.attempted = t] \in AccType
                /\ [a EXCEPT !.attempted = t].ctx = a.ctx
                /\ [a EXCEPT !.attempted = t].nodes = a.nodes
                /\ [a EXCEPT !.attempted = t].table = a.table
                /\ [a EXCEPT !.attempted = t].disconnecting = a.disconnecting
                /\ [a EXCEPT !.attempted = t].lastSlotmapUpdateAttempt
                      = a.lastSlotmapUpdateAttempt
           /\ \A l \in {"old", "recent", "ongoing"} :
                /\ [a EXCEPT !.lastSlotmapUpdateAttempt = l] \in AccType
                /\ [a EXCEPT !.lastSlotmapUpdateAttempt = l].ctx = a.ctx
                /\ [a EXCEPT !.lastSlotmapUpdateAttempt = l].nodes = a.nodes
                /\ [a EXCEPT !.lastSlotmapUpdateAttempt = l].table = a.table
                /\ [a EXCEPT !.lastSlotmapUpdateAttempt = l].disconnecting = a.disconnecting
                /\ [a EXCEPT !.lastSlotmapUpdateAttempt = l].lastSlotmapUpdateAttempt = l
BY DEF AccType

\* The error of a client says nothing of its requests.
LEMMA ErrorKeeps ==
    ASSUME NEW a, NEW o, Good(a, o), NEW e \in BOOLEAN
    PROVE  /\ Good([a EXCEPT !.err = e], o) /\ Kept(a, [a EXCEPT !.err = e])
           /\ [a EXCEPT !.err = e].ctx = a.ctx
<1> DEFINE b == [a EXCEPT !.err = e]
<1>1. a \in AccType
  BY DEF Good, Known
<1>2. /\ b \in AccType /\ b.ctx = a.ctx /\ b.nodes = a.nodes /\ b.table = a.table
      /\ b.disconnecting = a.disconnecting
      /\ b.lastSlotmapUpdateAttempt = a.lastSlotmapUpdateAttempt
  BY <1>1, Remarked
<1> HIDE DEF b
<1>3. Good(b, o) /\ Kept(a, b)
  BY <1>2, SameGood
<1> QED
  BY <1>2, <1>3 DEF b

\* valkeyClusterGetValkeyAsyncContext.
LEMMA GetContextKeeps ==
    ASSUME NEW a, NEW o, Good(a, o), NEW n \in a.nodes, ~a.disconnecting,
           NEW g \in valkeyClusterGetValkeyAsyncContext(a, n)
    PROVE  /\ Good(g.acc, o) /\ Kept(a, g.acc)
           /\ g.acc.lastSlotmapUpdateAttempt = a.lastSlotmapUpdateAttempt
           /\ g.ok => g.acc.ctx[n] # NULL
<1>0. a \in AccType /\ n \in Nodes
  BY AccFacts DEF Good, Known
<1>1. CASE a.ctx[n] # NULL
  <2> DEFINE e == a.err \/ a.ctx[n].err
             b == [a EXCEPT !.err = e]
  <2>1. g = [acc |-> b, ok |-> ~a.ctx[n].err]
    BY <1>1 DEF valkeyClusterGetValkeyAsyncContext
  <2>2. e \in BOOLEAN
    BY <1>0, <1>1, AccFacts, ContextFacts
  <2> HIDE DEF e
  <2>3. /\ b \in AccType /\ b.ctx = a.ctx /\ b.nodes = a.nodes /\ b.table = a.table
        /\ b.disconnecting = a.disconnecting
        /\ b.lastSlotmapUpdateAttempt = a.lastSlotmapUpdateAttempt
    BY <1>0, <2>2, Remarked, ZenonT(40)
  <2> HIDE DEF b
  <2>4. g.acc = b
    BY <2>1
  <2> QED
    BY <1>1, <2>3, <2>4, SameGood
<1>2. CASE a.ctx[n] = NULL
  <2> DEFINE t == a.attempted \cup {n}
             b == [a EXCEPT !.attempted = t]
             c == [b EXCEPT !.ctx = [b.ctx EXCEPT ![n] = NewContext]]
             d == [b EXCEPT !.err = TRUE]
  <2>1. g = [acc |-> c, ok |-> TRUE] \/ g = [acc |-> d, ok |-> FALSE]
    BY <1>2 DEF valkeyClusterGetValkeyAsyncContext
  <2>2. t \in SUBSET Nodes
    BY <1>0, AccFacts
  <2> HIDE DEF t
  <2>3. /\ b \in AccType /\ b.ctx = a.ctx /\ b.nodes = a.nodes /\ b.table = a.table
        /\ b.disconnecting = a.disconnecting
        /\ b.lastSlotmapUpdateAttempt = a.lastSlotmapUpdateAttempt
    BY <1>0, <2>2, Remarked, ZenonT(40)
  <2> HIDE DEF b
  <2>4. Good(b, o) /\ Kept(a, b)
    BY <2>3, SameGood
  <2>5. Good(c, o) /\ Kept(b, c) /\ c.ctx[n] # NULL
        /\ c.lastSlotmapUpdateAttempt = a.lastSlotmapUpdateAttempt
    BY <1>2, <2>3, <2>4, Opened
  <2>6. d.lastSlotmapUpdateAttempt = b.lastSlotmapUpdateAttempt
    BY <2>3, Remarked
  <2>7. Good(d, o) /\ Kept(b, d)
    BY <2>4, ErrorKeeps
  <2> HIDE DEF c, d
  <2>8. CASE g = [acc |-> c, ok |-> TRUE]
    <3>1. g.acc = c
      BY <2>8
    <3> QED
      BY <2>4, <2>5, <3>1, KeptTwice
  <2>9. CASE g = [acc |-> d, ok |-> FALSE]
    <3>1. g.acc = d /\ ~g.ok
      BY <2>9
    <3> QED
      BY <2>3, <2>4, <2>6, <2>7, <3>1, KeptTwice
  <2> QED
    BY <2>1, <2>8, <2>9
<1> QED
  BY <1>1, <1>2

\* What goes out when no slot map is waited for: one request, or none.
LEMMA RequestKeeps ==
    ASSUME NEW a, NEW o, Idle(a, o), NEW n \in Nodes
    PROVE  Good(RequestSlots(a, n), o) /\ Kept(a, RequestSlots(a, n))
<1>0. a \in AccType
  BY DEF Idle, Known
<1>1. CASE CanSend(a, n)
  <2> DEFINE b == Send(a, n, SlotsCb)
             c == [b EXCEPT !.lastSlotmapUpdateAttempt = "ongoing"]
  <2>1. RequestSlots(a, n) = c
    BY <1>1 DEF RequestSlots
  <2>2. a.ctx[n] # NULL
    BY <1>1 DEF CanSend
  <2>3. \A x \in Queued(a) \cup o : ~Alike(x, SlotsCb)
    BY <1>0, QueuedTyped, CallbackKinds DEF Alike, Idle
  <2>4. Known(b) /\ Unique(b, o) /\ Queued(b) = Queued(a) \cup {SlotsCb}
    BY <2>2, <2>3, CallbackKinds, SentUnique DEF Idle
  <2>5. /\ b.nodes = a.nodes /\ b.table = a.table /\ b.disconnecting = a.disconnecting
        /\ \A m \in Nodes \ {n} : b.ctx[m] = a.ctx[m]
    BY <1>0, <2>2, CallbackKinds, SentParts
  <2> HIDE DEF b
  <2>6. /\ c \in AccType /\ c.ctx = b.ctx /\ c.nodes = b.nodes /\ c.table = b.table
        /\ c.disconnecting = b.disconnecting /\ c.lastSlotmapUpdateAttempt = "ongoing"
    BY <2>4, Remarked DEF Known
  <2> HIDE DEF c
  <2>7. Queued(c) = Queued(b) /\ Unique(c, o)
    BY <2>4, <2>6, SameContexts
  <2>8. Good(c, o)
    BY <2>4, <2>6, <2>7 DEF Good, Known, Ongoing, Idle
  <2>9. CmdsIn(Queued(c)) = CmdsIn(Queued(a))
    BY <2>4, <2>7, CallbackKinds DEF CmdsIn
  <2>10. Kept(a, c)
    BY <2>2, <2>5, <2>6, <2>9 DEF Kept, StaysClosed
  <2> QED
    BY <2>1, <2>8, <2>10
<1>2. CASE ~CanSend(a, n)
  <2> DEFINE c == [a EXCEPT !.lastSlotmapUpdateAttempt = "recent"]
  <2>1. RequestSlots(a, n) = c
    BY <1>2 DEF RequestSlots
  <2>2. /\ c \in AccType /\ c.ctx = a.ctx /\ c.nodes = a.nodes /\ c.table = a.table
        /\ c.disconnecting = a.disconnecting /\ c.lastSlotmapUpdateAttempt = "recent"
    BY <1>0, Remarked
  <2> HIDE DEF c
  <2>3. Queued(c) = Queued(a) /\ Unique(c, o) /\ StaysClosed(a, c)
    BY <2>2, SameContexts DEF Idle
  <2> QED
    BY <2>1, <2>2, <2>3 DEF Good, Known, Ongoing, Idle, Kept
<1> QED
  BY <1>1, <1>2

\* A time stamp that is not "ongoing", while no slot map is waited for.
LEMMA StampKeeps ==
    ASSUME NEW a, NEW o, Idle(a, o), NEW l \in {"old", "recent"}
    PROVE  LET c == [a EXCEPT !.lastSlotmapUpdateAttempt = l] IN
           Good(c, o) /\ Kept(a, c) /\ c.lastSlotmapUpdateAttempt = l
<1> DEFINE c == [a EXCEPT !.lastSlotmapUpdateAttempt = l]
<1>1. /\ c \in AccType /\ c.ctx = a.ctx /\ c.nodes = a.nodes /\ c.table = a.table
      /\ c.disconnecting = a.disconnecting /\ c.lastSlotmapUpdateAttempt = l
  <2>1. a \in AccType /\ l \in {"old", "recent", "ongoing"}
    BY DEF Idle, Known
  <2> QED
    BY <2>1, Remarked
<1> HIDE DEF c
<1>2. Queued(c) = Queued(a) /\ Unique(c, o) /\ StaysClosed(a, c)
  BY <1>1, SameContexts DEF Idle
<1>3. Good(c, o) /\ Kept(a, c)
  BY <1>1, <1>2 DEF Good, Known, Ongoing, Idle, Kept
<1> QED
  BY <1>1, <1>3 DEF c

\* selectNode finds one of the client's nodes, or none.
LEMMA SelectsNode ==
    ASSUME NEW a, NEW s \in selectNode(a), s # NULL
    PROVE  s \in a.nodes
BY DEF selectNode

\* A client that is not waiting for a slot map.
LEMMA NotOngoing ==
    ASSUME NEW a, NEW o, Good(a, o), a.lastSlotmapUpdateAttempt # "ongoing"
    PROVE  Idle(a, o)
BY DEF Good, Idle, Ongoing

\* updateSlotMapAsync.
LEMMA UpdateKeeps ==
    ASSUME NEW a, NEW o, Good(a, o), NEW n \in Nodes \cup {NULL},
           NEW b \in updateSlotMapAsync(a, n)
    PROVE  Good(b, o) /\ Kept(a, b)
<1>0. Kept(a, a)
  BY DEF Kept, StaysClosed
<1>1. CASE a.lastSlotmapUpdateAttempt = "ongoing" \/ a.disconnecting
  <2>1. b = a
    BY <1>1 DEF updateSlotMapAsync
  <2> QED
    BY <1>0, <2>1
<1>2. CASE a.lastSlotmapUpdateAttempt # "ongoing" /\ ~a.disconnecting /\ n # NULL
  <2>1. b = RequestSlots(a, n) /\ n \in Nodes
    BY <1>2 DEF updateSlotMapAsync
  <2> QED
    BY <1>2, <2>1, NotOngoing, RequestKeeps
<1>3. CASE a.lastSlotmapUpdateAttempt # "ongoing" /\ ~a.disconnecting /\ n = NULL
  <2>1. PICK s \in selectNode(a) :
          b \in (IF s = NULL THEN {[a EXCEPT !.lastSlotmapUpdateAttempt = "recent"]}
                 ELSE {IF g.ok THEN RequestSlots(g.acc, s)
                       ELSE [g.acc EXCEPT !.lastSlotmapUpdateAttempt = "recent"] :
                         g \in valkeyClusterGetValkeyAsyncContext(a, s)})
    BY <1>3, Zenon DEF updateSlotMapAsync
  <2>2. CASE s = NULL
    <3>1. b = [a EXCEPT !.lastSlotmapUpdateAttempt = "recent"]
      BY <2>1, <2>2
    <3> QED
      BY <1>3, <3>1, NotOngoing, StampKeeps
  <2>3. CASE s # NULL
    <3>1. PICK g \in valkeyClusterGetValkeyAsyncContext(a, s) :
            b = IF g.ok THEN RequestSlots(g.acc, s)
                ELSE [g.acc EXCEPT !.lastSlotmapUpdateAttempt = "recent"]
      BY <2>1, <2>3
    <3>2. s \in a.nodes
      BY <2>1, <2>3, SelectsNode
    <3>3. s \in Nodes
      BY <3>2, AccFacts DEF Good, Known
    <3>4. Good(g.acc, o) /\ Kept(a, g.acc)
          /\ g.acc.lastSlotmapUpdateAttempt = a.lastSlotmapUpdateAttempt
      BY <1>3, <3>2, GetContextKeeps
    <3>5. Idle(g.acc, o)
      BY <1>3, <3>4, NotOngoing
    <3>6. CASE g.ok
      <4>1. b = RequestSlots(g.acc, s)
        BY <3>1, <3>6
      <4> QED
        BY <3>3, <3>4, <3>5, <4>1, RequestKeeps, KeptTwice
    <3>7. CASE ~g.ok
      <4>1. b = [g.acc EXCEPT !.lastSlotmapUpdateAttempt = "recent"]
        BY <3>1, <3>7
      <4>2. Good(b, o) /\ Kept(g.acc, b)
        BY <3>5, <4>1, StampKeeps
      <4> QED
        BY <3>4, <4>2, KeptTwice
    <3> QED
      BY <3>6, <3>7
  <2> QED
    BY <2>2, <2>3
<1> QED
  BY <1>1, <1>2, <1>3

\* throttledUpdateSlotMapAsync.
LEMMA ThrottledKeeps ==
    ASSUME NEW a, NEW o, Good(a, o), NEW n \in Nodes \cup {NULL},
           NEW b \in throttledUpdateSlotMapAsync(a, n)
    PROVE  Good(b, o) /\ Kept(a, b)
<1>1. CASE a.lastSlotmapUpdateAttempt = "old"
  BY <1>1, UpdateKeeps DEF throttledUpdateSlotMapAsync
<1>2. CASE a.lastSlotmapUpdateAttempt # "old"
  BY <1>2 DEF throttledUpdateSlotMapAsync, Kept, StaysClosed
<1> QED
  BY <1>1, <1>2

\* The slots callback without a usable reply.
LEMMA SlotsLostKeeps ==
    ASSUME NEW a, NEW o, Idle(a, o), NEW b \in SlotsLost(a)
    PROVE  Good(b, o) /\ Kept(a, b)
<1> DEFINE c == [a EXCEPT !.lastSlotmapUpdateAttempt = "recent"]
<1>1. Good(c, o) /\ Kept(a, c)
  BY StampKeeps
<1>2. b \in updateSlotMapAsync(c, NULL)
  BY DEF SlotsLost
<1> HIDE DEF c
<1>3. Good(b, o) /\ Kept(c, b)
  BY <1>1, <1>2, UpdateKeeps
<1> QED
  BY <1>1, <1>3, KeptTwice

-----------------------------------------------------------------------------
(* The account of the commands. *)

\* A callback that waits for no slot map and is like no other joins a queue.
LEMMA SendKeeps ==
    ASSUME NEW a, NEW o, Good(a, o), NEW n \in Nodes, a.ctx[n] # NULL,
           NEW cb \in CallbackType, cb.k # "slots",
           \A x \in Queued(a) \cup o : ~Alike(x, cb)
    PROVE  LET b == Send(a, n, cb) IN
           /\ Good(b, o) /\ Queued(b) = Queued(a) \cup {cb}
           /\ b.table = a.table /\ b.nodes = a.nodes /\ b.disconnecting = a.disconnecting
           /\ \A m \in Nodes : a.ctx[m] = NULL <=> b.ctx[m] = NULL
<1> DEFINE b == Send(a, n, cb)
<1>0. a \in AccType
  BY DEF Good, Known
<1>1. Known(b) /\ Unique(b, o) /\ Queued(b) = Queued(a) \cup {cb}
  BY SentUnique DEF Good
<1>2. /\ b.nodes = a.nodes /\ b.table = a.table /\ b.disconnecting = a.disconnecting
      /\ b.lastSlotmapUpdateAttempt = a.lastSlotmapUpdateAttempt
      /\ \A m \in Nodes \ {n} : b.ctx[m] = a.ctx[m]
      /\ b.ctx[n] # NULL
  BY <1>0, SentParts
<1> HIDE DEF b
<1>3. cb # SlotsCb
  BY CallbackKinds
<1>4. Ongoing(b, o)
  BY <1>1, <1>2, <1>3 DEF Good, Ongoing
<1>5. \A m \in Nodes : a.ctx[m] = NULL <=> b.ctx[m] = NULL
  BY <1>2
<1> QED
  BY <1>1, <1>2, <1>4, <1>5 DEF Good, b

\* What is kept is kept beside any orphans.
LEMMA KeptBeside ==
    ASSUME NEW a, NEW b, NEW o, Kept(a, b)
    PROVE  CmdsIn(Queued(b) \cup o) = CmdsIn(Queued(a) \cup o)
<1>1. CmdsIn(Queued(b)) = CmdsIn(Queued(a))
  BY DEF Kept
<1>2. \A S : CmdsIn(S \cup o) = CmdsIn(S) \cup CmdsIn(o)
  BY DEF CmdsIn
<1> QED
  BY <1>1, <1>2

\* A command that has left the queues stays out of them.
LEMMA WithoutKept ==
    ASSUME NEW a, NEW o, NEW b, NEW p, NEW x, NEW c, Without(a, o, b, p, x), Kept(b, c)
    PROVE  Without(a, o, c, p, x)
<1>1. CmdsIn(Queued(c) \cup p) = CmdsIn(Queued(b) \cup p)
  BY KeptBeside
<1>2. c.table = b.table /\ c.disconnecting = b.disconnecting /\ StaysClosed(b, c)
  BY DEF Kept
<1>3. StaysClosed(a, c)
  BY <1>2 DEF Without, StaysClosed
<1> QED
  BY <1>1, <1>2, <1>3 DEF Without

\* The commands that wait are those in the queues and among the orphans.
LEMMA Waiting ==
    /\ CmdsIn(Callbacks) = CmdsIn(Queued(acc) \cup orphans)
    /\ CmdsIn(Callbacks)' = CmdsIn(Queued(acc') \cup orphans')
<1>1. Callbacks = Queued(acc) \cup orphans
  BY DEF Callbacks, Queued
<1>2. Callbacks' = Queued(acc') \cup orphans'
  BY DEF Callbacks, Queued
<1> QED
  BY <1>1, <1>2 DEF CmdsIn

\* Accepted commands are commands.
LEMMA AcceptedCmds ==
    ASSUME Accounted
    PROVE  accepted \subseteq Cmds
BY ClusterAsyncConstants DEF Accounted, Cmds

\* A step that leaves every command where it waits, or moves it to the orphans.
LEMMA AccountKept ==
    ASSUME Accounted, CmdsIn(Queued(acc') \cup orphans') = CmdsIn(Queued(acc) \cup orphans),
           acc.table # NULL => acc'.table # NULL,
           owner' \in [Slots -> Nodes], budget' \in ScenarioType,
           issued' = issued \/ (issued < MaxCmds /\ issued' = issued + 1),
           accepted' = accepted, calls' = calls, sends' = sends
    PROVE  Accounted'
<1>1. CmdsIn(Callbacks)' = CmdsIn(Callbacks)
  BY Waiting
<1>2. ASSUME NEW x \in CmdsIn(Callbacks)
      PROVE  Paid(x)'
  BY <1>2 DEF Accounted, Paid
<1>3. issued' \in 0..MaxCmds /\ accepted' \subseteq 1..issued'
  BY ClusterAsyncConstants DEF Accounted
<1> QED
  BY <1>1, <1>2, <1>3 DEF Accounted

\* A step that calls the callback of a command that waited.
LEMMA DeliverKeeps ==
    ASSUME IInv, NEW x \in CallbackType, x.k = "cmd",
           NEW b, Good(b, orphans'), Without(acc, orphans, b, orphans', x),
           acc' = [b EXCEPT !.err = FALSE],
           calls' = [calls EXCEPT ![x.id] = @ + 1],
           owner' \in [Slots -> Nodes], budget' \in ScenarioType,
           issued' = issued, accepted' = accepted, sends' = sends
    PROVE  IInv' /\ StaysClosed(acc, acc')
<1>1. Good(acc', orphans') /\ Kept(b, acc')
  BY ErrorKeeps
<1>2. Without(acc, orphans, acc', orphans', x)
  BY <1>1, WithoutKept
<1>3. /\ CmdsIn(Callbacks) = CmdsIn(Callbacks)' \cup {x}
      /\ \A y \in CmdsIn(Callbacks)' : y.id # x.id
      /\ acc.table # NULL => acc'.table # NULL
      /\ StaysClosed(acc, acc')
  BY <1>2, Waiting DEF Without
<1>4. Paid(x) /\ x.id \in Cmds /\ calls \in [Cmds -> {0, 1}]
  BY <1>3, CallbackKinds DEF IInv, Accounted
<1>5. /\ calls'[x.id] = 1 /\ \A c \in Cmds \ {x.id} : calls'[c] = calls[c]
      /\ calls' \in [Cmds -> {0, 1}]
  BY <1>4 DEF Paid
<1>6. ASSUME NEW y \in CmdsIn(Callbacks)'
      PROVE  Paid(y)'
  <2>1. Paid(y) /\ y.id # x.id
    BY <1>3, <1>6 DEF IInv, Accounted
  <2>2. y.id \in Cmds
    BY <2>1, AcceptedCmds DEF IInv, Paid
  <2> QED
    BY <1>3, <1>5, <2>1, <2>2 DEF Paid
<1>7. \A c \in Cmds : calls'[c] = 1 => c \in accepted'
  BY <1>4, <1>5 DEF IInv, Accounted, Paid
<1>8. \A c \in accepted' : calls'[c] = 1 \/ \E y \in CmdsIn(Callbacks)' : y.id = c
  BY <1>3, <1>5 DEF IInv, Accounted
<1>9. Accounted'
  BY <1>5, <1>6, <1>7, <1>8 DEF IInv, Accounted
<1> QED
  BY <1>1, <1>3, <1>9 DEF IInv

\* A step that sends a command again, on node t's context.
LEMMA ResendKeeps ==
    ASSUME IInv, NEW x \in CallbackType, x.k = "cmd", x.rc # NO_RETRY, ~TooManyRetries(x),
           NEW b, Good(b, orphans), Without(acc, orphans, b, orphans, x),
           NEW t \in Nodes, b.ctx[t] # NULL, Resend(b, t, x),
           owner' \in [Slots -> Nodes], budget' \in ScenarioType,
           orphans' = orphans, issued' = issued, accepted' = accepted
    PROVE  IInv' /\ StaysClosed(acc, acc')
<1> DEFINE y == [x EXCEPT !.rc = @ + 1]
<1>1. x \in [k: {"cmd"}, id: Cmds, slot: Slots \cup {NULL}, rc: Int] /\ x.id \in Cmds
      /\ x.rc \in Int
  BY CallbackKinds
<1>2. /\ y \in [k: {"cmd"}, id: Cmds, slot: Slots \cup {NULL}, rc: Int]
      /\ y.k = "cmd" /\ y.id = x.id /\ y.slot = x.slot /\ y.rc = x.rc + 1
  BY <1>1
<1>3. acc' = Send(b, t, y) /\ sends' = [sends EXCEPT ![x.id] = @ + 1] /\ calls' = calls
  BY DEF Resend
<1> HIDE DEF y
<1>4. y \in CallbackType /\ y.k # "slots"
  BY <1>2 DEF CallbackType
<1>5. /\ CmdsIn(Callbacks) = CmdsIn(Queued(b) \cup orphans) \cup {x}
      /\ \A z \in CmdsIn(Queued(b) \cup orphans) : z.id # x.id
      /\ acc.table # NULL => b.table # NULL
      /\ StaysClosed(acc, b)
  BY Waiting DEF Without
<1>6. \A z \in Queued(b) \cup orphans : ~Alike(z, y)
  BY <1>2, <1>5 DEF Alike, CmdsIn
<1>7. /\ Good(acc', orphans') /\ Queued(acc') = Queued(b) \cup {y}
      /\ acc'.table = b.table
      /\ \A m \in Nodes : b.ctx[m] = NULL <=> acc'.ctx[m] = NULL
  BY <1>3, <1>4, <1>6, SendKeeps
<1>8. CmdsIn(Callbacks)' = CmdsIn(Queued(b) \cup orphans) \cup {y}
  <2>1. CmdsIn(Callbacks)' = CmdsIn(Queued(acc') \cup orphans)
    BY Waiting
  <2> QED
    BY <1>2, <1>7, <2>1 DEF CmdsIn
<1>9. Paid(x) /\ sends \in [Cmds -> 0..MaxRetry + 1]
  BY <1>5 DEF IInv, Accounted
<1>10. /\ x.rc \in 0..MaxRetry /\ sends[x.id] <= x.rc + 1 /\ x.rc + 1 <= MaxRetry
       /\ x.slot \in Slots /\ acc.table # NULL
  BY <1>1, <1>9, ClusterAsyncConstants DEF Paid, TooManyRetries, NO_RETRY
<1>11. /\ sends'[x.id] = sends[x.id] + 1 /\ \A c \in Cmds \ {x.id} : sends'[c] = sends[c]
       /\ sends' \in [Cmds -> 0..MaxRetry + 1]
  <2>1. sends[x.id] \in 0..MaxRetry + 1
    BY <1>1, <1>9
  <2>2. sends[x.id] + 1 \in 0..MaxRetry + 1
    BY <1>1, <1>10, <2>1, ClusterAsyncConstants
  <2> QED
    BY <1>1, <1>3, <1>9, <2>2
<1>12. Paid(y)'
  <2>1. y.rc \in 0..MaxRetry
    BY <1>2, <1>10, ClusterAsyncConstants
  <2>2. sends'[y.id] <= y.rc + 1
    <3>1. sends[x.id] \in Nat
      BY <1>1, <1>9
    <3> QED
      BY <1>1, <1>2, <1>10, <1>11, <3>1
  <2> QED
    BY <1>2, <1>3, <1>5, <1>7, <1>9, <1>10, <2>1, <2>2 DEF Paid
<1>13. ASSUME NEW z \in CmdsIn(Queued(b) \cup orphans)
       PROVE  Paid(z)'
  <2>1. Paid(z) /\ z.id # x.id
    BY <1>5, <1>13 DEF IInv, Accounted
  <2>2. z.id \in Cmds
    BY <2>1, AcceptedCmds DEF IInv, Paid
  <2> QED
    BY <1>3, <1>5, <1>7, <1>11, <2>1, <2>2 DEF Paid
<1>14. \A c \in accepted' : calls'[c] = 1 \/ \E z \in CmdsIn(Callbacks)' : z.id = c
  BY <1>2, <1>3, <1>5, <1>8 DEF IInv, Accounted
<1>15. \A z \in CmdsIn(Callbacks)' : Paid(z)'
  BY <1>8, <1>12, <1>13
<1>16. Accounted'
  BY <1>3, <1>11, <1>14, <1>15 DEF IInv, Accounted
<1>17. StaysClosed(acc, acc')
  BY <1>5, <1>7 DEF StaysClosed
<1> QED
  BY <1>7, <1>16, <1>17 DEF IInv

\* What is left of a scenario is a scenario.
LEMMA BudgetTyped ==
    ASSUME NEW s \in ScenarioType
    PROVE  /\ s.errors > 0 => [s EXCEPT !.errors = @ - 1] \in ScenarioType
           /\ s.bad > 0 => [s EXCEPT !.bad = @ - 1] \in ScenarioType
           /\ s.drops > 0 => [s EXCEPT !.drops = @ - 1] \in ScenarioType
           /\ s.moves > 0 => [s EXCEPT !.moves = @ - 1] \in ScenarioType
           /\ s.ticks > 0 => [s EXCEPT !.ticks = @ - 1] \in ScenarioType
BY DEF ScenarioType

\* A client that has learnt of a node, and of the owner of a slot perhaps.
LEMMA Learned ==
    ASSUME NEW a, NEW o, Good(a, o), NEW c \in AccType, c.ctx = a.ctx,
           a.nodes \subseteq c.nodes, c.table # NULL => \A s \in Slots : c.table[s] \in c.nodes,
           c.lastSlotmapUpdateAttempt = a.lastSlotmapUpdateAttempt,
           c.disconnecting = a.disconnecting
    PROVE  Good(c, o) /\ Queued(c) = Queued(a) /\ StaysClosed(a, c)
<1>1. Queued(c) = Queued(a) /\ Unique(c, o) /\ StaysClosed(a, c)
  BY SameContexts DEF Good
<1>2. Known(c)
  BY DEF Good, Known
<1>3. Ongoing(c, o)
  BY <1>1 DEF Good, Ongoing
<1> QED
  BY <1>1, <1>2, <1>3 DEF Good

\* A command whose slot is elsewhere goes there, or its callback is called.
LEMMA RedirectedKeeps ==
    ASSUME IInv, NEW x \in CallbackType, x.k = "cmd", x.rc # NO_RETRY, ~TooManyRetries(x),
           NEW a, Good(a, orphans), Without(acc, orphans, a, orphans, x), ~a.disconnecting,
           NEW n \in Nodes, NEW t \in a.nodes, NEW asking \in BOOLEAN,
           Redirected(a, n, t, x, asking),
           owner' \in [Slots -> Nodes], budget' \in ScenarioType,
           orphans' = orphans, issued' = issued, accepted' = accepted
    PROVE  IInv' /\ StaysClosed(acc, acc')
<1>1. PICK g \in valkeyClusterGetValkeyAsyncContext(a, t) :
        IF g.ok /\ CanSend(g.acc, t)
        THEN LET b == IF asking THEN Send(g.acc, t, AskingCb) ELSE g.acc IN
             Resend(Settled(b, n), t, x)
        ELSE Deliver(Settled(g.acc, n), x, FALSE) /\ UNCHANGED sends
  BY DEF Redirected
<1>2. Good(g.acc, orphans) /\ Kept(a, g.acc)
  BY GetContextKeeps
<1>3. t \in Nodes
  BY AccFacts DEF Good, Known
<1>4. CASE g.ok /\ CanSend(g.acc, t)
  <2> DEFINE b == IF asking THEN Send(g.acc, t, AskingCb) ELSE g.acc
             c == Settled(b, n)
  <2>1. Resend(c, t, x)
    BY <1>1, <1>4
  <2>2. g.acc.ctx[t] # NULL
    BY <1>4 DEF CanSend
  <2>3. Good(b, orphans) /\ Kept(g.acc, b) /\ b.ctx[t] # NULL
    <3>1. CASE asking
      <4>1. b = Send(g.acc, t, AskingCb)
        BY <3>1
      <4> HIDE DEF b
      <4>2. AskingCb \in CallbackType /\ AskingCb.k = "asking"
            /\ \A z : ~Alike(z, AskingCb)
        BY CallbackKinds DEF Alike
      <4>3. /\ Good(b, orphans) /\ Queued(b) = Queued(g.acc) \cup {AskingCb}
            /\ b.table = g.acc.table /\ b.nodes = g.acc.nodes
            /\ b.disconnecting = g.acc.disconnecting
            /\ \A m \in Nodes : g.acc.ctx[m] = NULL <=> b.ctx[m] = NULL
        BY <1>2, <1>3, <2>2, <4>1, <4>2, SendKeeps
      <4>4. CmdsIn(Queued(b)) = CmdsIn(Queued(g.acc))
        BY <4>2, <4>3 DEF CmdsIn
      <4> QED
        BY <1>3, <2>2, <4>3, <4>4 DEF Kept, StaysClosed
    <3>2. CASE ~asking
      BY <1>2, <2>2, <3>2 DEF Kept, StaysClosed
    <3> QED
      BY <3>1, <3>2
  <2> HIDE DEF b
  <2>4. /\ Good(c, orphans) /\ Kept(b, c)
        /\ \A m \in Nodes : b.ctx[m] = NULL <=> c.ctx[m] = NULL
    BY <2>3, SettledKeeps
  <2> HIDE DEF c
  <2>5. Kept(g.acc, c)
    BY <2>3, <2>4, KeptTwice
  <2>6. Kept(a, c)
    BY <1>2, <2>5, KeptTwice
  <2>7. Without(acc, orphans, c, orphans, x)
    BY <2>6, WithoutKept
  <2>8. c.ctx[t] # NULL
    BY <1>3, <2>3, <2>4
  <2> QED
    BY <1>3, <2>1, <2>4, <2>7, <2>8, ResendKeeps
<1>5. CASE ~(g.ok /\ CanSend(g.acc, t))
  <2> DEFINE c == Settled(g.acc, n)
  <2>1. Deliver(c, x, FALSE) /\ sends' = sends
    BY <1>1, <1>5
  <2>2. Good(c, orphans) /\ Kept(g.acc, c)
    BY <1>2, SettledKeeps
  <2> HIDE DEF c
  <2>3. Without(acc, orphans, c, orphans, x)
    <3>1. Kept(a, c)
      BY <1>2, <2>2, KeptTwice
    <3> QED
      BY <3>1, WithoutKept
  <2>4. acc' = [c EXCEPT !.err = FALSE] /\ calls' = [calls EXCEPT ![x.id] = @ + 1]
    BY <2>1 DEF Deliver
  <2> QED
    BY <2>1, <2>2, <2>3, <2>4, DeliverKeeps
<1> QED
  BY <1>4, <1>5

-----------------------------------------------------------------------------
(* Replies. *)

\* The first callback of a queue, and the client without it.
LEMMA ShiftedFacts ==
    ASSUME IInv, NEW n \in Nodes, acc.ctx[n] # NULL, acc.ctx[n].q # <<>>
    PROVE  LET b == Shifted(n)
               h == Head(acc.ctx[n].q)
           IN  /\ h \in CallbackType /\ b.ctx[n] # NULL /\ b.ctx[n].st = acc.ctx[n].st
               /\ b.nodes = acc.nodes /\ b.table = acc.table
               /\ h.k = "cmd" => /\ Good(b, orphans) /\ Paid(h)
                                 /\ Without(acc, orphans, b, orphans, h)
               /\ h.k = "slots" => Idle(b, orphans) /\ Kept(acc, b)
               /\ h.k \in {"select", "asking"} => Good(b, orphans) /\ Kept(acc, b)
<1> DEFINE h == Head(acc.ctx[n].q)
           b == Shifted(n)
<1>1. /\ h \in CallbackType /\ h \in Queued(acc) /\ b.ctx[n] # NULL
      /\ b.ctx[n].st = acc.ctx[n].st
      /\ b.nodes = acc.nodes /\ b.table = acc.table
      /\ h.k = "cmd" => Good(b, orphans) /\ Without(acc, orphans, b, orphans, h)
      /\ h.k = "slots" => Idle(b, orphans) /\ Kept(acc, b)
      /\ h.k \in {"select", "asking"} => Good(b, orphans) /\ Kept(acc, b)
  BY ShiftKinds DEF IInv, Shifted
<1> HIDE DEF b, h
<1>2. h.k = "cmd" => Paid(h)
  <2>1. h.k = "cmd" => h \in CmdsIn(Callbacks)
    BY <1>1, Waiting DEF CmdsIn
  <2> QED
    BY <2>1 DEF IInv, Accounted
<1> QED
  BY <1>1, <1>2 DEF b, h

\* The environment has its types.
LEMMA EnvTyped ==
    ASSUME IInv
    PROVE  owner \in [Slots -> Nodes] /\ budget \in ScenarioType
BY DEF IInv, Accounted

\* FinalReply calls the callback once.
LEMMA FinalReplyKeeps ==
    ASSUME IInv, NEW n \in Nodes, FinalReply(n)
    PROVE  IInv' /\ StaysClosed(acc, acc')
<1> DEFINE h == Head(acc.ctx[n].q)
           a == Shifted(n)
           b == Settled(a, n)
<1>1. /\ acc.ctx[n] # NULL /\ acc.ctx[n].q # <<>> /\ h.k = "cmd"
      /\ acc' = [b EXCEPT !.err = FALSE] /\ calls' = [calls EXCEPT ![h.id] = @ + 1]
      /\ orphans' = orphans /\ owner' = owner /\ budget' = budget
      /\ issued' = issued /\ accepted' = accepted /\ sends' = sends
  BY DEF FinalReply, Ready, Deliver, cluVars
<1>2. h \in CallbackType /\ Good(a, orphans) /\ Without(acc, orphans, a, orphans, h)
  BY <1>1, ShiftedFacts
<1> HIDE DEF a, h
<1>3. Good(b, orphans) /\ Kept(a, b)
  BY <1>2, SettledKeeps
<1> HIDE DEF b
<1>4. Without(acc, orphans, b, orphans, h)
  BY <1>2, <1>3, WithoutKept
<1> QED
  BY <1>1, <1>2, <1>3, <1>4, EnvTyped, DeliverKeeps

\* A command that failed for good: its callback is called after the error is set.
LEMMA GivenUpKeeps ==
    ASSUME IInv, NEW n \in Nodes, acc.ctx[n] # NULL, acc.ctx[n].q # <<>>,
           Head(acc.ctx[n].q).k = "cmd", NEW e \in BOOLEAN,
           Deliver(Settled([Shifted(n) EXCEPT !.err = e], n), Head(acc.ctx[n].q), FALSE),
           owner' \in [Slots -> Nodes], budget' \in ScenarioType,
           orphans' = orphans, issued' = issued, accepted' = accepted, sends' = sends
    PROVE  IInv' /\ StaysClosed(acc, acc')
<1> DEFINE h == Head(acc.ctx[n].q)
           a == Shifted(n)
           b == [a EXCEPT !.err = e]
           c == Settled(b, n)
<1>1. acc' = [c EXCEPT !.err = FALSE] /\ calls' = [calls EXCEPT ![h.id] = @ + 1]
  BY DEF Deliver
<1>2. h \in CallbackType /\ Good(a, orphans) /\ Without(acc, orphans, a, orphans, h)
  BY ShiftedFacts
<1>3. h.k = "cmd"
  OBVIOUS
<1> HIDE DEF a, h
<1>4. Good(b, orphans) /\ Kept(a, b)
  BY <1>2, ErrorKeeps
<1> HIDE DEF b
<1>5. Good(c, orphans) /\ Kept(b, c)
  BY <1>4, SettledKeeps
<1> HIDE DEF c
<1>6. Without(acc, orphans, b, orphans, h)
  BY <1>2, <1>4, WithoutKept
<1>7. Without(acc, orphans, c, orphans, h)
  BY <1>5, <1>6, WithoutKept, SMTT(30)
<1> QED
  BY <1>1, <1>2, <1>3, <1>5, <1>7, DeliverKeeps

\* MovedReply starts an update, learns of the owner and goes there.
LEMMA MovedReplyKeeps ==
    ASSUME IInv, NEW n \in Nodes, MovedReply(n)
    PROVE  IInv' /\ StaysClosed(acc, acc')
<1> DEFINE h == Head(acc.ctx[n].q)
           t == owner[h.slot]
           a == Shifted(n)
<1>1. /\ acc.ctx[n] # NULL /\ acc.ctx[n].q # <<>> /\ h.k = "cmd" /\ Retried(h)
      /\ orphans' = orphans /\ owner' = owner /\ budget' = budget
      /\ issued' = issued /\ accepted' = accepted
  BY ZenonT(40) DEF MovedReply, Ready, cluVars
<1>2. \/ TooManyRetries(h) /\ Deliver(Settled([a EXCEPT !.err = TRUE], n), h, FALSE)
                           /\ sends' = sends
      \/ ~TooManyRetries(h) /\ \E b \in throttledUpdateSlotMapAsync(a, n) :
            Redirected([b EXCEPT !.nodes = @ \cup {t}, !.table[h.slot] = t], n, t, h, FALSE)
  BY DEF MovedReply
<1>3. CASE TooManyRetries(h) /\ Deliver(Settled([a EXCEPT !.err = TRUE], n), h, FALSE)
                             /\ sends' = sends
  BY <1>1, <1>3, EnvTyped, GivenUpKeeps
<1>4. CASE ~TooManyRetries(h) /\ \E b \in throttledUpdateSlotMapAsync(a, n) :
            Redirected([b EXCEPT !.nodes = @ \cup {t}, !.table[h.slot] = t], n, t, h, FALSE)
  <2>1. PICK b \in throttledUpdateSlotMapAsync(a, n) :
            Redirected([b EXCEPT !.nodes = @ \cup {t}, !.table[h.slot] = t], n, t, h, FALSE)
    BY <1>4
  <2>2. /\ h \in CallbackType /\ Good(a, orphans) /\ Without(acc, orphans, a, orphans, h)
        /\ Paid(h) /\ a.table = acc.table
    BY <1>1, ShiftedFacts
  <2>3. h.rc # NO_RETRY /\ ~acc.disconnecting
    BY <1>1 DEF Retried
  <2>4. h.slot \in Slots /\ acc.table # NULL
    BY <2>2, <2>3 DEF Paid
  <2>5. t \in Nodes
    BY <2>4, EnvTyped
  <2> HIDE DEF a, h, t
  <2>6. Good(b, orphans) /\ Kept(a, b)
    BY <2>1, <2>2, ThrottledKeeps
  <2>7. b \in AccType /\ b.table # NULL /\ b.table \in [Slots -> Nodes]
        /\ (\A s \in Slots : b.table[s] \in b.nodes) /\ b.nodes \in SUBSET Nodes
    BY <2>2, <2>4, <2>6, AccFacts DEF Good, Known, Kept
  <2> DEFINE f == [b.table EXCEPT ![h.slot] = t]
             ns == b.nodes \cup {t}
             c == [b EXCEPT !.nodes = ns, !.table = f]
  <2>8. Redirected(c, n, t, h, FALSE)
    BY <2>1
  <2>9. /\ f \in [Slots -> Nodes] /\ ns \in SUBSET Nodes /\ t \in ns
        /\ b.nodes \subseteq ns /\ \A s \in Slots : f[s] \in ns
    BY <2>4, <2>5, <2>7
  <2> HIDE DEF f, ns
  <2>10. /\ c \in AccType /\ c.ctx = b.ctx /\ c.nodes = ns /\ c.table = f
         /\ c.lastSlotmapUpdateAttempt = b.lastSlotmapUpdateAttempt
         /\ c.disconnecting = b.disconnecting
    BY <2>7, <2>9 DEF AccType
  <2> HIDE DEF c
  <2>11. Good(c, orphans) /\ Queued(c) = Queued(b) /\ StaysClosed(b, c)
    BY <2>6, <2>9, <2>10, Learned
  <2>12. f # NULL
    BY <2>9, NullAssumption
  <2>13. Without(acc, orphans, b, orphans, h)
    BY <2>2, <2>6, WithoutKept
  <2>14. Without(acc, orphans, c, orphans, h) /\ ~c.disconnecting
    BY <2>3, <2>10, <2>11, <2>12, <2>13 DEF Without, StaysClosed
  <2>15. t \in c.nodes /\ h.k = "cmd"
    BY <1>1, <2>9, <2>10 DEF h
  <2>16. ~TooManyRetries(h)
    BY <1>4 DEF h
  <2> QED
    BY <1>1, <2>2, <2>3, <2>8, <2>11, <2>14, <2>15, <2>16, EnvTyped, RedirectedKeeps
<1> QED
  BY <1>2, <1>3, <1>4, ZenonT(40)

\* AskReply goes to the node that has the key.
LEMMA AskReplyKeeps ==
    ASSUME IInv, NEW n \in Nodes, AskReply(n)
    PROVE  IInv' /\ StaysClosed(acc, acc')
<1> DEFINE h == Head(acc.ctx[n].q)
           a == Shifted(n)
<1>1. /\ acc.ctx[n] # NULL /\ acc.ctx[n].q # <<>> /\ h.k = "cmd" /\ Retried(h)
      /\ orphans' = orphans /\ owner' = owner /\ issued' = issued /\ accepted' = accepted
      /\ budget.errors > 0 /\ budget' = [budget EXCEPT !.errors = @ - 1]
  BY DEF AskReply, Ready
<1>2. \/ TooManyRetries(h) /\ Deliver(Settled([a EXCEPT !.err = TRUE], n), h, FALSE)
                           /\ sends' = sends
      \/ ~TooManyRetries(h) /\ \E t \in Nodes \ {n} :
            Redirected([a EXCEPT !.nodes = @ \cup {t}], n, t, h, TRUE)
  BY DEF AskReply
<1>3. owner' \in [Slots -> Nodes] /\ budget' \in ScenarioType
  BY <1>1, EnvTyped, BudgetTyped
<1>4. CASE TooManyRetries(h) /\ Deliver(Settled([a EXCEPT !.err = TRUE], n), h, FALSE)
                             /\ sends' = sends
  BY <1>1, <1>3, <1>4, GivenUpKeeps
<1>5. CASE ~TooManyRetries(h) /\ \E t \in Nodes \ {n} :
            Redirected([a EXCEPT !.nodes = @ \cup {t}], n, t, h, TRUE)
  <2>1. PICK t \in Nodes : Redirected([a EXCEPT !.nodes = @ \cup {t}], n, t, h, TRUE)
    BY <1>5
  <2>2. h \in CallbackType /\ Good(a, orphans) /\ Without(acc, orphans, a, orphans, h)
    BY <1>1, ShiftedFacts
  <2>3. h.rc # NO_RETRY /\ ~acc.disconnecting
    BY <1>1 DEF Retried
  <2> DEFINE ns == a.nodes \cup {t}
             c == [a EXCEPT !.nodes = ns]
  <2>4. Redirected(c, n, t, h, TRUE)
    BY <2>1
  <2> HIDE DEF a, h
  <2>5. a \in AccType /\ ns \in SUBSET Nodes /\ t \in ns /\ a.nodes \subseteq ns
    BY <2>2, AccFacts DEF Good, Known
  <2> HIDE DEF ns
  <2>6. /\ c \in AccType /\ c.ctx = a.ctx /\ c.nodes = ns /\ c.table = a.table
        /\ c.lastSlotmapUpdateAttempt = a.lastSlotmapUpdateAttempt
        /\ c.disconnecting = a.disconnecting
    BY <2>5 DEF AccType
  <2> HIDE DEF c
  <2>7. c.table # NULL => \A s \in Slots : c.table[s] \in c.nodes
    BY <2>2, <2>5, <2>6 DEF Good, Known
  <2>8. Good(c, orphans) /\ Queued(c) = Queued(a) /\ StaysClosed(a, c)
    BY <2>2, <2>5, <2>6, <2>7, Learned
  <2>9. Without(acc, orphans, c, orphans, h) /\ ~c.disconnecting
    BY <2>2, <2>3, <2>6, <2>8 DEF Without, StaysClosed
  <2>10. t \in c.nodes /\ h.k = "cmd"
    BY <1>1, <2>5, <2>6 DEF h
  <2>11. ~TooManyRetries(h)
    BY <1>5 DEF h
  <2> QED
    BY <1>1, <1>3, <2>2, <2>3, <2>4, <2>8, <2>9, <2>10, <2>11, RedirectedKeeps
<1> QED
  BY <1>2, <1>4, <1>5

\* TryAgainReply sends the command again on the same context.
LEMMA TryAgainKeeps ==
    ASSUME IInv, NEW n \in Nodes, TryAgainReply(n)
    PROVE  IInv' /\ StaysClosed(acc, acc')
<1> DEFINE h == Head(acc.ctx[n].q)
           a == Shifted(n)
           e == a.err \/ TooManyRetries(h)
<1>1. /\ acc.ctx[n] # NULL /\ acc.ctx[n].q # <<>> /\ h.k = "cmd" /\ Retried(h)
      /\ orphans' = orphans /\ owner' = owner /\ issued' = issued /\ accepted' = accepted
      /\ budget.errors > 0 /\ budget' = [budget EXCEPT !.errors = @ - 1]
  BY DEF TryAgainReply, Ready
<1>2. \/ ~TooManyRetries(h) /\ CanSend(a, n) /\ Resend(a, n, h)
      \/ Deliver(Settled([a EXCEPT !.err = e], n), h, FALSE) /\ sends' = sends
  BY DEF TryAgainReply
<1>3. owner' \in [Slots -> Nodes] /\ budget' \in ScenarioType
  BY <1>1, EnvTyped, BudgetTyped
<1>4. /\ h \in CallbackType /\ Good(a, orphans) /\ Without(acc, orphans, a, orphans, h)
      /\ a.ctx[n] # NULL
  BY <1>1, ShiftedFacts
<1>5. e \in BOOLEAN
  BY <1>4, AccFacts DEF Good, Known
<1> HIDE DEF e
<1>6. CASE Deliver(Settled([a EXCEPT !.err = e], n), h, FALSE) /\ sends' = sends
  BY <1>1, <1>3, <1>5, <1>6, GivenUpKeeps
<1>7. CASE ~TooManyRetries(h) /\ CanSend(a, n) /\ Resend(a, n, h)
  <2>1. h.rc # NO_RETRY
    BY <1>1 DEF Retried
  <2> HIDE DEF a, h
  <2>2. h.k = "cmd"
    BY <1>1 DEF h
  <2> QED
    BY <1>1, <1>3, <1>4, <1>7, <2>1, <2>2, ResendKeeps
<1> QED
  BY <1>2, <1>6, <1>7

\* A step that keeps every command where it waits; the application may have issued
\* one that was refused.
LEMMA KeptStep ==
    ASSUME IInv, Good(acc', orphans), Kept(acc, acc'), orphans' = orphans,
           owner' \in [Slots -> Nodes], budget' \in ScenarioType,
           issued' = issued \/ (issued < MaxCmds /\ issued' = issued + 1),
           accepted' = accepted, calls' = calls, sends' = sends
    PROVE  IInv' /\ StaysClosed(acc, acc')
<1>1. acc'.table = acc.table /\ StaysClosed(acc, acc')
  BY DEF Kept
<1>2. CmdsIn(Queued(acc') \cup orphans') = CmdsIn(Queued(acc) \cup orphans)
  BY KeptBeside
<1>3. Accounted'
  BY <1>1, <1>2, AccountKept DEF IInv
<1> QED
  BY <1>1, <1>3 DEF IInv

\* The contexts of some nodes stay; the callbacks of the others become orphans.
LEMMA Orphaned ==
    ASSUME NEW a \in AccType, Unique(a, {}), NEW b \in AccType, NEW ns,
           \A n \in Nodes : b.ctx[n] = IF n \in ns THEN a.ctx[n] ELSE NULL
    PROVE  LET o == CallbacksOf(a, Nodes \ ns) IN
           /\ Unique(b, o) /\ Queued(b) \cup o = Queued(a) /\ o \subseteq CallbackType
           /\ StaysClosed(a, b)
<1> DEFINE o == CallbacksOf(a, Nodes \ ns)
<1>1. ASSUME NEW n \in Nodes, NEW i \in Nat
      PROVE  /\ Place(b, n, i) <=> n \in ns /\ Place(a, n, i)
             /\ Place(b, n, i) => At(b, n, i) = At(a, n, i)
  BY DEF Place, At
<1>2. ASSUME NEW x
      PROVE  x \in o <=> \E n \in Nodes \ ns : \E i \in Nat : Place(a, n, i) /\ At(a, n, i) = x
  <2>1. x \in o <=> \E n \in Nodes \ ns : a.ctx[n] # NULL /\ x \in Range(a.ctx[n].q)
    BY DEF CallbacksOf
  <2>2. ASSUME NEW n \in Nodes \ ns, a.ctx[n] # NULL
        PROVE  x \in Range(a.ctx[n].q) <=> \E i \in Nat : Place(a, n, i) /\ At(a, n, i) = x
    <3>1. DOMAIN a.ctx[n].q = 1..Len(a.ctx[n].q) /\ Len(a.ctx[n].q) \in Nat
      BY <2>2, ContextFacts
    <3> QED
      BY <2>2, <3>1 DEF Range, Place, At
  <2>3. \A n \in Nodes : \A i \in Nat : Place(a, n, i) => a.ctx[n] # NULL
    BY DEF Place
  <2> QED
    BY <2>1, <2>2, <2>3
<1> HIDE DEF o
<1>3. Unique(b, o)
  <2>1. ASSUME NEW m \in Nodes, NEW k \in Nodes, NEW i \in Nat, NEW j \in Nat,
               Place(b, m, i), Place(b, k, j), Alike(At(b, m, i), At(b, k, j))
        PROVE  m = k /\ i = j
    <3>1. Place(a, m, i) /\ Place(a, k, j) /\ At(b, m, i) = At(a, m, i)
          /\ At(b, k, j) = At(a, k, j)
      BY <1>1, <2>1
    <3> QED
      BY <2>1, <3>1 DEF Unique
  <2>2. ASSUME NEW m \in Nodes, NEW i \in Nat, NEW x \in o, Place(b, m, i)
        PROVE  ~Alike(At(b, m, i), x)
    <3>1. PICK k \in Nodes \ ns, j \in Nat : Place(a, k, j) /\ At(a, k, j) = x
      BY <1>2, <2>2
    <3>2. m \in ns /\ Place(a, m, i) /\ At(b, m, i) = At(a, m, i)
      BY <1>1, <2>2
    <3> QED
      BY <3>1, <3>2 DEF Unique
  <2>3. ASSUME NEW x \in o, NEW y \in o, Alike(x, y)
        PROVE  x = y
    <3>1. PICK k \in Nodes \ ns, j \in Nat : Place(a, k, j) /\ At(a, k, j) = x
      BY <1>2, <2>3
    <3>2. PICK m \in Nodes \ ns, i \in Nat : Place(a, m, i) /\ At(a, m, i) = y
      BY <1>2, <2>3
    <3>3. k = m /\ j = i
      BY <2>3, <3>1, <3>2 DEF Unique
    <3> QED
      BY <3>1, <3>2, <3>3
  <2> QED
    BY <2>1, <2>2, <2>3 DEF Unique
<1>4. ASSUME NEW x
      PROVE  x \in Queued(b) \cup o <=> x \in Queued(a)
  <2>1. ASSUME x \in Queued(b)
        PROVE  x \in Queued(a)
    <3>1. PICK n \in Nodes, i \in Nat : Place(b, n, i) /\ At(b, n, i) = x
      BY <2>1, QueuedPlaces
    <3>2. Place(a, n, i) /\ At(a, n, i) = x
      BY <1>1, <3>1
    <3> QED
      BY <3>2, QueuedPlaces
  <2>2. ASSUME x \in o
        PROVE  x \in Queued(a)
    BY <1>2, <2>2, QueuedPlaces
  <2>3. ASSUME x \in Queued(a), x \notin o
        PROVE  x \in Queued(b)
    <3>1. PICK n \in Nodes, i \in Nat : Place(a, n, i) /\ At(a, n, i) = x
      BY <2>3, QueuedPlaces
    <3>2. n \in ns
      BY <1>2, <2>3, <3>1
    <3>3. Place(b, n, i) /\ At(b, n, i) = x
      BY <1>1, <3>1, <3>2
    <3> QED
      BY <3>3, QueuedPlaces
  <2> QED
    BY <2>1, <2>2, <2>3
<1>5. Queued(b) \cup o = Queued(a)
  BY <1>4
<1>6. o \subseteq CallbackType
  BY <1>5, QueuedTyped
<1>7. StaysClosed(a, b)
  BY DEF StaysClosed
<1> QED
  BY <1>3, <1>5, <1>6, <1>7 DEF o

\* SlotsReply installs the slot map and orphans the callbacks of nodes that are gone.
LEMMA SlotsReplyKeeps ==
    ASSUME IInv, NEW n \in Nodes, SlotsReply(n)
    PROVE  IInv' /\ StaysClosed(acc, acc')
<1> DEFINE h == Head(acc.ctx[n].q)
           a == Shifted(n)
           b == updateNodesAndSlotmap(a)
           o == CallbacksOf(a, Nodes \ b.nodes)
           ns == {owner[s] : s \in Slots}
           f == [m \in Nodes |-> IF m \in ns THEN a.ctx[m] ELSE NULL]
<1>1. /\ acc.ctx[n] # NULL /\ acc.ctx[n].q # <<>> /\ h.k = "slots" /\ orphans = {}
      /\ acc' = Settled(b, n) /\ orphans' = o
      /\ owner' = owner /\ budget' = budget /\ issued' = issued
      /\ accepted' = accepted /\ calls' = calls /\ sends' = sends
  BY DEF SlotsReply, Ready, Quiet, cluVars
<1>2. Idle(a, orphans) /\ Kept(acc, a)
  BY <1>1, ShiftedFacts
<1>3. a \in AccType /\ Unique(a, {}) /\ SlotsCb \notin Queued(a)
  BY <1>1, <1>2 DEF Idle, Known
<1>4. owner \in [Slots -> Nodes] /\ owner # NULL
  BY EnvTyped, NullAssumption
<1>5. ns \in SUBSET Nodes /\ ns # {} /\ \A s \in Slots : owner[s] \in ns
  BY <1>4, ClusterAsyncConstants
<1>6. b = [a EXCEPT !.nodes = ns, !.table = owner, !.attempted = {},
                    !.lastSlotmapUpdateAttempt = "recent", !.ctx = f]
  BY DEF updateNodesAndSlotmap
<1> HIDE DEF a, b, ns
<1>7. f \in [Nodes -> {NULL} \cup ContextType]
      /\ \A m \in Nodes : f[m] = IF m \in ns THEN a.ctx[m] ELSE NULL
  BY <1>3, AccFacts
<1> HIDE DEF f
<1>8. /\ b \in AccType /\ b.nodes = ns /\ b.table = owner /\ b.ctx = f
      /\ b.lastSlotmapUpdateAttempt = "recent" /\ b.disconnecting = a.disconnecting
  BY <1>3, <1>4, <1>5, <1>6, <1>7 DEF AccType
<1>9. \A m \in Nodes : b.ctx[m] = IF m \in ns THEN a.ctx[m] ELSE NULL
  BY <1>7, <1>8
<1>10. /\ Unique(b, o) /\ Queued(b) \cup o = Queued(a) /\ o \subseteq CallbackType
       /\ StaysClosed(a, b)
  BY <1>3, <1>8, <1>9, Orphaned
<1> HIDE DEF o
<1>11. Known(b)
  BY <1>5, <1>8, <1>9 DEF Known
<1>12. Good(b, o)
  BY <1>3, <1>8, <1>10, <1>11 DEF Good, Ongoing
<1>13. Good(acc', o) /\ Kept(b, acc')
  BY <1>1, <1>12, SettledKeeps
<1>14. CmdsIn(Queued(acc') \cup o) = CmdsIn(Queued(acc) \cup orphans)
  <2>1. CmdsIn(Queued(acc') \cup o) = CmdsIn(Queued(b) \cup o)
    BY <1>13, KeptBeside
  <2>2. CmdsIn(Queued(a) \cup orphans) = CmdsIn(Queued(acc) \cup orphans)
    BY <1>2, KeptBeside
  <2>3. Queued(a) \cup orphans = Queued(b) \cup o
    BY <1>1, <1>10
  <2> QED
    BY <2>1, <2>2, <2>3
<1>15. acc'.table # NULL
  BY <1>4, <1>8, <1>13 DEF Kept
<1>16. Accounted'
  BY <1>1, <1>14, <1>15, EnvTyped, AccountKept DEF IInv
<1>17. StaysClosed(acc, acc')
  <2>1. StaysClosed(acc, a) /\ a.disconnecting = acc.disconnecting /\ StaysClosed(b, acc')
    BY <1>2, <1>13 DEF Kept
  <2> QED
    BY <1>8, <1>10, <2>1 DEF StaysClosed
<1> QED
  BY <1>1, <1>13, <1>16, <1>17 DEF IInv

\* BadSlotsReply asks another node.
LEMMA BadSlotsReplyKeeps ==
    ASSUME IInv, NEW n \in Nodes, BadSlotsReply(n)
    PROVE  IInv' /\ StaysClosed(acc, acc')
<1> DEFINE h == Head(acc.ctx[n].q)
           a == Shifted(n)
<1>1. /\ acc.ctx[n] # NULL /\ acc.ctx[n].q # <<>> /\ h.k = "slots"
      /\ budget.bad > 0 /\ budget' = [budget EXCEPT !.bad = @ - 1]
      /\ orphans' = orphans /\ owner' = owner /\ issued' = issued
      /\ accepted' = accepted /\ calls' = calls /\ sends' = sends
  BY DEF BadSlotsReply, Ready
<1>2. PICK b \in SlotsLost(a) : acc' = Settled(b, n)
  BY DEF BadSlotsReply
<1>3. Idle(a, orphans) /\ Kept(acc, a)
  BY <1>1, ShiftedFacts
<1> HIDE DEF a
<1>4. Good(b, orphans) /\ Kept(a, b)
  BY <1>2, <1>3, SlotsLostKeeps
<1>5. Good(acc', orphans) /\ Kept(b, acc')
  BY <1>2, <1>4, SettledKeeps
<1>6. Kept(acc, b)
  BY <1>3, <1>4, KeptTwice
<1>7. Kept(acc, acc')
  BY <1>5, <1>6, KeptTwice
<1>8. owner' \in [Slots -> Nodes] /\ budget' \in ScenarioType
  BY <1>1, EnvTyped, BudgetTyped
<1> QED
  BY <1>1, <1>5, <1>7, <1>8, KeptStep

\* OtherReply has no effect but on the queue.
LEMMA OtherReplyKeeps ==
    ASSUME IInv, NEW n \in Nodes, OtherReply(n)
    PROVE  IInv' /\ StaysClosed(acc, acc')
<1> DEFINE h == Head(acc.ctx[n].q)
           a == Shifted(n)
<1>1. /\ acc.ctx[n] # NULL /\ acc.ctx[n].q # <<>> /\ h.k \in {"select", "asking"}
      /\ acc' = Settled(a, n)
      /\ orphans' = orphans /\ owner' = owner /\ budget' = budget /\ issued' = issued
      /\ accepted' = accepted /\ calls' = calls /\ sends' = sends
  BY DEF OtherReply, Ready, cluVars
<1>2. Good(a, orphans) /\ Kept(acc, a)
  BY <1>1, ShiftedFacts
<1> HIDE DEF a
<1>3. Good(acc', orphans) /\ Kept(a, acc')
  BY <1>1, <1>2, SettledKeeps
<1>4. Kept(acc, acc')
  BY <1>2, <1>3, KeptTwice
<1> QED
  BY <1>1, <1>3, <1>4, EnvTyped, KeptStep

-----------------------------------------------------------------------------
(* Contexts come and go. *)

\* A context with another state, and the client that holds it.
LEMMA ContextMarked ==
    ASSUME NEW a, NEW o, Good(a, o), NEW n \in Nodes, a.ctx[n] # NULL,
           NEW c \in ContextType, c.q = a.ctx[n].q
    PROVE  LET b == [a EXCEPT !.ctx = [a.ctx EXCEPT ![n] = c]] IN
           Good(b, o) /\ Kept(a, b)
<1> DEFINE b == [a EXCEPT !.ctx = [a.ctx EXCEPT ![n] = c]]
<1>1. a \in AccType /\ c # NULL
  BY NullAssumption DEF Good, Known
<1>2. /\ b \in AccType
      /\ b.nodes = a.nodes /\ b.table = a.table /\ b.disconnecting = a.disconnecting
      /\ b.lastSlotmapUpdateAttempt = a.lastSlotmapUpdateAttempt
      /\ \A m \in Nodes \ {n} : b.ctx[m] = a.ctx[m]
      /\ b.ctx[n] = c
  BY <1>1, Replaced
<1> HIDE DEF b
<1>3. \A m \in Nodes : /\ a.ctx[m] = NULL <=> b.ctx[m] = NULL
                       /\ a.ctx[m] # NULL => b.ctx[m].q = a.ctx[m].q
  BY <1>1, <1>2
<1>4. Good(b, o) /\ Queued(b) = Queued(a) /\ StaysClosed(a, b)
  BY <1>2, <1>3, SameQueues
<1> QED
  BY <1>2, <1>4 DEF Kept, b

\* SelectFails closes the context.
LEMMA SelectFailsKeeps ==
    ASSUME IInv, NEW n \in Nodes, SelectFails(n)
    PROVE  IInv' /\ StaysClosed(acc, acc')
<1> DEFINE h == Head(acc.ctx[n].q)
           a == Shifted(n)
           b == [a EXCEPT !.err = TRUE]
           x == [b.ctx[n] EXCEPT !.st = "closing"]
           c == [b EXCEPT !.ctx = [b.ctx EXCEPT ![n] = x]]
<1>1. /\ acc.ctx[n] # NULL /\ acc.ctx[n].q # <<>> /\ h.k = "select"
      /\ budget.bad > 0 /\ budget' = [budget EXCEPT !.bad = @ - 1]
      /\ acc' = Settled(c, n)
      /\ orphans' = orphans /\ owner' = owner /\ issued' = issued
      /\ accepted' = accepted /\ calls' = calls /\ sends' = sends
  BY DEF SelectFails, Ready
<1>2. Good(a, orphans) /\ Kept(acc, a) /\ a.ctx[n] # NULL
  BY <1>1, ShiftedFacts
<1> HIDE DEF a
<1>3. Good(b, orphans) /\ Kept(a, b) /\ b.ctx = a.ctx
  BY <1>2, ErrorKeeps
<1> HIDE DEF b
<1>4. b.ctx[n] \in ContextType
  BY <1>2, <1>3, ContextFacts DEF Good, Known
<1>5. x \in ContextType /\ x.q = b.ctx[n].q
  BY <1>4 DEF ContextType
<1> HIDE DEF x
<1>6. Good(c, orphans) /\ Kept(b, c)
  BY <1>2, <1>3, <1>5, ContextMarked
<1> HIDE DEF c
<1>7. Good(acc', orphans) /\ Kept(c, acc')
  BY <1>1, <1>6, SettledKeeps
<1>8. Kept(acc, c)
  <2>1. Kept(acc, b)
    BY <1>2, <1>3, KeptTwice
  <2> QED
    BY <1>6, <2>1, KeptTwice
<1>9. Kept(acc, acc')
  BY <1>7, <1>8, KeptTwice
<1>10. owner' \in [Slots -> Nodes] /\ budget' \in ScenarioType
  BY <1>1, EnvTyped, BudgetTyped
<1> QED
  BY <1>1, <1>7, <1>9, <1>10, KeptStep

\* Connected and Drop mark the context.
LEMMA ConnectedDropKeep ==
    ASSUME IInv, NEW n \in Nodes, Connected(n) \/ Drop(n)
    PROVE  IInv' /\ StaysClosed(acc, acc')
<1> DEFINE x == [acc.ctx[n] EXCEPT !.up = TRUE]
           y == [acc.ctx[n] EXCEPT !.st = "dying", !.err = TRUE]
<1>1. /\ acc.ctx[n] # NULL
      /\ orphans' = orphans /\ owner' = owner /\ issued' = issued
      /\ accepted' = accepted /\ calls' = calls /\ sends' = sends
  BY DEF Connected, Drop, cluVars
<1>2. budget' = budget \/ (budget.drops > 0 /\ budget' = [budget EXCEPT !.drops = @ - 1])
  BY DEF Connected, Drop, cluVars
<1>3. owner' \in [Slots -> Nodes] /\ budget' \in ScenarioType
  BY <1>1, <1>2, EnvTyped, BudgetTyped
<1>4. acc.ctx[n] \in ContextType
  BY <1>1, ContextFacts DEF IInv, Good, Known
<1>5. \/ acc' = [acc EXCEPT !.ctx = [acc.ctx EXCEPT ![n] = x]]
      \/ acc' = [acc EXCEPT !.ctx = [acc.ctx EXCEPT ![n] = y]]
  <2>1. CASE Connected(n)
    BY <2>1 DEF Connected
  <2>2. CASE Drop(n)
    <3>1. acc' = [acc EXCEPT !.ctx[n].st = "dying", !.ctx[n].err = TRUE]
      BY <2>2 DEF Drop
    <3>2. acc \in AccType /\ acc.ctx \in [Nodes -> {NULL} \cup ContextType]
      BY AccFacts DEF IInv, Good, Known
    <3> QED
      BY <3>1, <3>2, <1>4 DEF AccType, ContextType
  <2> QED
    BY <2>1, <2>2
<1>6. x \in ContextType /\ x.q = acc.ctx[n].q /\ y \in ContextType /\ y.q = acc.ctx[n].q
  BY <1>4 DEF ContextType
<1> HIDE DEF x, y
<1>7. Good(acc', orphans) /\ Kept(acc, acc')
  BY <1>1, <1>5, <1>6, ContextMarked DEF IInv
<1> QED
  BY <1>1, <1>3, <1>7, KeptStep

\* NullCallback calls a command's callback, or asks for the slot map again.
LEMMA NullCallbackKeeps ==
    ASSUME IInv, NEW n \in Nodes, NullCallback(n)
    PROVE  IInv' /\ StaysClosed(acc, acc')
<1> DEFINE h == Head(acc.ctx[n].q)
           a == Shifted(n)
           e == acc.ctx[n].err
           d == [a EXCEPT !.err = e]
<1>1. /\ acc.ctx[n] # NULL /\ acc.ctx[n].q # <<>>
      /\ orphans' = orphans /\ owner' = owner /\ budget' = budget
      /\ issued' = issued /\ accepted' = accepted /\ sends' = sends
  BY DEF NullCallback, Dying, cluVars
<1>2. /\ h \in CallbackType
      /\ h.k = "cmd" => Good(a, orphans) /\ Without(acc, orphans, a, orphans, h)
      /\ h.k = "slots" => Idle(a, orphans) /\ Kept(acc, a)
      /\ h.k \in {"select", "asking"} => Good(a, orphans) /\ Kept(acc, a)
  BY <1>1, ShiftedFacts
<1>3. h.k \in {"cmd", "slots", "select", "asking"}
  BY <1>2, CallbackKinds
<1>4. CASE h.k = "cmd"
  <2>1. PICK b \in throttledUpdateSlotMapAsync(d, NULL) : Deliver(b, h, FALSE)
    BY <1>4 DEF NullCallback
  <2>2. e \in BOOLEAN
    BY <1>1, ContextFacts DEF IInv, Good, Known
  <2> HIDE DEF a, e, h
  <2>3. Good(d, orphans) /\ Kept(a, d)
    BY <1>2, <1>4, <2>2, ErrorKeeps
  <2> HIDE DEF d
  <2>4. Good(b, orphans) /\ Kept(d, b)
    BY <2>1, <2>3, ThrottledKeeps
  <2>5. Kept(a, b)
    BY <2>3, <2>4, KeptTwice
  <2>6. Without(acc, orphans, b, orphans, h)
    BY <1>2, <1>4, <2>5, WithoutKept
  <2>7. acc' = [b EXCEPT !.err = FALSE] /\ calls' = [calls EXCEPT ![h.id] = @ + 1]
    BY <2>1 DEF Deliver
  <2>8. h \in CallbackType /\ h.k = "cmd"
    BY <1>2, <1>4 DEF h
  <2> QED
    BY <1>1, <2>4, <2>6, <2>7, <2>8, EnvTyped, DeliverKeeps
<1>5. CASE h.k = "slots"
  <2>1. acc' \in SlotsLost(a) /\ calls' = calls
    BY <1>5 DEF NullCallback
  <2> HIDE DEF a
  <2>2. Good(acc', orphans) /\ Kept(a, acc')
    BY <1>2, <1>5, <2>1, SlotsLostKeeps
  <2>3. Kept(acc, acc')
    BY <1>2, <1>5, <2>2, KeptTwice
  <2> QED
    BY <1>1, <2>1, <2>2, <2>3, EnvTyped, KeptStep
<1>6. CASE h.k = "select"
  <2>1. acc' = [a EXCEPT !.err = TRUE] /\ calls' = calls
    BY <1>6 DEF NullCallback
  <2> HIDE DEF a
  <2>2. Good(acc', orphans) /\ Kept(a, acc')
    BY <1>2, <1>6, <2>1, ErrorKeeps
  <2>3. Kept(acc, acc')
    BY <1>2, <1>6, <2>2, KeptTwice
  <2> QED
    BY <1>1, <2>1, <2>2, <2>3, EnvTyped, KeptStep
<1>7. CASE h.k = "asking"
  <2>1. acc' = a /\ calls' = calls
    BY <1>7 DEF NullCallback
  <2> HIDE DEF a
  <2>2. Good(acc', orphans) /\ Kept(acc, acc')
    BY <1>2, <1>7, <2>1
  <2> QED
    BY <1>1, <2>1, <2>2, EnvTyped, KeptStep
<1> QED
  BY <1>3, <1>4, <1>5, <1>6, <1>7

\* unlinkAsyncContextAndNode takes an empty context off its node.
LEMMA UnlinkKeeps ==
    ASSUME IInv, NEW n \in Nodes, unlinkAsyncContextAndNode(n)
    PROVE  IInv' /\ StaysClosed(acc, acc')
<1> DEFINE ns == Nodes \ {n}
           o == CallbacksOf(acc, Nodes \ ns)
<1>1. /\ acc.ctx[n] # NULL /\ acc.ctx[n].q = <<>> /\ orphans = {}
      /\ acc' = [acc EXCEPT !.ctx = [acc.ctx EXCEPT ![n] = NULL]]
      /\ orphans' = orphans /\ owner' = owner /\ budget' = budget /\ issued' = issued
      /\ accepted' = accepted /\ calls' = calls /\ sends' = sends
  BY DEF unlinkAsyncContextAndNode, Dying, cluVars
<1>2. acc \in AccType /\ Unique(acc, {})
  BY <1>1 DEF IInv, Good, Known
<1>3. /\ acc' \in AccType /\ acc'.nodes = acc.nodes /\ acc'.table = acc.table
      /\ acc'.disconnecting = acc.disconnecting
      /\ acc'.lastSlotmapUpdateAttempt = acc.lastSlotmapUpdateAttempt
      /\ \A m \in Nodes \ {n} : acc'.ctx[m] = acc.ctx[m]
      /\ acc'.ctx[n] = NULL
  BY <1>1, <1>2, Replaced
<1>4. \A m \in Nodes : acc'.ctx[m] = IF m \in ns THEN acc.ctx[m] ELSE NULL
  BY <1>3
<1>5. /\ Unique(acc', o) /\ Queued(acc') \cup o = Queued(acc)
      /\ StaysClosed(acc, acc')
  BY <1>2, <1>3, <1>4, Orphaned
<1>6. o = {}
  <2>1. Range(acc.ctx[n].q) = {}
    BY <1>1 DEF Range
  <2>2. Nodes \ ns = {n}
    OBVIOUS
  <2> QED
    BY <1>1, <2>1, <2>2 DEF CallbacksOf
<1> HIDE DEF o, ns
<1>7. Known(acc')
  BY <1>3 DEF IInv, Good, Known
<1>8. Good(acc', orphans)
  BY <1>1, <1>3, <1>5, <1>6, <1>7 DEF IInv, Good, Ongoing
<1>9. Kept(acc, acc')
  BY <1>3, <1>5, <1>6 DEF Kept
<1> QED
  BY <1>1, <1>8, <1>9, EnvTyped, KeptStep

\* A callback of the orphans is taken to be run.
LEMMA OrphanTaken ==
    ASSUME NEW a, NEW o, Good(a, o), NEW x \in o
    PROVE  LET p == o \ {x} IN
           /\ x \in CallbackType
           /\ x.k = "cmd" => Good(a, p) /\ Without(a, o, a, p, x)
           /\ x.k = "slots" => Idle(a, p)
           /\ x.k \in {"select", "asking"} => Good(a, p)
           /\ x.k # "cmd" => CmdsIn(Queued(a) \cup p) = CmdsIn(Queued(a) \cup o)
<1> DEFINE p == o \ {x}
<1>1. x \in CallbackType /\ p \subseteq CallbackType /\ Known(a) /\ a \in AccType
  BY DEF Good, Known
<1>2. Unique(a, p)
  BY DEF Good, Unique
<1>3. ASSUME NEW y \in Queued(a) \cup p
      PROVE  ~Alike(y, x)
  <2>1. CASE y \in p
    BY <2>1 DEF Good, Unique
  <2>2. CASE y \in Queued(a)
    <3>1. PICK n \in Nodes, i \in Nat : Place(a, n, i) /\ At(a, n, i) = y
      BY <1>1, <2>2, QueuedPlaces
    <3> QED
      BY <3>1 DEF Good, Unique
  <2> QED
    BY <2>1, <2>2
<1>4. ASSUME x.k = "cmd"
      PROVE  Without(a, o, a, p, x)
  <2>1. \A y \in CmdsIn(Queued(a) \cup p) : y.id # x.id
    BY <1>3, <1>4 DEF CmdsIn, Alike
  <2>2. CmdsIn(Queued(a) \cup o) = CmdsIn(Queued(a) \cup p) \cup {x}
    BY <1>4 DEF CmdsIn
  <2> QED
    BY <2>1, <2>2 DEF Without, StaysClosed
<1>5. ASSUME x.k # "slots"
      PROVE  Good(a, p)
  <2>1. x # SlotsCb
    BY <1>5, CallbackKinds
  <2>2. Ongoing(a, p)
    BY <2>1 DEF Good, Ongoing
  <2> QED
    BY <1>1, <1>2, <2>2 DEF Good
<1>6. ASSUME x.k = "slots"
      PROVE  Idle(a, p)
  <2>1. SlotsCb \notin Queued(a) \cup p
    BY <1>3, <1>6, CallbackKinds DEF Alike
  <2> QED
    BY <1>1, <1>2, <2>1 DEF Idle
<1>7. ASSUME x.k # "cmd"
      PROVE  CmdsIn(Queued(a) \cup p) = CmdsIn(Queued(a) \cup o)
  BY <1>7 DEF CmdsIn
<1>8. x.k = "cmd" \/ x.k \in {"select", "asking"} => x.k # "slots"
  OBVIOUS
<1> QED
  BY <1>1, <1>4, <1>5, <1>6, <1>7, <1>8

\* OrphanCallback.
LEMMA OrphanCallbackKeeps ==
    ASSUME IInv, OrphanCallback
    PROVE  IInv' /\ StaysClosed(acc, acc')
<1>1. PICK x \in orphans :
         /\ orphans' = orphans \ {x}
         /\ CASE x.k = "cmd" -> Deliver([acc EXCEPT !.err = FALSE], x, FALSE)
              [] x.k = "slots" -> acc' \in SlotsLost(acc) /\ UNCHANGED <<calls, lost>>
              [] x.k = "select" -> acc' = [acc EXCEPT !.err = TRUE] /\ UNCHANGED <<calls, lost>>
              [] OTHER -> UNCHANGED <<acc, calls, lost>>
  BY DEF OrphanCallback
<1>2. /\ owner' = owner /\ budget' = budget
      /\ issued' = issued /\ accepted' = accepted /\ sends' = sends
  BY DEF OrphanCallback, cluVars
<1>3. /\ x \in CallbackType
      /\ x.k = "cmd" => Good(acc, orphans') /\ Without(acc, orphans, acc, orphans', x)
      /\ x.k = "slots" => Idle(acc, orphans')
      /\ x.k \in {"select", "asking"} => Good(acc, orphans')
      /\ x.k # "cmd" => CmdsIn(Queued(acc) \cup orphans') = CmdsIn(Queued(acc) \cup orphans)
  BY <1>1, OrphanTaken DEF IInv
<1>4. x.k \in {"cmd", "slots", "select", "asking"}
  BY <1>3, CallbackKinds
<1>5. CASE x.k = "cmd"
  <2> DEFINE b == [acc EXCEPT !.err = FALSE]
  <2>1. Deliver(b, x, FALSE)
    BY <1>1, <1>5
  <2>2. Good(b, orphans') /\ Kept(acc, b)
    BY <1>3, <1>5, ErrorKeeps
  <2> HIDE DEF b
  <2>3. Without(acc, orphans, b, orphans', x)
    BY <1>3, <1>5, <2>2, WithoutKept
  <2>4. acc' = [b EXCEPT !.err = FALSE] /\ calls' = [calls EXCEPT ![x.id] = @ + 1]
    BY <2>1 DEF Deliver
  <2> QED
    BY <1>2, <1>3, <1>5, <2>2, <2>3, <2>4, EnvTyped, DeliverKeeps
<1>6. CASE x.k # "cmd"
  <2>1. calls' = calls /\ Good(acc', orphans') /\ Kept(acc, acc')
    <3>1. CASE x.k = "slots"
      <4>1. acc' \in SlotsLost(acc) /\ calls' = calls
        BY <1>1, <3>1
      <4> QED
        BY <1>3, <3>1, <4>1, SlotsLostKeeps
    <3>2. CASE x.k = "select"
      <4>1. acc' = [acc EXCEPT !.err = TRUE] /\ calls' = calls
        BY <1>1, <3>2
      <4> QED
        BY <1>3, <3>2, <4>1, ErrorKeeps
    <3>3. CASE x.k = "asking"
      <4>1. acc' = acc /\ calls' = calls
        BY <1>1, <3>3
      <4> QED
        BY <1>3, <3>3, <4>1 DEF Kept, StaysClosed
    <3> QED
      BY <1>4, <1>6, <3>1, <3>2, <3>3
  <2>2. CmdsIn(Queued(acc') \cup orphans') = CmdsIn(Queued(acc) \cup orphans')
    BY <2>1, KeptBeside
  <2>3. acc'.table = acc.table /\ StaysClosed(acc, acc')
    BY <2>1 DEF Kept
  <2>4. Accounted'
    BY <1>2, <1>3, <1>6, <2>1, <2>2, <2>3, EnvTyped, AccountKept DEF IInv
  <2> QED
    BY <2>1, <2>3, <2>4 DEF IInv
<1> QED
  BY <1>5, <1>6

-----------------------------------------------------------------------------
(* The application, the cluster and the clock. *)

\* A command that is refused leaves an error behind and nothing else.
LEMMA RefusedKeeps ==
    ASSUME IInv, NEW b, Good(b, orphans), Kept(acc, b), Refused(b),
           issued < MaxCmds, issued' = issued + 1, orphans' = orphans, owner' = owner,
           budget' = budget, calls' = calls
    PROVE  IInv' /\ StaysClosed(acc, acc')
<1>1. acc' = [b EXCEPT !.err = TRUE] /\ accepted' = accepted /\ sends' = sends
  BY DEF Refused
<1>2. Good(acc', orphans) /\ Kept(b, acc')
  BY <1>1, ErrorKeeps
<1>3. Kept(acc, acc')
  BY <1>2, KeptTwice
<1> QED
  BY <1>1, <1>2, <1>3, EnvTyped, KeptStep

\* Issue sends a new command to one of the nodes, or refuses it.
LEMMA IssueKeeps ==
    ASSUME IInv, ~acc.disconnecting, NEW n \in acc.nodes, NEW slot, NEW rc,
           (slot \in Slots /\ rc = 0 /\ acc.table # NULL) \/ (slot = NULL /\ rc = NO_RETRY),
           Issue(acc, n, slot, rc),
           issued < MaxCmds, issued' = issued + 1, orphans' = orphans, owner' = owner,
           budget' = budget, calls' = calls
    PROVE  IInv' /\ StaysClosed(acc, acc')
<1> DEFINE id == issued + 1
<1>0. PICK x : x = CmdCb(id, slot, rc)
  OBVIOUS
<1>1. PICK g \in valkeyClusterGetValkeyAsyncContext(acc, n) :
        IF ~g.ok \/ ~CanSend(g.acc, n) THEN Refused(g.acc)
        ELSE /\ acc' = Send([g.acc EXCEPT !.err = FALSE], n, x)
             /\ accepted' = accepted \cup {id}
             /\ sends' = [sends EXCEPT ![id] = 1]
  BY <1>0 DEF Issue
<1>2. Good(g.acc, orphans) /\ Kept(acc, g.acc)
  BY GetContextKeeps DEF IInv
<1>3. CASE ~g.ok \/ ~CanSend(g.acc, n)
  <2>1. Refused(g.acc)
    BY <1>1, <1>3
  <2> QED
    BY <1>2, <2>1, RefusedKeeps
<1>4. CASE g.ok /\ CanSend(g.acc, n)
  <2> DEFINE b == [g.acc EXCEPT !.err = FALSE]
  <2>1. /\ acc' = Send(b, n, x) /\ accepted' = accepted \cup {id}
        /\ sends' = [sends EXCEPT ![id] = 1]
    BY <1>1, <1>4
  <2>2. g.acc.ctx[n] # NULL /\ n \in Nodes
    BY <1>4, AccFacts DEF CanSend, IInv, Good, Known
  <2>3. Good(b, orphans) /\ Kept(g.acc, b) /\ b.ctx = g.acc.ctx
    BY <1>2, ErrorKeeps
  <2> HIDE DEF b
  <2>4. Kept(acc, b) /\ b.ctx[n] # NULL
    BY <1>2, <2>2, <2>3, KeptTwice
  <2>5. id \in Cmds /\ issued \in 0..MaxCmds /\ accepted \subseteq 1..issued /\ id \notin accepted
        /\ id \in Nat
    BY ClusterAsyncConstants DEF IInv, Accounted, Cmds
  <2> HIDE DEF id
  <2>6. x \in CallbackType /\ x.k = "cmd" /\ x.id = id /\ x.slot = slot /\ x.rc = rc
    <3>1. rc \in Int /\ slot \in Slots \cup {NULL}
      BY DEF NO_RETRY
    <3> QED
      BY <1>0, <2>5, <3>1 DEF CmdCb, CallbackType
  <2>7. CmdsIn(Queued(b) \cup orphans) = CmdsIn(Callbacks)
    <3>1. CmdsIn(Queued(b) \cup orphans) = CmdsIn(Queued(acc) \cup orphans)
      BY <2>4, KeptBeside
    <3> QED
      BY <3>1, Waiting
  <2>8. \A y \in CmdsIn(Callbacks) : Paid(y) /\ y.id # id /\ y.id \in accepted /\ y.id \in Cmds
    BY <2>5, AcceptedCmds DEF IInv, Accounted, Paid
  <2>9. \A y \in Queued(b) \cup orphans : ~Alike(y, x)
    BY <2>6, <2>7, <2>8 DEF Alike, CmdsIn
  <2>10. /\ Good(acc', orphans) /\ Queued(acc') = Queued(b) \cup {x}
         /\ acc'.table = b.table
         /\ \A m \in Nodes : b.ctx[m] = NULL <=> acc'.ctx[m] = NULL
    BY <2>1, <2>2, <2>3, <2>4, <2>6, <2>9, SendKeeps
  <2>11. CmdsIn(Callbacks)' = CmdsIn(Callbacks) \cup {x}
    <3>1. CmdsIn(Callbacks)' = CmdsIn(Queued(acc') \cup orphans)
      BY Waiting
    <3> QED
      BY <2>6, <2>7, <2>10, <3>1 DEF CmdsIn
  <2>12. acc'.table = acc.table
    BY <2>4, <2>10 DEF Kept
  <2>13. calls[id] = 0 /\ calls \in [Cmds -> {0, 1}] /\ sends \in [Cmds -> 0..MaxRetry + 1]
    BY <2>5 DEF IInv, Accounted
  <2>14. /\ sends'[id] = 1 /\ \A c \in Cmds \ {id} : sends'[c] = sends[c]
         /\ sends' \in [Cmds -> 0..MaxRetry + 1]
    BY <2>1, <2>5, <2>13, ClusterAsyncConstants
  <2>15. Paid(x)'
    <3>1. rc = 0 => rc \in 0..MaxRetry /\ 1 <= rc + 1
      BY ClusterAsyncConstants
    <3> QED
      BY <2>1, <2>6, <2>12, <2>13, <2>14, <3>1 DEF Paid
  <2>16. ASSUME NEW y \in CmdsIn(Callbacks)
         PROVE  Paid(y)'
    BY <2>1, <2>8, <2>12, <2>14, <2>16 DEF Paid
  <2>17. issued' \in 0..MaxCmds /\ accepted' \subseteq 1..issued'
    <3>1. id = issued' /\ issued' \in 0..MaxCmds
      BY <2>5, ClusterAsyncConstants DEF id
    <3>2. \A c \in 1..issued : c \in 1..issued'
      BY <2>5
    <3>3. issued' \in 1..issued'
      BY <2>5
    <3> QED
      BY <2>1, <2>5, <3>1, <3>2, <3>3
  <2>18. \A y \in CmdsIn(Callbacks)' : Paid(y)'
    BY <2>11, <2>15, <2>16
  <2>19. \A c \in accepted' : calls'[c] = 1 \/ \E y \in CmdsIn(Callbacks)' : y.id = c
    BY <2>1, <2>6, <2>11 DEF IInv, Accounted
  <2>20. Accounted'
    BY <2>1, <2>13, <2>14, <2>17, <2>18, <2>19 DEF IInv, Accounted
  <2>21. StaysClosed(acc, acc')
    BY DEF StaysClosed
  <2> QED
    BY <2>10, <2>20, <2>21 DEF IInv
<1> QED
  BY <1>3, <1>4

\* The calls of the application that issue a command.
LEMMA CommandsKeep ==
    ASSUME IInv, \/ \E s \in Slots : valkeyClusterAsyncCommand(s)
                 \/ CommandWithoutKey
                 \/ \E n \in Nodes : valkeyClusterAsyncCommandToNode(n)
    PROVE  IInv' /\ StaysClosed(acc, acc')
<1>1. /\ issued < MaxCmds /\ issued' = issued + 1 /\ orphans' = orphans /\ owner' = owner
      /\ budget' = budget /\ calls' = calls
  BY DEF valkeyClusterAsyncCommand, CommandWithoutKey, valkeyClusterAsyncCommandToNode, cluVars
<1>2. CASE Refused(acc)
  BY <1>1, <1>2, RefusedKeeps DEF IInv, Kept, StaysClosed
<1>3. CASE \E b \in throttledUpdateSlotMapAsync(acc, NULL) : Refused(b)
  BY <1>1, <1>3, ThrottledKeeps, RefusedKeeps DEF IInv
<1>4. ASSUME NEW s \in Slots, valkeyClusterAsyncCommand(s), ~Refused(acc),
             ~\E b \in throttledUpdateSlotMapAsync(acc, NULL) : Refused(b)
      PROVE  IInv' /\ StaysClosed(acc, acc')
  <2>1. ~acc.disconnecting /\ acc.table # NULL /\ Issue(acc, acc.table[s], s, 0)
    BY <1>4 DEF valkeyClusterAsyncCommand
  <2>2. acc.table[s] \in acc.nodes
    BY <2>1 DEF IInv, Good, Known
  <2> QED
    BY <1>1, <2>1, <2>2, IssueKeeps
<1>5. ASSUME NEW n \in Nodes, valkeyClusterAsyncCommandToNode(n), ~Refused(acc)
      PROVE  IInv' /\ StaysClosed(acc, acc')
  <2>1. n \in acc.nodes /\ ~acc.disconnecting /\ Issue(acc, n, NULL, NO_RETRY)
    BY <1>5 DEF valkeyClusterAsyncCommandToNode
  <2> QED
    BY <1>1, <2>1, IssueKeeps
<1>6. CommandWithoutKey => Refused(acc)
  BY DEF CommandWithoutKey
<1> QED
  BY <1>2, <1>3, <1>4, <1>5, <1>6

\* valkeyClusterAsyncDisconnect closes the contexts, which keep their queues.
LEMMA DisconnectKeeps ==
    ASSUME IInv, valkeyClusterAsyncDisconnect
    PROVE  IInv' /\ StaysClosed(acc, acc')
<1> DEFINE f == [n \in Nodes |->
                   IF n \notin acc.nodes \/ acc.ctx[n] = NULL THEN acc.ctx[n]
                   ELSE [acc.ctx[n] EXCEPT !.st = IF acc.ctx[n].q = <<>> THEN "dying"
                                                  ELSE "closing"]]
<1>1. /\ acc' = [acc EXCEPT !.disconnecting = TRUE, !.ctx = f]
      /\ orphans' = orphans /\ owner' = owner /\ budget' = budget /\ issued' = issued
      /\ accepted' = accepted /\ calls' = calls /\ sends' = sends
  BY DEF valkeyClusterAsyncDisconnect, cluVars
<1>2. acc \in AccType /\ acc.ctx \in [Nodes -> {NULL} \cup ContextType]
  BY AccFacts DEF IInv, Good, Known
<1>3. ASSUME NEW x \in ContextType, NEW s \in {"dying", "closing"}
      PROVE  /\ [x EXCEPT !.st = s] \in ContextType /\ [x EXCEPT !.st = s].q = x.q
             /\ [x EXCEPT !.st = s] # NULL
  BY <1>3, NullAssumption DEF ContextType
<1>4. ASSUME NEW n \in Nodes
      PROVE  /\ f[n] \in {NULL} \cup ContextType /\ (acc.ctx[n] = NULL <=> f[n] = NULL)
             /\ acc.ctx[n] # NULL => f[n].q = acc.ctx[n].q
  <2>1. CASE n \notin acc.nodes \/ acc.ctx[n] = NULL
    <3>1. f[n] = acc.ctx[n]
      BY <2>1
    <3> QED
      BY <1>2, <3>1
  <2>2. CASE n \in acc.nodes /\ acc.ctx[n] # NULL
    <3> DEFINE s == IF acc.ctx[n].q = <<>> THEN "dying" ELSE "closing"
    <3>1. f[n] = [acc.ctx[n] EXCEPT !.st = s] /\ s \in {"dying", "closing"}
      BY <2>2
    <3>2. acc.ctx[n] \in ContextType
      BY <1>2, <2>2
    <3> HIDE DEF f, s
    <3> QED
      BY <1>3, <2>2, <3>1, <3>2
  <2> QED
    BY <2>1, <2>2
<1>5. f \in [Nodes -> {NULL} \cup ContextType]
  BY <1>4
<1> HIDE DEF f
<1>6. /\ acc' \in AccType /\ acc'.ctx = f /\ acc'.nodes = acc.nodes
      /\ acc'.table = acc.table
      /\ acc'.lastSlotmapUpdateAttempt = acc.lastSlotmapUpdateAttempt
  BY <1>1, <1>2, <1>5 DEF AccType
<1>7. Good(acc', orphans) /\ Queued(acc') = Queued(acc) /\ StaysClosed(acc, acc')
  BY <1>4, <1>6, SameQueues DEF IInv
<1>8. Accounted'
  BY <1>1, <1>6, <1>7, EnvTyped, AccountKept DEF IInv
<1> QED
  BY <1>1, <1>7, <1>8 DEF IInv

\* valkeyClusterAsyncFree orphans every callback.
LEMMA FreeKeeps ==
    ASSUME IInv, valkeyClusterAsyncFree
    PROVE  IInv' /\ StaysClosed(acc, acc')
<1> DEFINE f == [n \in Nodes |-> NULL]
<1>1. /\ acc' = [acc EXCEPT !.disconnecting = TRUE, !.freed = TRUE, !.ctx = f]
      /\ orphans = {} /\ orphans' = CallbacksOf(acc, Nodes)
      /\ owner' = owner /\ budget' = budget /\ issued' = issued
      /\ accepted' = accepted /\ calls' = calls /\ sends' = sends
  BY DEF valkeyClusterAsyncFree, Quiet, cluVars
<1>2. acc \in AccType /\ Unique(acc, {})
  BY <1>1 DEF IInv, Good, Known
<1>3. f \in [Nodes -> {NULL} \cup ContextType] /\ \A n \in Nodes : f[n] = NULL
  OBVIOUS
<1> HIDE DEF f
<1>4. /\ acc' \in AccType /\ acc'.ctx = f /\ acc'.nodes = acc.nodes
      /\ acc'.table = acc.table
      /\ acc'.lastSlotmapUpdateAttempt = acc.lastSlotmapUpdateAttempt
  BY <1>1, <1>2, <1>3 DEF AccType
<1>5. PICK ns : ns = {}
  OBVIOUS
<1>6. /\ \A n \in Nodes : acc'.ctx[n] = IF n \in ns THEN acc.ctx[n] ELSE NULL
      /\ Nodes \ ns = Nodes
  BY <1>3, <1>4, <1>5
<1>7. /\ Unique(acc', orphans') /\ Queued(acc') \cup orphans' = Queued(acc)
      /\ orphans' \subseteq CallbackType /\ StaysClosed(acc, acc')
  <2> DEFINE o == CallbacksOf(acc, Nodes \ ns)
  <2>1. /\ Unique(acc', o) /\ Queued(acc') \cup o = Queued(acc)
        /\ o \subseteq CallbackType /\ StaysClosed(acc, acc')
    BY <1>2, <1>4, <1>6, Orphaned
  <2>2. orphans' = o
    BY <1>1, <1>6
  <2> HIDE DEF o
  <2> QED
    BY <2>1, <2>2
<1>8. Known(acc')
  BY <1>3, <1>4 DEF IInv, Good, Known
<1>9. Good(acc', orphans')
  BY <1>1, <1>4, <1>7, <1>8 DEF IInv, Good, Ongoing
<1>10. CmdsIn(Queued(acc') \cup orphans') = CmdsIn(Queued(acc) \cup orphans)
  BY <1>1, <1>7
<1>11. Accounted'
  BY <1>1, <1>4, <1>10, EnvTyped, AccountKept DEF IInv
<1> QED
  BY <1>7, <1>9, <1>11 DEF IInv

\* Slots change hands, and time passes.
LEMMA EnvironmentKeeps ==
    ASSUME IInv, (\E s \in Slots, n \in Nodes : Move(s, n)) \/ Tick
    PROVE  IInv' /\ StaysClosed(acc, acc')
<1>1. CASE \E s \in Slots, n \in Nodes : Move(s, n)
  <2>1. PICK s \in Slots, n \in Nodes : Move(s, n)
    BY <1>1
  <2>2. /\ budget.moves > 0 /\ budget' = [budget EXCEPT !.moves = @ - 1]
        /\ owner' = [owner EXCEPT ![s] = n]
        /\ acc' = acc /\ orphans' = orphans /\ issued' = issued
        /\ accepted' = accepted /\ calls' = calls /\ sends' = sends
    BY <2>1 DEF Move
  <2>3. owner' \in [Slots -> Nodes] /\ budget' \in ScenarioType
    BY <2>2, EnvTyped, BudgetTyped
  <2>4. Good(acc', orphans) /\ Kept(acc, acc')
    BY <2>2 DEF IInv, Kept, StaysClosed
  <2> QED
    BY <2>2, <2>3, <2>4, KeptStep
<1>2. CASE Tick
  <2> DEFINE l == IF acc.lastSlotmapUpdateAttempt = "recent" THEN "old"
                  ELSE acc.lastSlotmapUpdateAttempt
  <2>1. /\ budget.ticks > 0 /\ budget' = [budget EXCEPT !.ticks = @ - 1]
        /\ acc' = [acc EXCEPT !.attempted = {}, !.lastSlotmapUpdateAttempt = l]
        /\ orphans' = orphans /\ owner' = owner /\ issued' = issued
        /\ accepted' = accepted /\ calls' = calls /\ sends' = sends
    BY <1>2 DEF Tick
  <2>2. owner' \in [Slots -> Nodes] /\ budget' \in ScenarioType
    BY <2>1, EnvTyped, BudgetTyped
  <2>3. acc \in AccType
    BY DEF IInv, Good, Known
  <2>4. /\ l \in {"old", "recent", "ongoing"}
        /\ l = "ongoing" <=> acc.lastSlotmapUpdateAttempt = "ongoing"
    BY <2>3, AccFacts
  <2> HIDE DEF l
  <2>5. /\ acc' \in AccType /\ acc'.ctx = acc.ctx /\ acc'.nodes = acc.nodes
        /\ acc'.table = acc.table /\ acc'.disconnecting = acc.disconnecting
        /\ acc'.lastSlotmapUpdateAttempt = l
    BY <2>1, <2>3, <2>4 DEF AccType
  <2>6. Queued(acc') = Queued(acc) /\ Unique(acc', orphans) /\ StaysClosed(acc, acc')
    BY <2>5, SameContexts DEF IInv, Good
  <2>7. Good(acc', orphans) /\ Kept(acc, acc')
    BY <2>4, <2>5, <2>6 DEF IInv, Good, Known, Ongoing, Kept
  <2> QED
    BY <2>1, <2>2, <2>7, KeptStep
<1> QED
  BY <1>1, <1>2

-----------------------------------------------------------------------------
(* The theorems. *)

\* Every step keeps the invariant, and opens no context of a client that disconnects.
LEMMA StepKeeps ==
    ASSUME IInv, [Next]_vars
    PROVE  IInv' /\ StaysClosed(acc, acc')
<1>1. CASE UNCHANGED vars
  <2>1. /\ acc' = acc /\ orphans' = orphans /\ owner' = owner /\ budget' = budget
        /\ issued' = issued /\ accepted' = accepted /\ calls' = calls /\ sends' = sends
    BY <1>1 DEF vars, cluVars
  <2>2. Good(acc', orphans) /\ Kept(acc, acc')
    BY <2>1 DEF IInv, Kept, StaysClosed
  <2> QED
    BY <2>1, <2>2, EnvTyped, KeptStep
<1>2. ASSUME NEW n \in Nodes, Step(n)
      PROVE  IInv' /\ StaysClosed(acc, acc')
  BY <1>2, FinalReplyKeeps, MovedReplyKeeps, AskReplyKeeps, TryAgainKeeps, SlotsReplyKeeps,
     BadSlotsReplyKeeps, OtherReplyKeeps, SelectFailsKeeps, ConnectedDropKeep,
     NullCallbackKeeps, UnlinkKeeps DEF Step
<1> QED
  BY <1>1, <1>2, OrphanCallbackKeeps, CommandsKeep, DisconnectKeeps, FreeKeeps,
     EnvironmentKeeps DEF Next

\* A client starts with the request for a slot map, or without it.
LEMMA InitKeeps ==
    ASSUME Init
    PROVE  IInv
<1> DEFINE f == [n \in Nodes |-> NULL]
           a == [nodes |-> InitialNodes, table |-> NULL, ctx |-> f,
                 attempted |-> {}, lastSlotmapUpdateAttempt |-> "old", err |-> FALSE,
                 disconnecting |-> FALSE, freed |-> FALSE]
<1>1. acc \in updateSlotMapAsync(a, NULL) /\ orphans = {}
  BY DEF Init
<1>2. f \in [Nodes -> {NULL} \cup ContextType] /\ \A n \in Nodes : f[n] = NULL
  OBVIOUS
<1> HIDE DEF f
<1>3. /\ a \in AccType /\ a.nodes = InitialNodes /\ a.table = NULL /\ a.ctx = f
      /\ a.lastSlotmapUpdateAttempt = "old"
  BY <1>2, ClusterAsyncConstants DEF AccType
<1> HIDE DEF a
<1>4. Queued(a) = {}
  BY <1>2, <1>3 DEF Queued, CallbacksOf
<1>5. Good(a, {})
  <2>1. Known(a)
    BY <1>2, <1>3, ClusterAsyncConstants DEF Known
  <2>2. Unique(a, {})
    BY <1>2, <1>3 DEF Unique, Place
  <2>3. Ongoing(a, {})
    BY <1>3, <1>4 DEF Ongoing
  <2> QED
    BY <2>1, <2>2, <2>3 DEF Good
<1>6. Good(acc, {}) /\ Kept(a, acc)
  BY <1>1, <1>5, UpdateKeeps
<1>7. CmdsIn(Callbacks) = {}
  <2>1. CmdsIn(Queued(acc)) = {}
    BY <1>4, <1>6 DEF Kept, CmdsIn
  <2>2. Queued(acc) \cup orphans = Queued(acc)
    BY <1>1
  <2> QED
    BY <2>1, <2>2, Waiting
<1>8. owner \in [Slots -> Nodes] /\ budget \in ScenarioType /\ issued = 0 /\ accepted = {}
      /\ calls = [c \in Cmds |-> 0] /\ sends = [c \in Cmds |-> 0]
  BY ClusterAsyncConstants DEF Init
<1>9. Accounted
  BY <1>7, <1>8, ClusterAsyncConstants DEF Accounted
<1> QED
  BY <1>1, <1>6, <1>9 DEF IInv

\* At every moment each command that was accepted waits in one place or was called
\* back, and a slot map is waited for in one place exactly when the client says so.
THEOREM RequestInvariant == Spec => []IInv
<1>1. Init => IInv
  BY InitKeeps
<1>2. IInv /\ [Next]_vars => IInv'
  BY StepKeeps
<1> QED
  BY <1>1, <1>2, PTL DEF Spec

\* The callbacks of one command are one.
LEMMA OnePlace ==
    ASSUME IInv, NEW x \in CmdsIn(Callbacks), NEW y \in CmdsIn(Callbacks), x.id = y.id
    PROVE  x = y
<1>1. /\ x \in Queued(acc) \cup orphans /\ y \in Queued(acc) \cup orphans
      /\ Alike(x, y) /\ Alike(y, x)
  BY Waiting DEF CmdsIn, Alike
<1>2. acc \in AccType /\ Unique(acc, orphans)
  BY DEF IInv, Good, Known
<1>3. CASE x \in orphans /\ y \in orphans
  BY <1>1, <1>2, <1>3 DEF Unique
<1>4. ASSUME NEW u \in Queued(acc), NEW v \in orphans, Alike(u, v)
      PROVE  FALSE
  <2>1. PICK n \in Nodes, i \in Nat : Place(acc, n, i) /\ At(acc, n, i) = u
    BY <1>2, <1>4, QueuedPlaces
  <2> QED
    BY <1>2, <1>4, <2>1 DEF Unique
<1>5. CASE x \in Queued(acc) /\ y \in Queued(acc)
  <2>1. PICK n \in Nodes, i \in Nat : Place(acc, n, i) /\ At(acc, n, i) = x
    BY <1>2, <1>5, QueuedPlaces
  <2>2. PICK m \in Nodes, j \in Nat : Place(acc, m, j) /\ At(acc, m, j) = y
    BY <1>2, <1>5, QueuedPlaces
  <2>3. n = m /\ i = j
    BY <1>1, <1>2, <2>1, <2>2 DEF Unique
  <2> QED
    BY <2>1, <2>2, <2>3
<1> QED
  BY <1>1, <1>3, <1>4, <1>5

\* The invariant gives the account of the commands.
LEMMA CalledOnce ==
    ASSUME IInv
    PROVE  CallbackOnce
<1> SUFFICES ASSUME NEW c \in Cmds
             PROVE  calls[c] + Cardinality({x \in Callbacks : x.k = "cmd" /\ x.id = c})
                       = IF c \in accepted THEN 1 ELSE 0
  BY DEF CallbackOnce
<1> DEFINE S == {x \in Callbacks : x.k = "cmd" /\ x.id = c}
<1>1. \A x : x \in S <=> x \in CmdsIn(Callbacks) /\ x.id = c
  BY DEF CmdsIn
<1> HIDE DEF S
<1>2. \A x \in S : c \in accepted /\ calls[c] = 0
  BY <1>1 DEF IInv, Accounted, Paid
<1>3. \A x, y \in S : x = y
  BY <1>1, OnePlace
<1>4. calls[c] \in {0, 1} /\ (calls[c] = 1 => c \in accepted)
      /\ (c \in accepted => calls[c] = 1 \/ \E x \in S : TRUE)
  BY <1>1 DEF IInv, Accounted
<1>5. CASE S = {}
  <2>1. Cardinality(S) = 0
    BY <1>5, FS_EmptySet
  <2>2. calls[c] = IF c \in accepted THEN 1 ELSE 0
    BY <1>4, <1>5
  <2> QED
    BY <2>1, <2>2 DEF S
<1>6. CASE S # {}
  <2>1. PICK x : x \in S
    BY <1>6
  <2>2. S = {x}
    BY <1>3, <2>1
  <2>3. Cardinality(S) = 1
    BY <2>2, FS_Singleton
  <2>4. c \in accepted /\ calls[c] = 0
    BY <1>2, <2>1
  <2> QED
    BY <2>3, <2>4 DEF S
<1> QED
  BY <1>5, <1>6

\* The invariant gives the account of the slot map requests.
LEMMA UpdatesOnce ==
    ASSUME IInv
    PROVE  OneUpdateAtATime
<1> DEFINE waiting(n) == {k \in 1..Len(acc.ctx[n].q) : acc.ctx[n].q[k] = SlotsCb}
           queued == UNION {{<<n, k>> : k \in waiting(n)} :
                               n \in {m \in Nodes : acc.ctx[m] # NULL}}
           places == queued \cup (orphans \cap {SlotsCb})
<1>0. acc \in AccType /\ Unique(acc, orphans) /\ Ongoing(acc, orphans)
  BY DEF IInv, Good, Known
<1>1. \A p : p \in queued <=> \E n \in Nodes : \E i \in Nat :
                 p = <<n, i>> /\ Place(acc, n, i) /\ At(acc, n, i) = SlotsCb
  <2>1. ASSUME NEW p \in queued
        PROVE  \E n \in Nodes : \E i \in Nat :
                 p = <<n, i>> /\ Place(acc, n, i) /\ At(acc, n, i) = SlotsCb
    <3>1. PICK n \in Nodes : acc.ctx[n] # NULL /\ p \in {<<n, k>> : k \in waiting(n)}
      BY <2>1
    <3>2. PICK k \in waiting(n) : p = <<n, k>>
      BY <3>1
    <3>3. k \in 1..Len(acc.ctx[n].q) /\ k \in Nat
      BY <1>0, <3>1, ContextFacts
    <3> QED
      BY <3>1, <3>2, <3>3 DEF Place, At
  <2>2. ASSUME NEW n \in Nodes, NEW i \in Nat, Place(acc, n, i), At(acc, n, i) = SlotsCb
        PROVE  <<n, i>> \in queued
    <3>1. acc.ctx[n] # NULL /\ i \in waiting(n)
      BY <2>2 DEF Place, At
    <3> QED
      BY <3>1
  <2> QED
    BY <2>1, <2>2
<1> HIDE DEF queued
<1>2. SlotsCb \in Queued(acc) <=> queued # {}
  BY <1>0, <1>1, QueuedPlaces, ZenonT(40)
<1>3. Alike(SlotsCb, SlotsCb)
  BY CallbackKinds DEF Alike
<1>4. \A p, r \in queued : p = r
  <2>1. ASSUME NEW p \in queued, NEW r \in queued
        PROVE  p = r
    <3>1. PICK n \in Nodes, i \in Nat :
             p = <<n, i>> /\ Place(acc, n, i) /\ At(acc, n, i) = SlotsCb
      BY <1>1, <2>1
    <3>2. PICK m \in Nodes, j \in Nat :
             r = <<m, j>> /\ Place(acc, m, j) /\ At(acc, m, j) = SlotsCb
      BY <1>1, <2>1
    <3>3. n = m /\ i = j
      BY <1>0, <1>3, <3>1, <3>2 DEF Unique
    <3> QED
      BY <3>1, <3>2, <3>3
  <2> QED
    BY <2>1
<1>5. queued # {} => SlotsCb \notin orphans
  BY <1>0, <1>1, <1>3 DEF Unique
<1>6. \A p, r \in places : p = r
  BY <1>4, <1>5
<1>7. places # {} <=> acc.lastSlotmapUpdateAttempt = "ongoing"
  BY <1>0, <1>2 DEF Ongoing
<1> HIDE DEF places
<1>8. Cardinality(places) = IF acc.lastSlotmapUpdateAttempt = "ongoing" THEN 1 ELSE 0
  <2>1. CASE places = {}
    BY <1>7, <2>1, FS_EmptySet
  <2>2. CASE places # {}
    <3>1. PICK p : p \in places
      BY <2>2
    <3>2. places = {p}
      BY <1>6, <3>1
    <3> QED
      BY <1>7, <2>2, <3>2, FS_Singleton
  <2> QED
    BY <2>1, <2>2
<1> USE DEF places, queued
<1> QED
  BY <1>8 DEF OneUpdateAtATime

\* RequestsAccounted: for every cluster and every scenario a command that the client
\* accepted waits in exactly one place until its callback is called, once; the time
\* stamp of the slot map says "ongoing" if and only if one request for it is under way;
\* and no command is sent more than 1 + max_retry_count times.
THEOREM AllAccounted == Spec => []RequestsAccounted
<1>1. IInv => RequestsAccounted
  <2> SUFFICES ASSUME IInv PROVE RequestsAccounted
    OBVIOUS
  <2>1. acc \in AccType /\ Known(acc)
    BY DEF IInv, Good, Known
  <2>2. TypeOK
    <3>1. acc.nodes \subseteq Nodes /\ acc.nodes # {}
          /\ acc.lastSlotmapUpdateAttempt \in {"old", "recent", "ongoing"}
      BY <2>1, AccFacts DEF Known
    <3>2. acc.table = NULL \/ acc.table \in [Slots -> acc.nodes]
      <4>1. acc.table \in {NULL} \cup [Slots -> Nodes]
        BY <2>1, AccFacts
      <4>2. acc.table # NULL => \A s \in Slots : acc.table[s] \in acc.nodes
        BY <2>1 DEF Known
      <4> QED
        BY <4>1, <4>2
    <3>3. \A n \in Nodes : acc.ctx[n] # NULL => acc.ctx[n] \in ContextType /\ n \in acc.nodes
      BY <2>1, ContextFacts DEF Known
    <3>4. accepted \subseteq Cmds
      BY AcceptedCmds DEF IInv
    <3> QED
      BY <3>1, <3>2, <3>3, <3>4 DEF TypeOK
  <2>3. BoundedSends
    <3>1. \A c \in Cmds : sends[c] \in 0..MaxRetry + 1
      BY DEF IInv, Accounted
    <3> QED
      BY <3>1, ClusterAsyncConstants DEF BoundedSends
  <2> QED
    BY <2>2, <2>3, CalledOnce, UpdatesOnce DEF RequestsAccounted
<1> QED
  BY <1>1, RequestInvariant, PTL

\* NoConnectionAfterDisconnect: from valkeyClusterAsyncDisconnect or
\* valkeyClusterAsyncFree on, no redirection, retry or slot map update opens a
\* connection.
THEOREM NothingOpensAgain == Spec => NoConnectionAfterDisconnect
<1>1. IInv /\ [Next]_vars =>
        [acc.disconnecting => \A n \in Nodes : acc.ctx[n] = NULL => acc'.ctx[n] = NULL]_vars
  BY StepKeeps DEF StaysClosed
<1> QED
  BY <1>1, RequestInvariant, PTL DEF Spec, NoConnectionAfterDisconnect
=============================================================================
