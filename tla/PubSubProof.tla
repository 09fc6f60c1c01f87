---------------------------- MODULE PubSubProof ----------------------------
(***************************************************************************)
(* What the runs of PubSub check on two channels is proved here for any    *)
(* number of channels and patterns, any number of commands and messages    *)
(* and any errors from the server: regular commands get their own replies  *)
(* although ac->replies and ac->sub.replies change roles while they wait,  *)
(* and the client's subscriptions follow the server's.                     *)
(*                                                                         *)
(* The invariant has four parts.  Chan relates the entries of the          *)
(* dictionary, the server's subscriptions, the messages in the socket and  *)
(* the commands on the wire: pending_subs counts the subscribe messages    *)
(* still to come, so that it is zero exactly when an unsubscribe message   *)
(* is the last word on its channel.  Regs relates the two lists of         *)
(* callbacks, in order, to the replies and commands under way.  Mixed says *)
(* that while ac->replies is not empty its replies come before any pushed  *)
(* message, because that list is served first whatever arrives.  Expecting *)
(* says that a callback waits in a list exactly until it is called.        *)
(***************************************************************************)
EXTENDS PubSub, FiniteSetTheorems, SequenceTheorems, TLAPS

\* The behaviours the theorems are about: channels and patterns, one in a
\* command, and only what was subscribed to is unsubscribed.  TLC finds that the
\* properties fail without these conditions: several channels in a command get
\* each other's callbacks (valkeyAsyncAppendCmdLen), unsubscribing twice leaves
\* the client with the wrong mode, and sharded channels that the server refuses
\* disturb the other kinds.
Plain ==
    /\ MaxArgs = 1
    /\ case.repeats = FALSE
    /\ \A k \in case.keys : Kind[k] # "schannels"

\* The messages and commands that subscribe to k and unsubscribe from it.
SubItem(m, k) == m.t = "subscribe" /\ m.key = k
UnsubItem(m, k) == m.t = "unsubscribe" /\ m.key = k
SubCmd(c, k) == c.t = "subscribe" /\ c.keys[1] = k
UnsubCmd(c, k) == \/ c.t = "unsubscribe" /\ c.keys[1] = k
                  \/ c.t = "unsubscribe_all" /\ c.kind = Kind[k]

\* Before position j of the messages q, every unsubscribe message for k is
\* followed by a subscribe message.
Subscribed(q, j, k) ==
    \A i \in 1..(j - 1) :
        UnsubItem(q[i], k) => \E l \in (i + 1)..(j - 1) : SubItem(q[l], k)

\* Before position j of the commands w, every unsubscribe of k is followed by a
\* subscribe, and there is one if the server's set v does not have k.
On(w, v, j, k) ==
    /\ \A i \in 1..(j - 1) :
          UnsubCmd(w[i], k) => \E l \in (i + 1)..(j - 1) : SubCmd(w[l], k)
    /\ k \notin v => \E l \in 1..(j - 1) : SubCmd(w[l], k)

\* Where q subscribes to k.
SubItems(q, k) == {i \in 1..Len(q) : SubItem(q[i], k)}
SubCmds(w, k) == {i \in 1..Len(w) : SubCmd(w[i], k)}

\* The client has an entry for every channel anything is under way for.
Owned(d, v, q, w, wt) ==
    /\ v \subseteq DOMAIN d
    /\ wt \subseteq DOMAIN d
    /\ \A j \in 1..Len(q) : IsPush(q[j]) => q[j].key \in DOMAIN d
    /\ \A j \in 1..Len(w) :
          w[j].t \in {"subscribe", "unsubscribe"} => w[j].keys[1] \in DOMAIN d

\* Messages come while the channel is subscribed.
Ordered(v, q) ==
    /\ \A j \in 1..Len(q) :
          q[j].t \in {"message", "unsubscribe"} => Subscribed(q, j, q[j].key)
    /\ \A k \in v : Subscribed(q, Len(q) + 1, k)

\* A subscription the server has ended is still to be ended here.
Ending(d, v, q) ==
    /\ \A k \in DOMAIN d \ v : \A l \in 1..Len(q) :
          SubItem(q[l], k) => \E i \in (l + 1)..Len(q) : UnsubItem(q[i], k)
    /\ \A k \in DOMAIN d \ v :
          d[k].pending_subs = 0 => \E i \in 1..Len(q) : UnsubItem(q[i], k)

\* An unsubscribe message that does not count zero leaves an entry.
Lasting(d, q) ==
    \A j \in 1..Len(q) : q[j].t = "unsubscribe" /\ q[j].n # 0 =>
        \E k \in DOMAIN d : k # q[j].key /\ Subscribed(q, j, k)

\* What is unsubscribed is subscribed when the command is executed.
Sent(d, v, w, wt) ==
    /\ \A j \in 1..Len(w) : w[j].t = "unsubscribe" => On(w, v, j, w[j].keys[1])
    /\ \A j \in 1..Len(w) : w[j].t = "unsubscribe_all" =>
          \E k \in DOMAIN d : Kind[k] = w[j].kind /\ On(w, v, j, k)
    /\ \A k \in wt : On(w, v, Len(w) + 1, k)

\* A channel still wanted has not been unsubscribed from.
Unmarked(d, wt) == \A k \in wt : d[k].unsubscribe_sent = FALSE

\* pending_subs is the number of subscribe messages still to come.
Counted(d, q, w) ==
    \A k \in DOMAIN d :
        d[k].pending_subs = Cardinality(SubItems(q, k)) + Cardinality(SubCmds(w, k))

\* All of it, for the entries d, the server's set v, the messages q in the socket,
\* the commands w on the wire and the set wt of channels wanted.
Chan(d, v, q, w, wt) ==
    /\ Owned(d, v, q, w, wt)
    /\ Ordered(v, q)
    /\ Ending(d, v, q)
    /\ Lasting(d, q)
    /\ Sent(d, v, w, wt)
    /\ Unmarked(d, wt)
    /\ Counted(d, q, w)

-----------------------------------------------------------------------------
(* Sequences that grow at one end and shrink at the other. *)

\* How sequences change: q2 has q at its beginning, is q and e, is q without its
\* head.
Extends(q, q2) ==
    /\ Len(q) \in Nat /\ Len(q2) \in Nat /\ Len(q) <= Len(q2)
    /\ \A i \in 1..Len(q) : q2[i] = q[i]

Appends(q, q2, e) ==
    /\ Extends(q, q2)
    /\ Len(q2) = Len(q) + 1
    /\ q2[Len(q) + 1] = e

Drops(q, q2) ==
    /\ Len(q) \in Nat /\ Len(q2) \in Nat /\ Len(q) = Len(q2) + 1
    /\ \A i \in 1..Len(q2) : q2[i] = q[i + 1]

\* Append adds one element at the end.
LEMMA AppendAppends ==
  ASSUME NEW S, NEW q \in Seq(S), NEW e \in S
  PROVE  Append(q, e) \in Seq(S) /\ Appends(q, Append(q, e), e)
  BY DEF Appends, Extends

\* Tail drops the first element.
LEMMA TailDrops ==
  ASSUME NEW S, NEW q \in Seq(S), q # <<>>
  PROVE  /\ Tail(q) \in Seq(S)
         /\ Drops(q, Tail(q))
         /\ Head(q) = q[1]
         /\ Len(q) >= 1
         /\ q[1] \in S
<1>1. Tail(q) \in Seq(S) /\ Len(Tail(q)) = Len(q) - 1
      /\ \A i \in 1..Len(Tail(q)) : Tail(q)[i] = q[i + 1]
  BY HeadTailProperties
<1>2. Len(q) \in Nat /\ Len(Tail(q)) \in Nat
  BY <1>1, LenProperties
<1>3. Drops(q, Tail(q))
  BY <1>1, <1>2 DEF Drops
<1>4. Head(q) = q[1] /\ Head(q) \in S
  BY HeadTailProperties
<1>q. QED BY <1>1, <1>2, <1>3, <1>4

\* What comes after position j does not matter to Subscribed.
LEMMA SubKept ==
  ASSUME NEW q, NEW q2, Extends(q, q2), NEW j \in 1..(Len(q) + 1), NEW k,
         Subscribed(q, j, k)
  PROVE  Subscribed(q2, j, k)
<1> SUFFICES ASSUME NEW i \in 1..(j - 1), UnsubItem(q2[i], k)
             PROVE  \E l \in (i + 1)..(j - 1) : SubItem(q2[l], k)
  BY DEF Subscribed
<1>1. q2[i] = q[i]
  BY DEF Extends
<1>2. PICK l \in (i + 1)..(j - 1) : SubItem(q[l], k)
  BY <1>1 DEF Subscribed
<1>3. q2[l] = q[l]
  BY DEF Extends
<1>q. QED BY <1>2, <1>3

\* Nor does the first message, once it is processed.
LEMMA SubDropped ==
  ASSUME NEW q, NEW q2, Drops(q, q2), NEW j \in 1..Len(q), NEW k,
         Subscribed(q, j + 1, k)
  PROVE  Subscribed(q2, j, k)
<1> SUFFICES ASSUME NEW i \in 1..(j - 1), UnsubItem(q2[i], k)
             PROVE  \E l \in (i + 1)..(j - 1) : SubItem(q2[l], k)
  BY DEF Subscribed
<1>1. i \in 1..Len(q2) /\ i + 1 \in 1..((j + 1) - 1) /\ q2[i] = q[i + 1]
  BY DEF Drops
<1>2. PICK l \in ((i + 1) + 1)..((j + 1) - 1) : SubItem(q[l], k)
  BY <1>1 DEF Subscribed
<1>3. l - 1 \in (i + 1)..(j - 1) /\ l - 1 \in 1..Len(q2) /\ (l - 1) + 1 = l
  BY <1>2 DEF Drops
<1>4. SubItem(q2[l - 1], k)
  BY <1>2, <1>3 DEF Drops
<1>q. QED BY <1>3, <1>4

\* A channel stays subscribed while no unsubscribe message comes for it.
LEMMA SubUntil ==
  ASSUME NEW q, NEW j \in Nat \ {0}, NEW j2 \in Nat, j <= j2, NEW k,
         Subscribed(q, j, k), \A i \in j..(j2 - 1) : ~UnsubItem(q[i], k)
  PROVE  Subscribed(q, j2, k)
<1> SUFFICES ASSUME NEW i \in 1..(j2 - 1), UnsubItem(q[i], k)
             PROVE  \E l \in (i + 1)..(j2 - 1) : SubItem(q[l], k)
  BY DEF Subscribed
<1>1. i \in 1..(j - 1)
  OBVIOUS
<1>2. PICK l \in (i + 1)..(j - 1) : SubItem(q[l], k)
  BY <1>1 DEF Subscribed
<1>q. QED BY <1>2

\* It is subscribed after a subscribe message, whatever came before.
LEMMA SubLast ==
  ASSUME NEW q, NEW j \in Nat \ {0}, NEW k, SubItem(q[j], k)
  PROVE  Subscribed(q, j + 1, k)
<1> SUFFICES ASSUME NEW i \in 1..j, UnsubItem(q[i], k)
             PROVE  \E l \in (i + 1)..j : SubItem(q[l], k)
  BY DEF Subscribed
<1>1. i # j
  BY DEF SubItem, UnsubItem
<1>q. QED BY <1>1

\* Commands issued later do not matter to On.
LEMMA OnKept ==
  ASSUME NEW w, NEW w2, Extends(w, w2), NEW j \in 1..(Len(w) + 1), NEW k, NEW v,
         On(w, v, j, k)
  PROVE  On(w2, v, j, k)
<1>0. \A i \in 1..(j - 1) : w2[i] = w[i]
  <2>1. Len(w) \in Nat
    BY DEF Extends
  <2>2. \A i \in 1..(j - 1) : i \in 1..Len(w)
    BY <2>1
  <2>q. QED BY <2>2 DEF Extends
<1>1. ASSUME NEW i \in 1..(j - 1), UnsubCmd(w2[i], k)
      PROVE  \E l \in (i + 1)..(j - 1) : SubCmd(w2[l], k)
  <2>1. PICK l \in (i + 1)..(j - 1) : SubCmd(w[l], k)
    BY <1>0, <1>1 DEF On
  <2>2. w2[l] = w[l]
    BY <1>0
  <2>q. QED BY <2>1, <2>2
<1>2. ASSUME k \notin v PROVE \E l \in 1..(j - 1) : SubCmd(w2[l], k)
  <2>1. PICK l \in 1..(j - 1) : SubCmd(w[l], k)
    BY <1>2 DEF On
  <2>2. w2[l] = w[l]
    BY <1>0
  <2>q. QED BY <2>1, <2>2
<1>q. QED BY <1>1, <1>2 DEF On

\* Nor does the first command, once the server's set accounts for it.
LEMMA OnDropped ==
  ASSUME NEW w, NEW w2, Drops(w, w2), NEW j \in 1..Len(w), NEW k, NEW v, NEW v2,
         On(w, v, j + 1, k),
         k \in v /\ ~UnsubCmd(w[1], k) => k \in v2,
         SubCmd(w[1], k) => k \in v2
  PROVE  On(w2, v2, j, k)
<1>1. ASSUME NEW i \in 1..(j - 1), UnsubCmd(w2[i], k)
      PROVE  \E l \in (i + 1)..(j - 1) : SubCmd(w2[l], k)
  <2>1. i \in 1..Len(w2) /\ i + 1 \in 1..((j + 1) - 1) /\ w2[i] = w[i + 1]
    BY DEF Drops
  <2>2. PICK l \in ((i + 1) + 1)..((j + 1) - 1) : SubCmd(w[l], k)
    BY <1>1, <2>1 DEF On
  <2>3. l - 1 \in (i + 1)..(j - 1) /\ l - 1 \in 1..Len(w2) /\ (l - 1) + 1 = l
    BY <2>2 DEF Drops
  <2>4. SubCmd(w2[l - 1], k)
    BY <2>2, <2>3 DEF Drops
  <2>q. QED BY <2>3, <2>4
<1>2. ASSUME k \notin v2
      PROVE  \E l \in 1..(j - 1) : SubCmd(w2[l], k)
  <2>1. k \notin v \/ UnsubCmd(w[1], k)
    BY <1>2
  <2>2. PICK l \in 1..((j + 1) - 1) : SubCmd(w[l], k) /\ l # 1
    <3>1. CASE k \notin v
      BY <1>2, <3>1 DEF On
    <3>2. CASE UnsubCmd(w[1], k)
      <4>1. 1 \in 1..((j + 1) - 1)
        OBVIOUS
      <4>2. PICK l \in (1 + 1)..((j + 1) - 1) : SubCmd(w[l], k)
        BY <3>2, <4>1 DEF On
      <4>q. QED BY <4>2
    <3>q. QED BY <2>1, <3>1, <3>2
  <2>3. l - 1 \in 1..(j - 1) /\ l - 1 \in 1..Len(w2) /\ (l - 1) + 1 = l
    BY <2>2 DEF Drops
  <2>4. SubCmd(w2[l - 1], k)
    BY <2>2, <2>3 DEF Drops
  <2>q. QED BY <2>3, <2>4
<1>q. QED BY <1>1, <1>2 DEF On

\* A channel stays subscribed to while no command unsubscribes it.
LEMMA OnUntil ==
  ASSUME NEW w, NEW v, NEW j \in Nat \ {0}, NEW j2 \in Nat, j <= j2, NEW k,
         On(w, v, j, k), \A i \in j..(j2 - 1) : ~UnsubCmd(w[i], k)
  PROVE  On(w, v, j2, k)
<1>1. ASSUME NEW i \in 1..(j2 - 1), UnsubCmd(w[i], k)
      PROVE  \E l \in (i + 1)..(j2 - 1) : SubCmd(w[l], k)
  <2>1. i \in 1..(j - 1)
    BY <1>1
  <2>2. PICK l \in (i + 1)..(j - 1) : SubCmd(w[l], k)
    BY <1>1, <2>1 DEF On
  <2>q. QED BY <2>2
<1>2. ASSUME k \notin v PROVE \E l \in 1..(j2 - 1) : SubCmd(w[l], k)
  <2>1. PICK l \in 1..(j - 1) : SubCmd(w[l], k)
    BY <1>2 DEF On
  <2>q. QED BY <2>1
<1>q. QED BY <1>1, <1>2 DEF On

\* It is subscribed to after a subscribe, whatever came before.
LEMMA OnLast ==
  ASSUME NEW w, NEW v, NEW j \in Nat \ {0}, NEW k, SubCmd(w[j], k)
  PROVE  On(w, v, j + 1, k)
<1>1. ASSUME NEW i \in 1..j, UnsubCmd(w[i], k)
      PROVE  \E l \in (i + 1)..j : SubCmd(w[l], k)
  <2>1. i # j
    BY <1>1 DEF SubCmd, UnsubCmd
  <2>q. QED BY <2>1
<1>2. \E l \in 1..j : SubCmd(w[l], k)
  OBVIOUS
<1>q. QED BY <1>1, <1>2 DEF On

-----------------------------------------------------------------------------
(* Counting. *)

\* A set of positions is finite.
LEMMA Finite ==
  ASSUME NEW n \in Nat, NEW S \in SUBSET (1..n)
  PROVE  IsFiniteSet(S)
<1>1. IsFiniteSet(1..n)
  BY FS_Interval
<1>q. QED BY <1>1, FS_Subset

\* How many positions are left when all move down by one and the first one goes.
LEMMA Shifted ==
  ASSUME NEW n \in Nat, NEW S \in SUBSET (1..n), NEW T,
         T = {i \in 1..(n - 1) : i + 1 \in S}
  PROVE  /\ IsFiniteSet(S) /\ IsFiniteSet(T)
         /\ Cardinality(S) \in Nat /\ Cardinality(T) \in Nat
         /\ Cardinality(T) = IF 1 \in S THEN Cardinality(S) - 1 ELSE Cardinality(S)
<1>1. IsFiniteSet(S)
  BY Finite
<1>2. IsFiniteSet(T)
  <2>1. T \in SUBSET (1..n)
    OBVIOUS
  <2>q. QED BY <2>1, Finite
<1>3. IsFiniteSet(S \ {1})
      /\ Cardinality(S \ {1}) = IF 1 \in S THEN Cardinality(S) - 1 ELSE Cardinality(S)
  BY <1>1, FS_RemoveElement
<1>4. ExistsBijection(S \ {1}, T)
  <2> DEFINE f == [i \in S \ {1} |-> i - 1]
  <2>1. \A i \in S \ {1} : i - 1 \in T
    OBVIOUS
  <2>2. f \in Injection(S \ {1}, T)
    BY <2>1 DEF Injection, IsInjective
  <2>3. f \in Surjection(S \ {1}, T)
    <3>1. \A t \in T : t + 1 \in S \ {1} /\ f[t + 1] = t
      OBVIOUS
    <3>2. \A t \in T : \E s \in S \ {1} : f[s] = t
      BY <3>1
    <3>q. QED BY <2>1, <3>2 DEF Surjection
  <2>q. QED BY <2>2, <2>3 DEF ExistsBijection, Bijection
<1>5. Cardinality(T) = Cardinality(S \ {1})
  BY <1>3, <1>4, FS_Bijection
<1>6. Cardinality(S) \in Nat /\ Cardinality(T) \in Nat
  BY <1>1, <1>2, FS_CardinalityType
<1>q. QED BY <1>1, <1>2, <1>3, <1>5, <1>6

\* Processing a message: one subscribe message less if it was one for k.
LEMMA ItemsDropped ==
  ASSUME NEW q, NEW q2, Drops(q, q2), NEW k
  PROVE  /\ Cardinality(SubItems(q, k)) \in Nat
         /\ Cardinality(SubItems(q2, k)) \in Nat
         /\ SubItem(q[1], k)
              => Cardinality(SubItems(q2, k)) = Cardinality(SubItems(q, k)) - 1
         /\ ~SubItem(q[1], k)
              => Cardinality(SubItems(q2, k)) = Cardinality(SubItems(q, k))
<1>1. Len(q) \in Nat /\ SubItems(q, k) \in SUBSET (1..Len(q))
  BY DEF Drops, SubItems
<1>2. SubItems(q2, k) = {i \in 1..(Len(q) - 1) : i + 1 \in SubItems(q, k)}
  BY DEF Drops, SubItems
<1>3. 1 \in SubItems(q, k) <=> SubItem(q[1], k)
  BY DEF Drops, SubItems
<1>q. QED BY <1>1, <1>2, <1>3, Shifted

\* Executing a command: one subscribe less if it was one for k.
LEMMA CmdsDropped ==
  ASSUME NEW q, NEW q2, Drops(q, q2), NEW k
  PROVE  /\ Cardinality(SubCmds(q, k)) \in Nat
         /\ Cardinality(SubCmds(q2, k)) \in Nat
         /\ SubCmd(q[1], k)
              => Cardinality(SubCmds(q2, k)) = Cardinality(SubCmds(q, k)) - 1
         /\ ~SubCmd(q[1], k)
              => Cardinality(SubCmds(q2, k)) = Cardinality(SubCmds(q, k))
<1>1. Len(q) \in Nat /\ SubCmds(q, k) \in SUBSET (1..Len(q))
  BY DEF Drops, SubCmds
<1>2. SubCmds(q2, k) = {i \in 1..(Len(q) - 1) : i + 1 \in SubCmds(q, k)}
  BY DEF Drops, SubCmds
<1>3. 1 \in SubCmds(q, k) <=> SubCmd(q[1], k)
  BY DEF Drops, SubCmds
<1>q. QED BY <1>1, <1>2, <1>3, Shifted

\* Messages that subscribe to something else do not change the count for k ...
LEMMA ItemsExtended ==
  ASSUME NEW q, NEW q2, Extends(q, q2), NEW k,
         \A i \in (Len(q) + 1)..Len(q2) : ~SubItem(q2[i], k)
  PROVE  Cardinality(SubItems(q2, k)) = Cardinality(SubItems(q, k))
<1>1. SubItems(q2, k) = SubItems(q, k)
  BY DEF Extends, SubItems
<1>q. QED BY <1>1

\* ... and a subscribe message for k adds one.
LEMMA ItemAppended ==
  ASSUME NEW q, NEW q2, NEW e, Appends(q, q2, e), NEW k, SubItem(e, k)
  PROVE  /\ Cardinality(SubItems(q, k)) \in Nat
         /\ Cardinality(SubItems(q2, k)) = Cardinality(SubItems(q, k)) + 1
<1>1. Len(q) \in Nat /\ SubItems(q, k) \in SUBSET (1..Len(q))
  BY DEF Appends, Extends, SubItems
<1>2. SubItems(q2, k) = SubItems(q, k) \cup {Len(q) + 1} /\ Len(q) + 1 \notin SubItems(q, k)
  BY DEF Appends, Extends, SubItems
<1>3. IsFiniteSet(SubItems(q, k))
  BY <1>1, Finite
<1>q. QED BY <1>2, <1>3, FS_AddElement, FS_CardinalityType

\* Commands that subscribe to something else do not change the count for k ...
LEMMA CmdsExtended ==
  ASSUME NEW q, NEW q2, Extends(q, q2), NEW k,
         \A i \in (Len(q) + 1)..Len(q2) : ~SubCmd(q2[i], k)
  PROVE  Cardinality(SubCmds(q2, k)) = Cardinality(SubCmds(q, k))
<1>1. SubCmds(q2, k) = SubCmds(q, k)
  BY DEF Extends, SubCmds
<1>q. QED BY <1>1

\* ... and a subscribe to k adds one.
LEMMA CmdAppended ==
  ASSUME NEW q, NEW q2, NEW e, Appends(q, q2, e), NEW k, SubCmd(e, k)
  PROVE  /\ Cardinality(SubCmds(q, k)) \in Nat
         /\ Cardinality(SubCmds(q2, k)) = Cardinality(SubCmds(q, k)) + 1
<1>1. Len(q) \in Nat /\ SubCmds(q, k) \in SUBSET (1..Len(q))
  BY DEF Appends, Extends, SubCmds
<1>2. SubCmds(q2, k) = SubCmds(q, k) \cup {Len(q) + 1} /\ Len(q) + 1 \notin SubCmds(q, k)
  BY DEF Appends, Extends, SubCmds
<1>3. IsFiniteSet(SubCmds(q, k))
  BY <1>1, Finite
<1>q. QED BY <1>2, <1>3, FS_AddElement, FS_CardinalityType

\* The counts are zero exactly when there is nothing to count.
LEMMA CountsAreNaturals ==
  ASSUME NEW q, NEW k, Len(q) \in Nat
  PROVE  /\ Cardinality(SubItems(q, k)) \in Nat
         /\ Cardinality(SubCmds(q, k)) \in Nat
         /\ Cardinality(SubItems(q, k)) = 0 => \A l \in 1..Len(q) : ~SubItem(q[l], k)
         /\ Cardinality(SubCmds(q, k)) = 0 => \A l \in 1..Len(q) : ~SubCmd(q[l], k)
         /\ (\A l \in 1..Len(q) : ~SubItem(q[l], k)) => Cardinality(SubItems(q, k)) = 0
         /\ (\A l \in 1..Len(q) : ~SubCmd(q[l], k)) => Cardinality(SubCmds(q, k)) = 0
<1>1. SubItems(q, k) \in SUBSET (1..Len(q)) /\ SubCmds(q, k) \in SUBSET (1..Len(q))
  BY DEF SubItems, SubCmds
<1>2. IsFiniteSet(SubItems(q, k)) /\ IsFiniteSet(SubCmds(q, k))
  BY <1>1, Finite
<1>3. /\ Cardinality(SubItems(q, k)) \in Nat
      /\ Cardinality(SubCmds(q, k)) \in Nat
      /\ Cardinality(SubItems(q, k)) = 0 <=> SubItems(q, k) = {}
      /\ Cardinality(SubCmds(q, k)) = 0 <=> SubCmds(q, k) = {}
  BY <1>2, FS_CardinalityType, FS_EmptySet
<1>4. SubItems(q, k) = {} <=> \A l \in 1..Len(q) : ~SubItem(q[l], k)
  BY DEF SubItems
<1>5. SubCmds(q, k) = {} <=> \A l \in 1..Len(q) : ~SubCmd(q[l], k)
  BY DEF SubCmds
<1>q. QED BY <1>3, <1>4, <1>5

-----------------------------------------------------------------------------
(* The user's commands. *)

\* Chan survives the issue of a subscribe: the entry of its channel is new, or
\* expects one reply more.
LEMMA ChanSubscribed ==
  ASSUME NEW d, NEW d2, NEW v, NEW q, NEW w, NEW w2, NEW wt, NEW e, NEW k,
         Chan(d, v, q, w, wt), Len(q) \in Nat, Appends(w, w2, e), SubCmd(e, k),
         DOMAIN d2 = DOMAIN d \cup {k},
         \A x \in DOMAIN d : x # k => d2[x] = d[x],
         d2[k].unsubscribe_sent = FALSE,
         d2[k].pending_subs = IF k \in DOMAIN d THEN d[k].pending_subs + 1 ELSE 1
  PROVE  Chan(d2, v, q, w2, wt \cup {k})
<1>1. /\ Len(w) \in Nat /\ Len(w2) = Len(w) + 1 /\ w2[Len(w) + 1] = e
      /\ \A i \in 1..Len(w) : w2[i] = w[i]
      /\ Extends(w, w2)
  BY DEF Appends, Extends
<1>2. e.t = "subscribe" /\ e.keys[1] = k
  BY DEF SubCmd
<1>3. Owned(d2, v, q, w2, wt \cup {k})
  BY <1>1, <1>2 DEF Chan, Owned
<1>4. Ordered(v, q)
  BY DEF Chan
<1>5. ASSUME k \notin DOMAIN d
      PROVE  /\ \A l \in 1..Len(q) : ~SubItem(q[l], k)
             /\ \A l \in 1..Len(w) : ~SubCmd(w[l], k)
  BY <1>5 DEF Chan, Owned, SubItem, SubCmd, IsPush
<1>6. ASSUME k \in DOMAIN d
      PROVE  d[k].pending_subs \in Nat /\ d2[k].pending_subs # 0
  <2>1. d[k].pending_subs = Cardinality(SubItems(q, k)) + Cardinality(SubCmds(w, k))
    BY <1>6 DEF Chan, Counted
  <2>q. QED BY <2>1, <1>1, <1>6, CountsAreNaturals
<1>7. d2[k].pending_subs # 0
  BY <1>6
<1>8. Ending(d2, v, q)
  <2>1. ASSUME NEW x \in DOMAIN d2 \ v, NEW l \in 1..Len(q), SubItem(q[l], x)
        PROVE  \E i \in (l + 1)..Len(q) : UnsubItem(q[i], x)
    <3>1. x \in DOMAIN d \ v
      BY <2>1, <1>5
    <3>q. QED BY <2>1, <3>1 DEF Chan, Ending
  <2>2. ASSUME NEW x \in DOMAIN d2 \ v, d2[x].pending_subs = 0
        PROVE  \E i \in 1..Len(q) : UnsubItem(q[i], x)
    <3>1. x # k
      BY <2>2, <1>7
    <3>2. x \in DOMAIN d \ v /\ d2[x] = d[x]
      BY <3>1
    <3>q. QED BY <2>2, <3>2 DEF Chan, Ending
  <2>q. QED BY <2>1, <2>2 DEF Ending
<1>9. Lasting(d2, q)
  BY DEF Chan, Lasting
<1>10. Sent(d2, v, w2, wt \cup {k})
  <2>1. \A j \in 1..Len(w) : \A x : On(w, v, j, x) => On(w2, v, j, x)
    BY <1>1, OnKept
  <2>2. ASSUME NEW j \in 1..Len(w2), w2[j].t \in {"unsubscribe", "unsubscribe_all"}
        PROVE  j \in 1..Len(w) /\ w2[j] = w[j]
    BY <1>1, <1>2, <2>2
  <2>3. ASSUME NEW j \in 1..Len(w2), w2[j].t = "unsubscribe"
        PROVE  On(w2, v, j, w2[j].keys[1])
    BY <2>1, <2>2, <2>3 DEF Chan, Sent
  <2>4. ASSUME NEW j \in 1..Len(w2), w2[j].t = "unsubscribe_all"
        PROVE  \E x \in DOMAIN d2 : Kind[x] = w2[j].kind /\ On(w2, v, j, x)
    <3>1. j \in 1..Len(w) /\ w2[j] = w[j]
      BY <2>2, <2>4
    <3>2. PICK x \in DOMAIN d : Kind[x] = w[j].kind /\ On(w, v, j, x)
      BY <3>1, <2>4 DEF Chan, Sent
    <3>q. QED BY <2>1, <3>1, <3>2
  <2>5. ASSUME NEW x \in wt \cup {k}
        PROVE  On(w2, v, Len(w2) + 1, x)
    <3>1. CASE x = k
      <4>1. SubCmd(w2[Len(w2)], x) /\ Len(w2) \in Nat \ {0}
        BY <1>1, <3>1
      <4>q. QED BY <4>1, OnLast
    <3>2. CASE x # k
      <4>1. On(w, v, Len(w) + 1, x)
        BY <3>2 DEF Chan, Sent
      <4>2. On(w2, v, Len(w) + 1, x)
        BY <4>1, <1>1, OnKept
      <4>3. \A i \in (Len(w) + 1)..((Len(w2) + 1) - 1) : ~UnsubCmd(w2[i], x)
        BY <1>1, <1>2 DEF UnsubCmd
      <4>q. QED BY <4>2, <4>3, <1>1, OnUntil
    <3>q. QED BY <3>1, <3>2
  <2>q. QED BY <2>3, <2>4, <2>5 DEF Sent
<1>11. Unmarked(d2, wt \cup {k})
  BY DEF Chan, Owned, Unmarked
<1>12. Counted(d2, q, w2)
  <2> SUFFICES ASSUME NEW x \in DOMAIN d2
               PROVE  d2[x].pending_subs
                        = Cardinality(SubItems(q, x)) + Cardinality(SubCmds(w2, x))
    BY DEF Counted
  <2>1. CASE x # k
    <3>1. d[x].pending_subs = Cardinality(SubItems(q, x)) + Cardinality(SubCmds(w, x))
      BY <2>1 DEF Chan, Counted
    <3>2. Cardinality(SubCmds(w2, x)) = Cardinality(SubCmds(w, x))
      <4>1. \A i \in (Len(w) + 1)..Len(w2) : ~SubCmd(w2[i], x)
        BY <1>1, <1>2, <2>1 DEF SubCmd
      <4>q. QED BY <4>1, <1>1, CmdsExtended
    <3>q. QED BY <2>1, <3>1, <3>2
  <2>2. CASE x = k
    <3>1. /\ Cardinality(SubCmds(w, k)) \in Nat
          /\ Cardinality(SubCmds(w2, k)) = Cardinality(SubCmds(w, k)) + 1
      BY CmdAppended
    <3>2. Cardinality(SubItems(q, k)) \in Nat
      BY CountsAreNaturals
    <3>3. CASE k \in DOMAIN d
      <4>1. d[k].pending_subs = Cardinality(SubItems(q, k)) + Cardinality(SubCmds(w, k))
        BY <3>3 DEF Chan, Counted
      <4>q. QED BY <2>2, <3>1, <3>2, <3>3, <4>1
    <3>4. CASE k \notin DOMAIN d
      <4>1. Cardinality(SubItems(q, k)) = 0 /\ Cardinality(SubCmds(w, k)) = 0
        BY <1>1, <1>5, <3>4, CountsAreNaturals
      <4>q. QED BY <2>2, <3>1, <3>4, <4>1
    <3>q. QED BY <3>3, <3>4
  <2>q. QED BY <2>1, <2>2
<1>q. QED BY <1>3, <1>4, <1>8, <1>9, <1>10, <1>11, <1>12 DEF Chan

\* Chan survives the issue of any other command, if what it unsubscribes is
\* wanted until then.
LEMMA ChanSent ==
  ASSUME NEW d, NEW d2, NEW v, NEW q, NEW w, NEW w2, NEW wt, NEW wt2, NEW e,
         Chan(d, v, q, w, wt), Appends(w, w2, e),
         DOMAIN d2 = DOMAIN d, wt2 \subseteq wt,
         \A x \in DOMAIN d : d2[x].pending_subs = d[x].pending_subs,
         \A x \in wt2 : d2[x].unsubscribe_sent = FALSE /\ ~UnsubCmd(e, x),
         e.t \in {"regular", "unsubscribe", "unsubscribe_all"},
         e.t = "unsubscribe" => e.keys[1] \in wt,
         e.t = "unsubscribe_all" => \E x \in wt : Kind[x] = e.kind
  PROVE  Chan(d2, v, q, w2, wt2)
<1>1. /\ Len(w) \in Nat /\ Len(w2) = Len(w) + 1 /\ w2[Len(w) + 1] = e
      /\ \A i \in 1..Len(w) : w2[i] = w[i]
      /\ Extends(w, w2)
  BY DEF Appends, Extends
<1>2. e.t # "subscribe" /\ \A x : ~SubCmd(e, x)
  BY DEF SubCmd
<1>3. Owned(d2, v, q, w2, wt2)
  BY <1>1 DEF Chan, Owned
<1>4. Ordered(v, q)
  BY DEF Chan
<1>5. Ending(d2, v, q)
  BY DEF Chan, Ending
<1>6. Lasting(d2, q)
  BY DEF Chan, Lasting
<1>7. Sent(d2, v, w2, wt2)
  <2>1. \A j \in 1..Len(w) + 1 : \A x : On(w, v, j, x) => On(w2, v, j, x)
    BY <1>1, OnKept
  <2>2. \A x \in wt : On(w2, v, Len(w) + 1, x)
    BY <2>1, <1>1 DEF Chan, Sent
  <2>3. ASSUME NEW j \in 1..Len(w2), w2[j].t = "unsubscribe"
        PROVE  On(w2, v, j, w2[j].keys[1])
    <3>1. CASE j \in 1..Len(w)
      BY <1>1, <2>1, <2>3, <3>1 DEF Chan, Sent
    <3>2. CASE j = Len(w) + 1
      BY <1>1, <2>2, <2>3, <3>2
    <3>q. QED BY <1>1, <3>1, <3>2
  <2>4. ASSUME NEW j \in 1..Len(w2), w2[j].t = "unsubscribe_all"
        PROVE  \E x \in DOMAIN d2 : Kind[x] = w2[j].kind /\ On(w2, v, j, x)
    <3>1. CASE j \in 1..Len(w)
      <4>1. PICK x \in DOMAIN d : Kind[x] = w[j].kind /\ On(w, v, j, x)
        BY <1>1, <3>1, <2>4 DEF Chan, Sent
      <4>q. QED BY <1>1, <2>1, <3>1, <4>1
    <3>2. CASE j = Len(w) + 1
      <4>1. PICK x \in wt : Kind[x] = e.kind
        BY <1>1, <2>4, <3>2
      <4>2. x \in DOMAIN d2
        BY <4>1 DEF Chan, Owned
      <4>q. QED BY <1>1, <2>2, <3>2, <4>1, <4>2
    <3>q. QED BY <1>1, <3>1, <3>2
  <2>5. ASSUME NEW x \in wt2
        PROVE  On(w2, v, Len(w2) + 1, x)
    <3>1. On(w2, v, Len(w) + 1, x)
      BY <2>2, <2>5
    <3>2. \A i \in (Len(w) + 1)..((Len(w2) + 1) - 1) : ~UnsubCmd(w2[i], x)
      BY <1>1
    <3>q. QED BY <3>1, <3>2, <1>1, OnUntil
  <2>q. QED BY <2>3, <2>4, <2>5 DEF Sent
<1>8. Unmarked(d2, wt2)
  BY DEF Unmarked
<1>9. Counted(d2, q, w2)
  <2> SUFFICES ASSUME NEW x \in DOMAIN d2
               PROVE  d2[x].pending_subs
                        = Cardinality(SubItems(q, x)) + Cardinality(SubCmds(w2, x))
    BY DEF Counted
  <2>1. d[x].pending_subs = Cardinality(SubItems(q, x)) + Cardinality(SubCmds(w, x))
    BY DEF Chan, Counted
  <2>2. Cardinality(SubCmds(w2, x)) = Cardinality(SubCmds(w, x))
    <3>1. \A i \in (Len(w) + 1)..Len(w2) : ~SubCmd(w2[i], x)
      BY <1>1, <1>2
    <3>q. QED BY <3>1, <1>1, CmdsExtended
  <2>q. QED BY <2>1, <2>2
<1>q. QED BY <1>3, <1>4, <1>5, <1>6, <1>7, <1>8, <1>9 DEF Chan

-----------------------------------------------------------------------------
(* What the server does. *)

\* The server's set and the commands left: On is kept.
Serves(v, v2, c) ==
    \A k : /\ k \in v /\ ~UnsubCmd(c, k) => k \in v2
           /\ SubCmd(c, k) => k \in v2

\* What is still to be executed stays executable when the first command is.
LEMMA SentServed ==
  ASSUME NEW d, NEW v, NEW v2, NEW w, NEW w2, NEW wt,
         Sent(d, v, w, wt), Drops(w, w2), Serves(v, v2, w[1])
  PROVE  Sent(d, v2, w2, wt)
<1>1. ASSUME NEW j \in 1..Len(w), NEW k, On(w, v, j + 1, k)
      PROVE  On(w2, v2, j, k)
  BY <1>1, OnDropped DEF Serves
<1>2. /\ Len(w) \in Nat /\ Len(w2) \in Nat /\ Len(w) = Len(w2) + 1
      /\ \A i \in 1..Len(w2) : w2[i] = w[i + 1] /\ i + 1 \in 1..Len(w) /\ i \in 1..Len(w)
  BY DEF Drops
<1>3. ASSUME NEW j \in 1..Len(w2), w2[j].t = "unsubscribe"
      PROVE  On(w2, v2, j, w2[j].keys[1])
  <2>1. On(w, v, j + 1, w2[j].keys[1])
    BY <1>2, <1>3 DEF Sent
  <2>q. QED BY <1>1, <1>2, <2>1
<1>4. ASSUME NEW j \in 1..Len(w2), w2[j].t = "unsubscribe_all"
      PROVE  \E x \in DOMAIN d : Kind[x] = w2[j].kind /\ On(w2, v2, j, x)
  <2>1. w[j + 1].t = "unsubscribe_all" /\ j + 1 \in 1..Len(w) /\ w[j + 1] = w2[j]
    BY <1>2, <1>4
  <2>2. PICK x \in DOMAIN d : Kind[x] = w[j + 1].kind /\ On(w, v, j + 1, x)
    BY <2>1 DEF Sent
  <2>q. QED BY <1>1, <1>2, <2>1, <2>2
<1>5. ASSUME NEW x \in wt
      PROVE  On(w2, v2, Len(w2) + 1, x)
  <2>1. On(w, v, Len(w) + 1, x) /\ Len(w) \in 1..Len(w) /\ Len(w2) + 1 = Len(w)
    BY <1>2, <1>5 DEF Sent
  <2>q. QED BY <1>1, <2>1
<1>q. QED BY <1>3, <1>4, <1>5 DEF Sent

\* Executing a command brings messages only for channels with an entry.
LEMMA OwnedServed ==
  ASSUME NEW d, NEW v, NEW v2, NEW q, NEW q2, NEW w, NEW w2, NEW wt,
         Owned(d, v, q, w, wt), Drops(w, w2), Extends(q, q2), v2 \subseteq DOMAIN d,
         \A i \in (Len(q) + 1)..Len(q2) : IsPush(q2[i]) => q2[i].key \in DOMAIN d
  PROVE  Owned(d, v2, q2, w2, wt)
<1>1. /\ Len(w) \in Nat /\ Len(w2) \in Nat /\ Len(w) = Len(w2) + 1
      /\ \A i \in 1..Len(w2) : w2[i] = w[i + 1] /\ i + 1 \in 1..Len(w)
  BY DEF Drops
<1>2. /\ Len(q) \in Nat /\ Len(q2) \in Nat
      /\ \A i \in 1..Len(q) : q2[i] = q[i]
  BY DEF Extends
<1>3. \A j \in 1..Len(q2) : j \in 1..Len(q) \/ j \in (Len(q) + 1)..Len(q2)
  BY <1>2
<1>4. \A j \in 1..Len(q2) : IsPush(q2[j]) => q2[j].key \in DOMAIN d
  BY <1>2, <1>3 DEF Owned
<1>5. \A j \in 1..Len(w2) :
          w2[j].t \in {"subscribe", "unsubscribe"} => w2[j].keys[1] \in DOMAIN d
  BY <1>1 DEF Owned
<1>q. QED BY <1>4, <1>5 DEF Owned

\* Ordered, when messages arrive that are in order themselves.
LEMMA OrderedExtended ==
  ASSUME NEW v, NEW v2, NEW q, NEW q2,
         Ordered(v, q), Extends(q, q2),
         \A i \in (Len(q) + 1)..Len(q2) :
             q2[i].t \in {"message", "unsubscribe"} => Subscribed(q2, i, q2[i].key),
         \A k \in v2 : Subscribed(q2, Len(q2) + 1, k)
  PROVE  Ordered(v2, q2)
<1>1. /\ Len(q) \in Nat /\ Len(q2) \in Nat
      /\ \A i \in 1..Len(q) : q2[i] = q[i]
  BY DEF Extends
<1>2. ASSUME NEW j \in 1..Len(q2), q2[j].t \in {"message", "unsubscribe"}
      PROVE  Subscribed(q2, j, q2[j].key)
  <2>1. CASE j \in 1..Len(q)
    <3>1. Subscribed(q, j, q2[j].key)
      BY <1>1, <1>2, <2>1 DEF Ordered
    <3>2. j \in 1..(Len(q) + 1)
      BY <1>1, <2>1
    <3>q. QED BY <3>1, <3>2, SubKept
  <2>2. CASE j \in (Len(q) + 1)..Len(q2)
    BY <1>2, <2>2
  <2>q. QED BY <1>1, <2>1, <2>2
<1>q. QED BY <1>2 DEF Ordered

\* Lasting, when messages arrive for which it holds.
LEMMA LastingExtended ==
  ASSUME NEW d, NEW q, NEW q2, Lasting(d, q), Extends(q, q2),
         \A j \in (Len(q) + 1)..Len(q2) : q2[j].t = "unsubscribe" /\ q2[j].n # 0 =>
             \E k \in DOMAIN d : k # q2[j].key /\ Subscribed(q2, j, k)
  PROVE  Lasting(d, q2)
<1>1. /\ Len(q) \in Nat /\ Len(q2) \in Nat
      /\ \A i \in 1..Len(q) : q2[i] = q[i]
  BY DEF Extends
<1>2. ASSUME NEW j \in 1..Len(q2), q2[j].t = "unsubscribe", q2[j].n # 0
      PROVE  \E k \in DOMAIN d : k # q2[j].key /\ Subscribed(q2, j, k)
  <2>1. CASE j \in 1..Len(q)
    <3>1. PICK k \in DOMAIN d : k # q[j].key /\ Subscribed(q, j, k)
      BY <1>1, <1>2, <2>1 DEF Lasting
    <3>2. j \in 1..(Len(q) + 1)
      BY <1>1, <2>1
    <3>3. Subscribed(q2, j, k)
      BY <3>1, <3>2, SubKept
    <3>q. QED BY <1>1, <2>1, <3>1, <3>3
  <2>2. CASE j \in (Len(q) + 1)..Len(q2)
    BY <1>2, <2>2
  <2>q. QED BY <1>1, <2>1, <2>2
<1>q. QED BY <1>2 DEF Lasting

\* Ending, when each channel given up gets its unsubscribe message.
LEMMA EndingExtended ==
  ASSUME NEW d, NEW v, NEW v2, NEW q, NEW q2, Ending(d, v, q), Extends(q, q2),
         \A k \in DOMAIN d \ v2 :
            \/ k \notin v /\ \A i \in (Len(q) + 1)..Len(q2) : ~SubItem(q2[i], k)
            \/ \E i \in (Len(q) + 1)..Len(q2) : /\ UnsubItem(q2[i], k)
                  /\ \A l \in (Len(q) + 1)..Len(q2) : ~SubItem(q2[l], k)
  PROVE  Ending(d, v2, q2)
<1>1. /\ Len(q) \in Nat /\ Len(q2) \in Nat /\ Len(q) <= Len(q2)
      /\ \A i \in 1..Len(q) : q2[i] = q[i]
  BY DEF Extends
<1>2. ASSUME NEW k \in DOMAIN d \ v2, NEW l \in 1..Len(q2), SubItem(q2[l], k)
      PROVE  \E i \in (l + 1)..Len(q2) : UnsubItem(q2[i], k)
  <2>1. l \in 1..Len(q)
    <3>1. l \notin (Len(q) + 1)..Len(q2)
      BY <1>2
    <3>q. QED BY <1>1, <3>1
  <2>2. CASE k \notin v
    <3>1. SubItem(q[l], k) /\ k \in DOMAIN d \ v
      BY <1>1, <1>2, <2>1, <2>2
    <3>2. PICK i \in (l + 1)..Len(q) : UnsubItem(q[i], k)
      BY <2>1, <3>1 DEF Ending
    <3>q. QED BY <1>1, <3>2
  <2>3. CASE \E i \in (Len(q) + 1)..Len(q2) : UnsubItem(q2[i], k)
    BY <1>1, <2>1, <2>3
  <2>q. QED BY <2>2, <2>3
<1>3. ASSUME NEW k \in DOMAIN d \ v2, d[k].pending_subs = 0
      PROVE  \E i \in 1..Len(q2) : UnsubItem(q2[i], k)
  <2>1. CASE k \notin v
    <3>1. PICK i \in 1..Len(q) : UnsubItem(q[i], k)
      BY <1>3, <2>1 DEF Ending
    <3>q. QED BY <1>1, <3>1
  <2>2. CASE \E i \in (Len(q) + 1)..Len(q2) : UnsubItem(q2[i], k)
    BY <1>1, <2>2
  <2>q. QED BY <2>1, <2>2
<1>q. QED BY <1>2, <1>3 DEF Ending

\* Chan survives the execution of a regular command ...
LEMMA ChanExecuted ==
  ASSUME NEW d, NEW v, NEW q, NEW w, NEW w2, NEW wt,
         Chan(d, v, q, w, wt), Len(q) \in Nat, Drops(w, w2), w[1].t = "regular"
  PROVE  Chan(d, v, q, w2, wt)
<1>1. Extends(q, q)
  BY DEF Extends
<1>2. Serves(v, v, w[1]) /\ \A k : ~SubCmd(w[1], k)
  BY DEF Serves, SubCmd, UnsubCmd
<1>3. Sent(d, v, w2, wt)
  BY <1>2, SentServed DEF Chan
<1>4. Owned(d, v, q, w2, wt)
  <2>1. \A i \in (Len(q) + 1)..Len(q) : IsPush(q[i]) => q[i].key \in DOMAIN d
    OBVIOUS
  <2>q. QED BY <1>1, <2>1, OwnedServed DEF Chan, Owned
<1>5. Counted(d, q, w2)
  BY <1>2, CmdsDropped DEF Chan, Counted
<1>q. QED BY <1>3, <1>4, <1>5 DEF Chan

\* ... its reply and published messages ...
LEMMA ChanArrived ==
  ASSUME NEW d, NEW v, NEW q, NEW q2, NEW w, NEW wt, NEW m,
         Chan(d, v, q, w, wt), Appends(q, q2, m),
         \/ m.t \in {"reply", "error"}
         \/ m.t = "message" /\ m.key \in v
  PROVE  Chan(d, v, q2, w, wt)
<1>1. /\ Extends(q, q2) /\ Len(q) \in Nat /\ Len(q2) = Len(q) + 1
      /\ \A i \in (Len(q) + 1)..Len(q2) : q2[i] = m /\ i = Len(q) + 1
      /\ \A i \in 1..Len(q) : q2[i] = q[i]
  BY DEF Appends, Extends
<1>2. \A k : ~SubItem(m, k) /\ ~UnsubItem(m, k)
  BY DEF SubItem, UnsubItem
<1>3. Owned(d, v, q2, w, wt)
  <2>1. v \subseteq DOMAIN d
    BY DEF Chan, Owned
  <2>2. \A j \in 1..Len(q2) : IsPush(q2[j]) => q2[j].key \in DOMAIN d
    BY <1>1, <2>1 DEF Chan, Owned, IsPush
  <2>q. QED BY <2>2 DEF Chan, Owned
<1>4. \A k \in v : Subscribed(q2, Len(q) + 1, k)
  <2> SUFFICES ASSUME NEW k \in v PROVE Subscribed(q2, Len(q) + 1, k)
    OBVIOUS
  <2>1. Subscribed(q, Len(q) + 1, k) /\ Len(q) + 1 \in 1..(Len(q) + 1)
    BY <1>1 DEF Chan, Ordered
  <2>q. QED BY <1>1, <2>1, SubKept
<1>5. Ordered(v, q2)
  <2>1. \A k \in v : Subscribed(q2, Len(q2) + 1, k)
    <3> SUFFICES ASSUME NEW k \in v PROVE Subscribed(q2, Len(q2) + 1, k)
      OBVIOUS
    <3>1. \A i \in (Len(q) + 1)..((Len(q2) + 1) - 1) : ~UnsubItem(q2[i], k)
      BY <1>1, <1>2
    <3>2. Len(q) + 1 \in Nat \ {0} /\ Len(q2) + 1 \in Nat /\ Len(q) + 1 <= Len(q2) + 1
      BY <1>1
    <3>q. QED BY <1>4, <3>1, <3>2, SubUntil
  <2>2. \A i \in (Len(q) + 1)..Len(q2) :
            q2[i].t \in {"message", "unsubscribe"} => Subscribed(q2, i, q2[i].key)
    BY <1>1, <1>4
  <2>3. Ordered(v, q)
    BY DEF Chan
  <2>q. QED BY <1>1, <2>1, <2>2, <2>3, OrderedExtended
<1>6. Ending(d, v, q2)
  <2>1. \A k \in DOMAIN d \ v :
            k \notin v /\ \A i \in (Len(q) + 1)..Len(q2) : ~SubItem(q2[i], k)
    BY <1>1, <1>2
  <2>2. Ending(d, v, q)
    BY DEF Chan
  <2>q. QED BY <1>1, <2>1, <2>2, EndingExtended
<1>7. Lasting(d, q2)
  <2>1. \A j \in (Len(q) + 1)..Len(q2) : q2[j].t # "unsubscribe"
    BY <1>1
  <2>2. Lasting(d, q)
    BY DEF Chan
  <2>q. QED BY <1>1, <2>1, <2>2, LastingExtended
<1>8. Counted(d, q2, w)
  <2>1. \A k : Cardinality(SubItems(q2, k)) = Cardinality(SubItems(q, k))
    BY <1>1, <1>2, ItemsExtended
  <2>q. QED BY <2>1 DEF Chan, Counted
<1>q. QED BY <1>3, <1>5, <1>6, <1>7, <1>8 DEF Chan

\* ... the execution of a subscribe, which moves one unit of pending_subs from
\* the commands to the messages ...
LEMMA ChanJoined ==
  ASSUME NEW d, NEW v, NEW q, NEW q2, NEW w, NEW w2, NEW wt, NEW m, NEW k,
         Chan(d, v, q, w, wt), Drops(w, w2), Appends(q, q2, m),
         SubCmd(w[1], k), SubItem(m, k)
  PROVE  Chan(d, v \cup {k}, q2, w2, wt)
<1> DEFINE v2 == v \cup {k}
<1>1. /\ Extends(q, q2) /\ Len(q) \in Nat /\ Len(q2) = Len(q) + 1
      /\ \A i \in (Len(q) + 1)..Len(q2) : q2[i] = m /\ i = Len(q) + 1
      /\ \A i \in 1..Len(q) : q2[i] = q[i]
      /\ q2[Len(q) + 1] = m
  BY DEF Appends, Extends
<1>2. /\ m.t = "subscribe" /\ m.key = k /\ \A x : ~UnsubItem(m, x)
      /\ \A x : x # k => ~SubItem(m, x) /\ ~SubCmd(w[1], x)
  BY DEF SubItem, UnsubItem, SubCmd
<1>3. k \in DOMAIN d
  <2>1. 1 \in 1..Len(w)
    BY DEF Drops
  <2>q. QED BY <2>1 DEF Chan, Owned, SubCmd
<1>4. Serves(v, v2, w[1])
  BY <1>2 DEF Serves
<1>5. Sent(d, v2, w2, wt)
  BY <1>4, SentServed DEF Chan
<1>6. Owned(d, v2, q2, w2, wt)
  <2>1. \A i \in (Len(q) + 1)..Len(q2) : IsPush(q2[i]) => q2[i].key \in DOMAIN d
    BY <1>1, <1>2, <1>3
  <2>2. v2 \subseteq DOMAIN d
    BY <1>3 DEF Chan, Owned
  <2>3. Owned(d, v, q, w, wt)
    BY DEF Chan
  <2>q. QED BY <1>1, <2>1, <2>2, <2>3, OwnedServed
<1>7. \A x \in v2 : Subscribed(q2, Len(q2) + 1, x)
  <2> SUFFICES ASSUME NEW x \in v2 PROVE Subscribed(q2, Len(q2) + 1, x)
    OBVIOUS
  <2>1. CASE x = k
    <3>1. SubItem(q2[Len(q2)], x) /\ Len(q2) \in Nat \ {0}
      BY <1>1, <2>1
    <3>q. QED BY <3>1, SubLast
  <2>2. CASE x # k
    <3>1. Subscribed(q, Len(q) + 1, x) /\ Len(q) + 1 \in 1..(Len(q) + 1)
      BY <1>1, <2>2 DEF Chan, Ordered
    <3>2. Subscribed(q2, Len(q) + 1, x)
      BY <1>1, <3>1, SubKept
    <3>3. \A i \in (Len(q) + 1)..((Len(q2) + 1) - 1) : ~UnsubItem(q2[i], x)
      BY <1>1, <1>2
    <3>4. Len(q) + 1 \in Nat \ {0} /\ Len(q2) + 1 \in Nat /\ Len(q) + 1 <= Len(q2) + 1
      BY <1>1
    <3>q. QED BY <3>2, <3>3, <3>4, SubUntil
  <2>q. QED BY <2>1, <2>2
<1>8. Ordered(v2, q2)
  <2>1. \A i \in (Len(q) + 1)..Len(q2) : q2[i].t \notin {"message", "unsubscribe"}
    BY <1>1, <1>2
  <2>2. Ordered(v, q)
    BY DEF Chan
  <2> HIDE DEF v2
  <2>q. QED BY <1>1, <1>7, <2>1, <2>2, OrderedExtended
<1>9. Ending(d, v2, q2)
  <2>1. \A x \in DOMAIN d \ v2 :
            x \notin v /\ \A i \in (Len(q) + 1)..Len(q2) : ~SubItem(q2[i], x)
    BY <1>1, <1>2
  <2>2. Ending(d, v, q)
    BY DEF Chan
  <2> HIDE DEF v2
  <2>q. QED BY <1>1, <2>1, <2>2, EndingExtended
<1>10. Lasting(d, q2)
  <2>1. \A j \in (Len(q) + 1)..Len(q2) : q2[j].t # "unsubscribe"
    BY <1>1, <1>2
  <2>2. Lasting(d, q)
    BY DEF Chan
  <2>q. QED BY <1>1, <2>1, <2>2, LastingExtended
<1>11. Counted(d, q2, w2)
  <2> SUFFICES ASSUME NEW x \in DOMAIN d
               PROVE  d[x].pending_subs
                        = Cardinality(SubItems(q2, x)) + Cardinality(SubCmds(w2, x))
    BY DEF Counted
  <2>1. d[x].pending_subs = Cardinality(SubItems(q, x)) + Cardinality(SubCmds(w, x))
    BY DEF Chan, Counted
  <2>2. CASE x = k
    <3>1. /\ Cardinality(SubItems(q, k)) \in Nat
          /\ Cardinality(SubItems(q2, k)) = Cardinality(SubItems(q, k)) + 1
      BY ItemAppended
    <3>2. /\ Cardinality(SubCmds(w, k)) \in Nat
          /\ Cardinality(SubCmds(w2, k)) = Cardinality(SubCmds(w, k)) - 1
      BY CmdsDropped
    <3>q. QED BY <2>1, <2>2, <3>1, <3>2
  <2>3. CASE x # k
    <3>1. \A i \in (Len(q) + 1)..Len(q2) : ~SubItem(q2[i], x)
      BY <1>1, <1>2, <2>3
    <3>2. Cardinality(SubItems(q2, x)) = Cardinality(SubItems(q, x))
      BY <1>1, <3>1, ItemsExtended
    <3>3. Cardinality(SubCmds(w2, x)) = Cardinality(SubCmds(w, x))
      BY <1>2, <2>3, CmdsDropped
    <3>q. QED BY <2>1, <3>2, <3>3
  <2>q. QED BY <2>2, <2>3
<1>12. Unmarked(d, wt)
  BY DEF Chan
<1>q. QED BY <1>5, <1>6, <1>8, <1>9, <1>10, <1>11, <1>12 DEF Chan

\* The messages of q2 after those of q say that the channels of v outside v2
\* are left, one after the other.
Leaving(v, v2, q, q2) ==
    /\ Extends(q, q2)
    /\ v2 \subseteq v
    /\ \A i \in (Len(q) + 1)..Len(q2) : /\ q2[i].t = "unsubscribe"
                                        /\ q2[i].key \in v
                                        /\ q2[i].key \notin v2
    /\ \A i, l \in (Len(q) + 1)..Len(q2) : i < l => q2[i].key # q2[l].key
    /\ \A k \in v \ v2 : \E i \in (Len(q) + 1)..Len(q2) : q2[i].key = k
    /\ \A i \in (Len(q) + 1)..Len(q2) : q2[i].n # 0 =>
          \E k \in v : \A l \in (Len(q) + 1)..i : q2[l].key # k

\* ... and that of an unsubscribe, from one channel or from all of a kind.
LEMMA ChanLeft ==
  ASSUME NEW d, NEW v, NEW v2, NEW q, NEW q2, NEW w, NEW w2, NEW wt,
         Chan(d, v, q, w, wt), Drops(w, w2), Leaving(v, v2, q, q2),
         w[1].t \in {"unsubscribe", "unsubscribe_all"},
         \A k \in v : ~UnsubCmd(w[1], k) => k \in v2
  PROVE  Chan(d, v2, q2, w2, wt)
<1>1. /\ Extends(q, q2) /\ Len(q) \in Nat /\ Len(q2) \in Nat /\ Len(q) <= Len(q2)
      /\ \A i \in 1..Len(q) : q2[i] = q[i]
  BY DEF Leaving, Extends
<1>2. \A x : ~SubCmd(w[1], x)
  BY DEF SubCmd
<1>3. \A x : \A i \in (Len(q) + 1)..Len(q2) : ~SubItem(q2[i], x)
  BY DEF Leaving, SubItem
<1>12. \A x : \A i \in (Len(q) + 1)..Len(q2) : UnsubItem(q2[i], x) <=> q2[i].key = x
  BY DEF Leaving, UnsubItem
<1>4. Sent(d, v2, w2, wt)
  <2>1. Serves(v, v2, w[1])
    BY <1>2 DEF Serves
  <2>q. QED BY <2>1, SentServed DEF Chan
<1>5. Owned(d, v2, q2, w2, wt)
  <2>1. v \subseteq DOMAIN d /\ Owned(d, v, q, w, wt)
    BY DEF Chan, Owned
  <2>2. \A i \in (Len(q) + 1)..Len(q2) : IsPush(q2[i]) => q2[i].key \in DOMAIN d
    BY <2>1 DEF Leaving
  <2>3. v2 \subseteq DOMAIN d
    BY <2>1 DEF Leaving
  <2>q. QED BY <1>1, <2>1, <2>2, <2>3, OwnedServed
\* A channel of v is subscribed until its own message.
<1>6. ASSUME NEW k \in v, NEW j \in (Len(q) + 1)..(Len(q2) + 1),
             \A i \in (Len(q) + 1)..(j - 1) : q2[i].key # k
      PROVE  Subscribed(q2, j, k)
  <2>1. Subscribed(q, Len(q) + 1, k) /\ Len(q) + 1 \in 1..(Len(q) + 1)
    BY <1>1 DEF Chan, Ordered
  <2>2. Subscribed(q2, Len(q) + 1, k)
    BY <1>1, <2>1, SubKept
  <2>3. \A i \in (Len(q) + 1)..(j - 1) : ~UnsubItem(q2[i], k)
    <3>1. \A i \in (Len(q) + 1)..(j - 1) : i \in (Len(q) + 1)..Len(q2)
      BY <1>1
    <3>q. QED BY <1>12, <1>6, <3>1
  <2>4. Len(q) + 1 \in Nat \ {0} /\ j \in Nat /\ Len(q) + 1 <= j
    BY <1>1
  <2>q. QED BY <2>2, <2>3, <2>4, SubUntil
<1>7. Ordered(v2, q2)
  <2>1. ASSUME NEW i \in (Len(q) + 1)..Len(q2)
        PROVE  Subscribed(q2, i, q2[i].key)
    <3>1. q2[i].key \in v /\ i \in (Len(q) + 1)..(Len(q2) + 1)
      BY <1>1 DEF Leaving
    <3>2. \A l \in (Len(q) + 1)..(i - 1) : l \in (Len(q) + 1)..Len(q2) /\ l < i
      BY <1>1
    <3>3. \A l \in (Len(q) + 1)..(i - 1) : q2[l].key # q2[i].key
      BY <3>2 DEF Leaving
    <3>q. QED BY <1>6, <3>1, <3>3
  <2>2. ASSUME NEW k \in v2
        PROVE  Subscribed(q2, Len(q2) + 1, k)
    <3>1. k \in v /\ Len(q2) + 1 \in (Len(q) + 1)..(Len(q2) + 1)
      BY <1>1 DEF Leaving
    <3>2. \A l \in (Len(q) + 1)..((Len(q2) + 1) - 1) : q2[l].key # k
      BY <1>1 DEF Leaving
    <3>q. QED BY <1>6, <3>1, <3>2
  <2>3. Ordered(v, q)
    BY DEF Chan
  <2>q. QED BY <1>1, <2>1, <2>2, <2>3, OrderedExtended
<1>8. Ending(d, v2, q2)
  <2>1. ASSUME NEW k \in DOMAIN d \ v2
        PROVE \/ k \notin v /\ \A i \in (Len(q) + 1)..Len(q2) : ~SubItem(q2[i], k)
              \/ \E i \in (Len(q) + 1)..Len(q2) : /\ UnsubItem(q2[i], k)
                    /\ \A l \in (Len(q) + 1)..Len(q2) : ~SubItem(q2[l], k)
    <3>1. CASE k \notin v
      BY <1>3, <3>1
    <3>2. CASE k \in v
      <4>1. PICK i \in (Len(q) + 1)..Len(q2) : q2[i].key = k
        BY <3>2 DEF Leaving
      <4>q. QED BY <1>3, <1>12, <4>1
    <3>q. QED BY <3>1, <3>2
  <2>2. Ending(d, v, q)
    BY DEF Chan
  <2>q. QED BY <1>1, <2>1, <2>2, EndingExtended
<1>9. Lasting(d, q2)
  <2>1. ASSUME NEW j \in (Len(q) + 1)..Len(q2), q2[j].n # 0
        PROVE  \E k \in DOMAIN d : k # q2[j].key /\ Subscribed(q2, j, k)
    <3>1. PICK k \in v : \A l \in (Len(q) + 1)..j : q2[l].key # k
      BY <2>1 DEF Leaving
    <3>2. /\ \A l \in (Len(q) + 1)..(j - 1) : l \in (Len(q) + 1)..j
          /\ j \in (Len(q) + 1)..j
          /\ j \in (Len(q) + 1)..(Len(q2) + 1)
      BY <1>1
    <3>3. Subscribed(q2, j, k)
      BY <1>6, <3>1, <3>2
    <3>4. k \in DOMAIN d
      BY DEF Chan, Owned
    <3>q. QED BY <3>1, <3>2, <3>3, <3>4
  <2>2. Lasting(d, q)
    BY DEF Chan
  <2>q. QED BY <1>1, <2>1, <2>2, LastingExtended
<1>10. Counted(d, q2, w2)
  <2>1. \A k : Cardinality(SubItems(q2, k)) = Cardinality(SubItems(q, k))
    BY <1>1, <1>3, ItemsExtended
  <2>2. \A k : Cardinality(SubCmds(w2, k)) = Cardinality(SubCmds(w, k))
    BY <1>2, CmdsDropped
  <2>q. QED BY <2>1, <2>2 DEF Chan, Counted
<1>11. Unmarked(d, wt)
  BY DEF Chan
<1>q. QED BY <1>4, <1>5, <1>7, <1>8, <1>9, <1>10, <1>11 DEF Chan

-----------------------------------------------------------------------------
(* What the client makes of a message. *)

\* Ordered, when the first message is processed.
LEMMA OrderedDropped ==
  ASSUME NEW v, NEW q, NEW q2, Ordered(v, q), Drops(q, q2)
  PROVE  Ordered(v, q2)
<1>1. /\ Len(q) \in Nat /\ Len(q2) \in Nat /\ Len(q) = Len(q2) + 1
      /\ \A i \in 1..Len(q2) : q2[i] = q[i + 1] /\ i + 1 \in 1..Len(q) /\ i \in 1..Len(q)
  BY DEF Drops
<1>2. ASSUME NEW j \in 1..Len(q2), q2[j].t \in {"message", "unsubscribe"}
      PROVE  Subscribed(q2, j, q2[j].key)
  <2>1. Subscribed(q, j + 1, q2[j].key) /\ j \in 1..Len(q)
    BY <1>1, <1>2 DEF Ordered
  <2>q. QED BY <2>1, SubDropped
<1>3. ASSUME NEW k \in v
      PROVE  Subscribed(q2, Len(q2) + 1, k)
  <2>1. Subscribed(q, (Len(q2) + 1) + 1, k) /\ Len(q2) + 1 \in 1..Len(q)
    BY <1>1 DEF Ordered
  <2>q. QED BY <2>1, SubDropped
<1>q. QED BY <1>2, <1>3 DEF Ordered

\* Lasting, when the entries it speaks of stay.
LEMMA LastingDropped ==
  ASSUME NEW d, NEW d2, NEW q, NEW q2, Lasting(d, q), Drops(q, q2),
         \A j \in 2..Len(q), k \in DOMAIN d :
             q[j].t = "unsubscribe" /\ k # q[j].key /\ Subscribed(q, j, k) => k \in DOMAIN d2
  PROVE  Lasting(d2, q2)
<1>1. /\ Len(q) \in Nat /\ Len(q2) \in Nat /\ Len(q) = Len(q2) + 1
      /\ \A i \in 1..Len(q2) : /\ q2[i] = q[i + 1] /\ i + 1 \in 1..Len(q)
                               /\ i \in 1..Len(q) /\ i + 1 \in 2..Len(q)
  BY DEF Drops
<1>2. ASSUME NEW j \in 1..Len(q2), q2[j].t = "unsubscribe", q2[j].n # 0
      PROVE  \E k \in DOMAIN d2 : k # q2[j].key /\ Subscribed(q2, j, k)
  <2>1. PICK k \in DOMAIN d : k # q[j + 1].key /\ Subscribed(q, j + 1, k)
    BY <1>1, <1>2 DEF Lasting
  <2>2. k \in DOMAIN d2
    BY <1>1, <1>2, <2>1
  <2>3. Subscribed(q2, j, k)
    BY <1>1, <2>1, SubDropped
  <2>q. QED BY <1>1, <2>1, <2>2, <2>3
<1>q. QED BY <1>2 DEF Lasting

\* Ending, when no entry with nothing pending stays that the message
\* unsubscribes.
LEMMA EndingDropped ==
  ASSUME NEW d, NEW d2, NEW v, NEW q, NEW q2, Ending(d, v, q), Drops(q, q2),
         DOMAIN d2 \subseteq DOMAIN d,
         \A k \in DOMAIN d2 : \/ d2[k].pending_subs = d[k].pending_subs
                              \/ SubItem(q[1], k),
         \A k \in DOMAIN d2 : d2[k].pending_subs = 0 => ~UnsubItem(q[1], k)
  PROVE  Ending(d2, v, q2)
<1>1. /\ Len(q) \in Nat /\ Len(q2) \in Nat /\ Len(q) = Len(q2) + 1
      /\ \A i \in 1..Len(q2) : q2[i] = q[i + 1] /\ i + 1 \in 1..Len(q)
      /\ \A i \in 2..Len(q) : i - 1 \in 1..Len(q2) /\ q2[i - 1] = q[i]
  <2>1. Len(q) \in Nat /\ Len(q2) \in Nat /\ Len(q) = Len(q2) + 1
        /\ \A i \in 1..Len(q2) : q2[i] = q[i + 1]
    BY DEF Drops
  <2>2. \A i \in 2..Len(q) : i - 1 \in 1..Len(q2) /\ (i - 1) + 1 = i
    BY <2>1
  <2>3. \A i \in 2..Len(q) : q2[i - 1] = q[(i - 1) + 1]
    BY <2>1, <2>2
  <2>4. \A i \in 2..Len(q) : q2[i - 1] = q[i]
    BY <2>2, <2>3
  <2>q. QED BY <2>1, <2>2, <2>4
<1>2. ASSUME NEW k \in DOMAIN d2 \ v, NEW l \in 1..Len(q), SubItem(q[l], k)
      PROVE  \E i \in l..Len(q2) : UnsubItem(q2[i], k)
  <2>1. PICK i \in (l + 1)..Len(q) : UnsubItem(q[i], k)
    BY <1>2 DEF Ending
  <2>2. i - 1 \in l..Len(q2) /\ i \in 2..Len(q)
    BY <1>1, <2>1
  <2>q. QED BY <1>1, <2>1, <2>2
<1>3. ASSUME NEW k \in DOMAIN d2 \ v, NEW l \in 1..Len(q2), SubItem(q2[l], k)
      PROVE  \E i \in (l + 1)..Len(q2) : UnsubItem(q2[i], k)
  <2>1. SubItem(q[l + 1], k) /\ l + 1 \in 1..Len(q)
    BY <1>1, <1>3
  <2>q. QED BY <1>2, <2>1
<1>4. ASSUME NEW k \in DOMAIN d2 \ v, d2[k].pending_subs = 0
      PROVE  \E i \in 1..Len(q2) : UnsubItem(q2[i], k)
  <2>1. CASE SubItem(q[1], k)
    <3>1. 1 \in 1..Len(q)
      BY <1>1
    <3>q. QED BY <1>2, <2>1, <3>1
  <2>2. CASE d2[k].pending_subs = d[k].pending_subs
    <3>1. PICK i \in 1..Len(q) : UnsubItem(q[i], k)
      BY <1>4, <2>2 DEF Ending
    <3>2. i # 1
      BY <1>4, <3>1
    <3>3. i \in 2..Len(q) /\ i - 1 \in 1..Len(q2)
      BY <1>1, <3>1, <3>2
    <3>q. QED BY <1>1, <3>1, <3>3
  <2>q. QED BY <2>1, <2>2
<1>q. QED BY <1>3, <1>4 DEF Ending

\* Chan survives a reply or message that leaves the entries alone: an unsubscribe
\* message does when a subscribe is pending behind it.
LEMMA ChanPassed ==
  ASSUME NEW d, NEW v, NEW q, NEW q2, NEW w, NEW wt,
         Chan(d, v, q, w, wt), Drops(q, q2), q[1].t # "subscribe",
         \A k \in DOMAIN d : d[k].pending_subs = 0 => ~UnsubItem(q[1], k)
  PROVE  Chan(d, v, q2, w, wt)
<1>1. \A k : ~SubItem(q[1], k)
  BY DEF SubItem
<1>2. Owned(d, v, q2, w, wt)
  BY DEF Chan, Owned, Drops
<1>3. Ordered(v, q2)
  BY OrderedDropped DEF Chan
<1>4. Lasting(d, q2)
  BY LastingDropped DEF Chan
<1>5. Ending(d, v, q2)
  BY EndingDropped DEF Chan
<1>6. Counted(d, q2, w)
  BY <1>1, ItemsDropped DEF Chan, Counted
<1>q. QED BY <1>2, <1>3, <1>4, <1>5, <1>6 DEF Chan

\* Chan survives a subscribe message, which is no longer pending.
LEMMA ChanConfirmed ==
  ASSUME NEW d, NEW d2, NEW v, NEW q, NEW q2, NEW w, NEW wt, NEW k,
         Chan(d, v, q, w, wt), Drops(q, q2), Len(w) \in Nat, SubItem(q[1], k),
         DOMAIN d2 = DOMAIN d,
         \A x \in DOMAIN d : x # k => d2[x] = d[x],
         d2[k].unsubscribe_sent = d[k].unsubscribe_sent,
         d2[k].pending_subs = d[k].pending_subs - 1
  PROVE  Chan(d2, v, q2, w, wt)
<1>1. \A x : ~UnsubItem(q[1], x) /\ (x # k => ~SubItem(q[1], x))
  BY DEF SubItem, UnsubItem
<1>2. Owned(d2, v, q2, w, wt)
  <2>1. Owned(d, v, q2, w, wt)
    BY DEF Chan, Owned, Drops
  <2>q. QED BY <2>1 DEF Owned
<1>3. Ordered(v, q2)
  BY OrderedDropped DEF Chan
<1>4. Lasting(d2, q2)
  BY LastingDropped DEF Chan
<1>5. Ending(d2, v, q2)
  <2>1. \A x \in DOMAIN d2 : \/ d2[x].pending_subs = d[x].pending_subs
                             \/ SubItem(q[1], x)
    OBVIOUS
  <2>q. QED BY <1>1, <2>1, EndingDropped DEF Chan
<1>6. Sent(d2, v, w, wt)
  BY DEF Chan, Sent
<1>7. Unmarked(d2, wt)
  BY DEF Chan, Owned, Unmarked
<1>8. Counted(d2, q2, w)
  <2> SUFFICES ASSUME NEW x \in DOMAIN d2
               PROVE  d2[x].pending_subs
                        = Cardinality(SubItems(q2, x)) + Cardinality(SubCmds(w, x))
    BY DEF Counted
  <2>1. d[x].pending_subs = Cardinality(SubItems(q, x)) + Cardinality(SubCmds(w, x))
    BY DEF Chan, Counted
  <2>2. CASE x = k
    <3>1. /\ Cardinality(SubItems(q, k)) \in Nat
          /\ Cardinality(SubItems(q2, k)) = Cardinality(SubItems(q, k)) - 1
      BY ItemsDropped
    <3>2. Cardinality(SubCmds(w, k)) \in Nat
      BY CountsAreNaturals
    <3>q. QED BY <2>1, <2>2, <3>1, <3>2
  <2>3. CASE x # k
    <3>1. Cardinality(SubItems(q2, x)) = Cardinality(SubItems(q, x))
      BY <1>1, <2>3, ItemsDropped
    <3>q. QED BY <2>1, <2>3, <3>1
  <2>q. QED BY <2>2, <2>3
<1>q. QED BY <1>2, <1>3, <1>4, <1>5, <1>6, <1>7, <1>8 DEF Chan

\* Chan survives the unsubscribe message that removes an entry.
LEMMA ChanRemoved ==
  ASSUME NEW d, NEW d2, NEW v, NEW q, NEW q2, NEW w, NEW wt, NEW k,
         Chan(d, v, q, w, wt), Drops(q, q2), Len(w) \in Nat, UnsubItem(q[1], k),
         k \in DOMAIN d, d[k].pending_subs = 0,
         DOMAIN d2 = DOMAIN d \ {k},
         \A x \in DOMAIN d2 : d2[x] = d[x]
  PROVE  Chan(d2, v, q2, w, wt)
<1>1. /\ Len(q) \in Nat /\ Len(q2) \in Nat /\ Len(q) = Len(q2) + 1
      /\ \A i \in 1..Len(q2) : q2[i] = q[i + 1] /\ i + 1 \in 2..Len(q)
      /\ 1 \in 1..Len(q)
  BY DEF Drops
<1>2. \A x : ~SubItem(q[1], x) /\ (x # k => ~UnsubItem(q[1], x))
  BY DEF SubItem, UnsubItem
\* No subscribe for k is under way ...
<1>3. /\ \A l \in 1..Len(q) : ~SubItem(q[l], k)
      /\ \A l \in 1..Len(w) : ~SubCmd(w[l], k)
  <2>1. Cardinality(SubItems(q, k)) + Cardinality(SubCmds(w, k)) = 0
    BY DEF Chan, Counted
  <2>2. Cardinality(SubItems(q, k)) \in Nat /\ Cardinality(SubCmds(w, k)) \in Nat
    BY <1>1, CountsAreNaturals
  <2>3. Cardinality(SubItems(q, k)) = 0 /\ Cardinality(SubCmds(w, k)) = 0
    BY <2>1, <2>2
  <2>q. QED BY <1>1, <2>3, CountsAreNaturals
\* ... so that k is not subscribed any more, here or at the server.
<1>4. \A j \in 2..(Len(q) + 1) : ~Subscribed(q, j, k)
  <2> SUFFICES ASSUME NEW j \in 2..(Len(q) + 1), Subscribed(q, j, k)
               PROVE  FALSE
    OBVIOUS
  <2>1. 1 \in 1..(j - 1)
    OBVIOUS
  <2>2. PICK l \in (1 + 1)..(j - 1) : SubItem(q[l], k)
    BY <2>1 DEF Subscribed
  <2>3. l \in 1..Len(q)
    BY <1>1, <2>2
  <2>q. QED BY <1>3, <2>2, <2>3
<1>5. k \notin v
  <2>1. Len(q) + 1 \in 2..(Len(q) + 1)
    BY <1>1
  <2>q. QED BY <1>4, <2>1 DEF Chan, Ordered
<1>6. \A j \in 1..(Len(w) + 1) : ~On(w, v, j, k)
  <2> SUFFICES ASSUME NEW j \in 1..(Len(w) + 1), On(w, v, j, k)
               PROVE  FALSE
    OBVIOUS
  <2>1. PICK l \in 1..(j - 1) : SubCmd(w[l], k)
    BY <1>5 DEF On
  <2>2. l \in 1..Len(w)
    BY <2>1
  <2>q. QED BY <1>3, <2>1, <2>2
<1>7. Owned(d2, v, q2, w, wt)
  <2>1. v \subseteq DOMAIN d2
    BY <1>5 DEF Chan, Owned
  <2>2. k \notin wt
    <3>1. Len(w) + 1 \in 1..(Len(w) + 1)
      OBVIOUS
    <3>q. QED BY <1>6, <3>1 DEF Chan, Sent
  <2>3. wt \subseteq DOMAIN d2
    BY <2>2 DEF Chan, Owned
  <2>4. ASSUME NEW j \in 1..Len(q2), IsPush(q2[j])
        PROVE  q2[j].key \in DOMAIN d2
    <3>1. j + 1 \in 2..Len(q) /\ j + 1 \in 2..(Len(q) + 1) /\ j + 1 \in 1..Len(q)
          /\ q2[j] = q[j + 1]
      BY <1>1
    <3>2. q2[j].key \in DOMAIN d
      BY <2>4, <3>1 DEF Chan, Owned
    <3>3. q2[j].key # k
      <4>1. CASE q2[j].t = "subscribe"
        BY <1>3, <3>1, <4>1 DEF SubItem
      <4>2. CASE q2[j].t \in {"message", "unsubscribe"}
        BY <1>4, <3>1, <4>2 DEF Chan, Ordered
      <4>q. QED BY <2>4, <4>1, <4>2 DEF IsPush
    <3>q. QED BY <3>2, <3>3
  <2>5. ASSUME NEW j \in 1..Len(w), w[j].t \in {"subscribe", "unsubscribe"}
        PROVE  w[j].keys[1] \in DOMAIN d2
    <3>1. w[j].keys[1] \in DOMAIN d
      BY <2>5 DEF Chan, Owned
    <3>2. w[j].keys[1] # k
      <4>1. CASE w[j].t = "subscribe"
        BY <1>3, <4>1 DEF SubCmd
      <4>2. CASE w[j].t = "unsubscribe"
        <5>1. j \in 1..(Len(w) + 1)
          OBVIOUS
        <5>q. QED BY <1>6, <4>2, <5>1 DEF Chan, Sent
      <4>q. QED BY <2>5, <4>1, <4>2
    <3>q. QED BY <3>1, <3>2
  <2>q. QED BY <2>1, <2>3, <2>4, <2>5 DEF Owned
<1>8. Ordered(v, q2)
  BY OrderedDropped DEF Chan
<1>9. Lasting(d2, q2)
  <2>1. \A j \in 2..Len(q), x \in DOMAIN d :
            q[j].t = "unsubscribe" /\ x # q[j].key /\ Subscribed(q, j, x) => x \in DOMAIN d2
    <3> SUFFICES ASSUME NEW j \in 2..Len(q), NEW x \in DOMAIN d, Subscribed(q, j, x)
                 PROVE  x \in DOMAIN d2
      OBVIOUS
    <3>1. j \in 2..(Len(q) + 1)
      BY <1>1
    <3>2. x # k
      BY <1>4, <3>1
    <3>q. QED BY <3>2
  <2>2. Lasting(d, q)
    BY DEF Chan
  <2>q. QED BY <2>1, <2>2, LastingDropped
<1>10. Ending(d2, v, q2)
  BY <1>2, EndingDropped DEF Chan
<1>11. Sent(d2, v, w, wt)
  <2>1. ASSUME NEW j \in 1..Len(w), w[j].t = "unsubscribe_all"
        PROVE  \E x \in DOMAIN d2 : Kind[x] = w[j].kind /\ On(w, v, j, x)
    <3>1. PICK x \in DOMAIN d : Kind[x] = w[j].kind /\ On(w, v, j, x)
      BY <2>1 DEF Chan, Sent
    <3>2. j \in 1..(Len(w) + 1)
      OBVIOUS
    <3>3. x # k
      BY <1>6, <3>1, <3>2
    <3>q. QED BY <3>1, <3>3
  <2>q. QED BY <2>1 DEF Chan, Sent
<1>12. Unmarked(d2, wt)
  BY <1>7 DEF Chan, Owned, Unmarked
<1>13. Counted(d2, q2, w)
  BY <1>2, ItemsDropped DEF Chan, Counted
<1>q. QED BY <1>7, <1>8, <1>9, <1>10, <1>11, <1>12, <1>13 DEF Chan

-----------------------------------------------------------------------------
(* Regular commands and their replies. *)

\* An answer to a regular command; what is in the socket, on the wire and in a
\* list.
Answer(m) == m.t \in {"reply", "error"}
InSock(q, a) == \E p \in 1..Len(q) : Answer(q[p]) /\ q[p].id = a
InWire(w, a) == \E p \in 1..Len(w) : w[p].t = "regular" /\ w[p].id = a
InQueue(r, a) == \E p \in 1..Len(r) : r[p].id = a

\* Callbacks wait in the order of their commands ...
Queued(r, u, n) ==
    /\ \A p \in 1..Len(r) : r[p].id \in 1..n
    /\ \A p \in 1..Len(u) : u[p].id \in 1..n
    /\ \A p, p2 \in 1..Len(r) : p < p2 => r[p].id < r[p2].id
    /\ \A p, p2 \in 1..Len(u) : p < p2 => u[p].id < u[p2].id
    /\ \A p \in 1..Len(r), p2 \in 1..Len(u) : r[p].id < u[p2].id

\* ... and so do the replies and the commands.
UnderWay(q, w, n) ==
    /\ \A p \in 1..Len(w) : w[p].id \in 1..n
    /\ \A p \in 1..Len(q) : Answer(q[p]) => q[p].id \in 1..n
    /\ \A p, p2 \in 1..Len(q) : p < p2 /\ Answer(q[p]) /\ Answer(q[p2]) => q[p].id < q[p2].id
    /\ \A p, p2 \in 1..Len(w) : p < p2 => w[p].id < w[p2].id
    /\ \A p \in 1..Len(q), p2 \in 1..Len(w) : Answer(q[p]) => q[p].id < w[p2].id

\* A callback waits exactly for a command or a reply under way.
Matched(q, w, r, u) ==
    \A a : (InQueue(r, a) \/ InQueue(u, a)) <=> (InSock(q, a) \/ InWire(w, a))

\* All of it, after n commands, for the lists r of ac->replies and u of
\* ac->sub.replies.
Regs(q, w, r, u, n) ==
    /\ n \in Nat
    /\ Queued(r, u, n)
    /\ UnderWay(q, w, n)
    /\ Matched(q, w, r, u)

\* While callbacks wait in ac->replies, only their replies are before a push.
Mixed(v, q, w, r) ==
    /\ \A p \in 1..Len(q) : IsPush(q[p]) =>
          \A a \in 1..Len(r) : \E p2 \in 1..(p - 1) : Answer(q[p2]) /\ q[p2].id = r[a].id
    /\ \A p \in 1..Len(w) : w[p].t # "regular" => \A a \in 1..Len(r) : r[a].id < w[p].id
    /\ v # {} => \A a \in 1..Len(r) : InSock(q, r[a].id)

\* Nothing about subscriptions is under way.
Calm(v, q, w) ==
    /\ v = {}
    /\ \A p \in 1..Len(q) : ~IsPush(q[p])
    /\ \A p \in 1..Len(w) : w[p].t = "regular"

\* The commands sent when no channel is sharded.
CmdKinds == {"regular", "subscribe", "unsubscribe", "unsubscribe_all"}

\* Without entries nothing about subscriptions is under way.
LEMMA CalmWhenEmpty ==
  ASSUME NEW d, NEW v, NEW q, NEW w, NEW wt, Chan(d, v, q, w, wt), DOMAIN d = {},
         \A p \in 1..Len(w) : w[p].t \in CmdKinds
  PROVE  Calm(v, q, w)
  BY DEF Chan, Owned, Sent, Calm, CmdKinds

\* What has arrived stays there when more arrives.
LEMMA InSockExtended ==
  ASSUME NEW q, NEW q2, Extends(q, q2), NEW a, InSock(q, a)
  PROVE  InSock(q2, a)
  BY DEF Extends, InSock

\* Pushes add no answers.
LEMMA InSockSame ==
  ASSUME NEW q, NEW q2, Extends(q, q2), NEW a,
         \A i \in (Len(q) + 1)..Len(q2) : ~Answer(q2[i])
  PROVE  InSock(q2, a) <=> InSock(q, a)
<1>1. ASSUME InSock(q2, a) PROVE InSock(q, a)
  <2>1. PICK p \in 1..Len(q2) : Answer(q2[p]) /\ q2[p].id = a
    BY <1>1 DEF InSock
  <2>2. p \in 1..Len(q) /\ q2[p] = q[p]
    BY <2>1 DEF Extends
  <2>q. QED BY <2>1, <2>2 DEF InSock
<1>q. QED BY <1>1, InSockExtended

\* An answer adds one.
LEMMA InSockAppended ==
  ASSUME NEW q, NEW q2, NEW m, Appends(q, q2, m), Answer(m), NEW a
  PROVE  InSock(q2, a) <=> InSock(q, a) \/ m.id = a
<1>1. ASSUME InSock(q2, a), m.id # a PROVE InSock(q, a)
  <2>1. PICK p \in 1..Len(q2) : Answer(q2[p]) /\ q2[p].id = a
    BY <1>1 DEF InSock
  <2>2. p \in 1..Len(q) /\ q2[p] = q[p]
    BY <1>1, <2>1 DEF Appends, Extends
  <2>q. QED BY <2>1, <2>2 DEF InSock
<1>2. ASSUME m.id = a PROVE InSock(q2, a)
  <2>1. Len(q) + 1 \in 1..Len(q2) /\ q2[Len(q) + 1] = m
    BY DEF Appends, Extends
  <2>q. QED BY <1>2, <2>1 DEF InSock
<1>3. InSock(q, a) => InSock(q2, a)
  BY InSockExtended DEF Appends
<1>q. QED BY <1>1, <1>2, <1>3

\* A regular command issued is on its way, others do not count.
LEMMA InWireAppended ==
  ASSUME NEW w, NEW w2, NEW e, Appends(w, w2, e), NEW a
  PROVE  InWire(w2, a) <=> InWire(w, a) \/ (e.t = "regular" /\ e.id = a)
<1>0. /\ Len(w) \in Nat /\ Len(w2) = Len(w) + 1 /\ w2[Len(w) + 1] = e
      /\ \A i \in 1..Len(w) : w2[i] = w[i]
  BY DEF Appends, Extends
<1>1. ASSUME InWire(w2, a), ~(e.t = "regular" /\ e.id = a) PROVE InWire(w, a)
  <2>1. PICK p \in 1..Len(w2) : w2[p].t = "regular" /\ w2[p].id = a
    BY <1>1 DEF InWire
  <2>2. p \in 1..Len(w) /\ w2[p] = w[p]
    BY <1>0, <1>1, <2>1
  <2>q. QED BY <2>1, <2>2 DEF InWire
<1>2. ASSUME e.t = "regular", e.id = a PROVE InWire(w2, a)
  <2>1. Len(w) + 1 \in 1..Len(w2)
    BY <1>0
  <2>q. QED BY <1>0, <1>2, <2>1 DEF InWire
<1>3. ASSUME InWire(w, a) PROVE InWire(w2, a)
  <2>1. PICK p \in 1..Len(w) : w[p].t = "regular" /\ w[p].id = a
    BY <1>3 DEF InWire
  <2>2. p \in 1..Len(w2) /\ w2[p] = w[p]
    BY <1>0, <2>1
  <2>q. QED BY <2>1, <2>2 DEF InWire
<1>q. QED BY <1>1, <1>2, <1>3

\* A callback appended to a list waits there.
LEMMA InQueueAppended ==
  ASSUME NEW r, NEW r2, NEW e, Appends(r, r2, e), NEW a
  PROVE  InQueue(r2, a) <=> InQueue(r, a) \/ e.id = a
<1>0. /\ Len(r) \in Nat /\ Len(r2) = Len(r) + 1 /\ r2[Len(r) + 1] = e
      /\ \A i \in 1..Len(r) : r2[i] = r[i]
  BY DEF Appends, Extends
<1>1. ASSUME InQueue(r2, a), e.id # a PROVE InQueue(r, a)
  <2>1. PICK p \in 1..Len(r2) : r2[p].id = a
    BY <1>1 DEF InQueue
  <2>2. p \in 1..Len(r) /\ r2[p] = r[p]
    BY <1>0, <1>1, <2>1
  <2>q. QED BY <2>1, <2>2 DEF InQueue
<1>2. ASSUME e.id = a PROVE InQueue(r2, a)
  <2>1. Len(r) + 1 \in 1..Len(r2)
    BY <1>0
  <2>q. QED BY <1>0, <1>2, <2>1 DEF InQueue
<1>3. ASSUME InQueue(r, a) PROVE InQueue(r2, a)
  <2>1. PICK p \in 1..Len(r) : r[p].id = a
    BY <1>3 DEF InQueue
  <2>2. p \in 1..Len(r2) /\ r2[p] = r[p]
    BY <1>0, <2>1
  <2>q. QED BY <2>1, <2>2 DEF InQueue
<1>q. QED BY <1>1, <1>2, <1>3

\* Processing an answer takes away that one only.
LEMMA InSockDropped ==
  ASSUME NEW q, NEW q2, Drops(q, q2), NEW a
  PROVE  InSock(q, a) <=> InSock(q2, a) \/ (Answer(q[1]) /\ q[1].id = a)
<1>0. /\ Len(q) \in Nat /\ Len(q2) \in Nat /\ Len(q) = Len(q2) + 1
      /\ \A i \in 1..Len(q2) : q2[i] = q[i + 1] /\ i + 1 \in 1..Len(q)
      /\ 1 \in 1..Len(q)
      /\ \A i \in 1..Len(q) : i = 1 \/ (i - 1 \in 1..Len(q2) /\ (i - 1) + 1 = i)
  BY DEF Drops
<1>1. ASSUME InSock(q, a), ~(Answer(q[1]) /\ q[1].id = a) PROVE InSock(q2, a)
  <2>1. PICK p \in 1..Len(q) : Answer(q[p]) /\ q[p].id = a
    BY <1>1 DEF InSock
  <2>2. p - 1 \in 1..Len(q2) /\ (p - 1) + 1 = p
    BY <1>0, <1>1, <2>1
  <2>3. q2[p - 1] = q[p]
    BY <1>0, <2>2
  <2>q. QED BY <2>1, <2>2, <2>3 DEF InSock
<1>2. ASSUME Answer(q[1]), q[1].id = a PROVE InSock(q, a)
  BY <1>0, <1>2 DEF InSock
<1>3. ASSUME InSock(q2, a) PROVE InSock(q, a)
  <2>1. PICK p \in 1..Len(q2) : Answer(q2[p]) /\ q2[p].id = a
    BY <1>3 DEF InSock
  <2>q. QED BY <1>0, <2>1 DEF InSock
<1>q. QED BY <1>1, <1>2, <1>3

\* Executing a regular command takes away that one only.
LEMMA InWireDropped ==
  ASSUME NEW w, NEW w2, Drops(w, w2), NEW a
  PROVE  InWire(w, a) <=> InWire(w2, a) \/ (w[1].t = "regular" /\ w[1].id = a)
<1>0. /\ Len(w) \in Nat /\ Len(w2) \in Nat /\ Len(w) = Len(w2) + 1
      /\ \A i \in 1..Len(w2) : w2[i] = w[i + 1] /\ i + 1 \in 1..Len(w)
      /\ 1 \in 1..Len(w)
      /\ \A i \in 1..Len(w) : i = 1 \/ (i - 1 \in 1..Len(w2) /\ (i - 1) + 1 = i)
  BY DEF Drops
<1>1. ASSUME InWire(w, a), ~(w[1].t = "regular" /\ w[1].id = a) PROVE InWire(w2, a)
  <2>1. PICK p \in 1..Len(w) : w[p].t = "regular" /\ w[p].id = a
    BY <1>1 DEF InWire
  <2>2. p - 1 \in 1..Len(w2) /\ (p - 1) + 1 = p
    BY <1>0, <1>1, <2>1
  <2>3. w2[p - 1] = w[p]
    BY <1>0, <2>2
  <2>q. QED BY <2>1, <2>2, <2>3 DEF InWire
<1>2. ASSUME w[1].t = "regular", w[1].id = a PROVE InWire(w, a)
  BY <1>0, <1>2 DEF InWire
<1>3. ASSUME InWire(w2, a) PROVE InWire(w, a)
  <2>1. PICK p \in 1..Len(w2) : w2[p].t = "regular" /\ w2[p].id = a
    BY <1>3 DEF InWire
  <2>q. QED BY <1>0, <2>1 DEF InWire
<1>q. QED BY <1>1, <1>2, <1>3

\* Shifting a callback takes away that one only.
LEMMA InQueueDropped ==
  ASSUME NEW r, NEW r2, Drops(r, r2), NEW a
  PROVE  InQueue(r, a) <=> InQueue(r2, a) \/ r[1].id = a
<1>0. /\ Len(r) \in Nat /\ Len(r2) \in Nat /\ Len(r) = Len(r2) + 1
      /\ \A i \in 1..Len(r2) : r2[i] = r[i + 1] /\ i + 1 \in 1..Len(r)
      /\ 1 \in 1..Len(r)
      /\ \A i \in 1..Len(r) : i = 1 \/ (i - 1 \in 1..Len(r2) /\ (i - 1) + 1 = i)
  BY DEF Drops
<1>1. ASSUME InQueue(r, a), r[1].id # a PROVE InQueue(r2, a)
  <2>1. PICK p \in 1..Len(r) : r[p].id = a
    BY <1>1 DEF InQueue
  <2>2. p - 1 \in 1..Len(r2) /\ (p - 1) + 1 = p
    BY <1>0, <1>1, <2>1
  <2>3. r2[p - 1] = r[p]
    BY <1>0, <2>2
  <2>q. QED BY <2>1, <2>2, <2>3 DEF InQueue
<1>2. ASSUME r[1].id = a PROVE InQueue(r, a)
  BY <1>0, <1>2 DEF InQueue
<1>3. ASSUME InQueue(r2, a) PROVE InQueue(r, a)
  <2>1. PICK p \in 1..Len(r2) : r2[p].id = a
    BY <1>3 DEF InQueue
  <2>q. QED BY <1>0, <2>1 DEF InQueue
<1>q. QED BY <1>1, <1>2, <1>3

\* Nothing waits in an empty list.
LEMMA InQueueEmpty == ASSUME NEW r, Len(r) = 0, NEW a PROVE ~InQueue(r, a)
  BY DEF InQueue

\* A command is issued: UnderWay and the two lists take the next number.
LEMMA UnderWayIssued ==
  ASSUME NEW q, NEW w, NEW w2, NEW n \in Nat, NEW e,
         UnderWay(q, w, n), Len(q) \in Nat, Appends(w, w2, e), e.id = n + 1
  PROVE  UnderWay(q, w2, n + 1)
<1>0. /\ Len(w) \in Nat /\ Len(w2) = Len(w) + 1 /\ w2[Len(w) + 1] = e
      /\ \A i \in 1..Len(w) : w2[i] = w[i]
      /\ \A i \in 1..Len(w2) : i \in 1..Len(w) \/ i = Len(w) + 1
  BY DEF Appends, Extends
<1>1. \A p \in 1..Len(w) : w[p].id \in 1..n
  BY DEF UnderWay
<1>2. \A p \in 1..Len(q) : Answer(q[p]) => q[p].id \in 1..n
  BY DEF UnderWay
<1>3. \A p \in 1..Len(w2) : w2[p].id \in 1..(n + 1)
  BY <1>0, <1>1
<1>4. ASSUME NEW p \in 1..Len(w2), NEW p2 \in 1..Len(w2), p < p2
      PROVE  w2[p].id < w2[p2].id
  <2>1. p \in 1..Len(w)
    BY <1>0, <1>4
  <2>2. CASE p2 \in 1..Len(w)
    BY <1>0, <1>4, <2>1, <2>2 DEF UnderWay
  <2>3. CASE p2 = Len(w) + 1
    BY <1>0, <1>1, <2>1, <2>3
  <2>q. QED BY <1>0, <2>2, <2>3
<1>5. ASSUME NEW p \in 1..Len(q), NEW p2 \in 1..Len(w2), Answer(q[p])
      PROVE  q[p].id < w2[p2].id
  <2>1. CASE p2 \in 1..Len(w)
    BY <1>0, <1>5, <2>1 DEF UnderWay
  <2>2. CASE p2 = Len(w) + 1
    BY <1>0, <1>2, <1>5, <2>2
  <2>q. QED BY <1>0, <2>1, <2>2
<1>6. \A p \in 1..Len(q) : Answer(q[p]) => q[p].id \in 1..(n + 1)
  BY <1>2
<1>q. QED BY <1>3, <1>4, <1>5, <1>6 DEF UnderWay

\* The order of the lists does not depend on the number of commands issued.
LEMMA QueuedLonger ==
  ASSUME NEW r, NEW u, NEW n \in Nat, Queued(r, u, n)
  PROVE  Queued(r, u, n + 1)
<1>1. \A i \in 1..n : i \in 1..(n + 1)
  OBVIOUS
<1>q. QED BY <1>1 DEF Queued

\* Regs survives the issue of a (un)subscribe, which has no callback in the lists
\* ...
LEMMA RegsIssued ==
  ASSUME NEW q, NEW w, NEW w2, NEW r, NEW u, NEW n, NEW e,
         Regs(q, w, r, u, n), Len(q) \in Nat, Appends(w, w2, e),
         e.t # "regular", e.id = n + 1
  PROVE  Regs(q, w2, r, u, n + 1)
<1>1. n \in Nat /\ n + 1 \in Nat
  BY DEF Regs
<1>2. UnderWay(q, w2, n + 1)
  BY <1>1, UnderWayIssued DEF Regs
<1>3. Queued(r, u, n + 1)
  BY <1>1, QueuedLonger DEF Regs
<1>4. \A a : InWire(w2, a) <=> InWire(w, a)
  BY InWireAppended
<1>5. Matched(q, w2, r, u)
  BY <1>4 DEF Regs, Matched
<1>q. QED BY <1>1, <1>2, <1>3, <1>5 DEF Regs

\* ... of a regular command in subscribed mode ...
LEMMA RegsQueuedSub ==
  ASSUME NEW q, NEW w, NEW w2, NEW r, NEW u, NEW u2, NEW n, NEW e, NEW cb,
         Regs(q, w, r, u, n), Len(q) \in Nat, Len(r) \in Nat, Appends(w, w2, e),
         e.t = "regular", e.id = n + 1, Appends(u, u2, cb), cb.id = n + 1
  PROVE  Regs(q, w2, r, u2, n + 1)
<1>1. n \in Nat /\ n + 1 \in Nat
  BY DEF Regs
<1>2. UnderWay(q, w2, n + 1)
  BY <1>1, UnderWayIssued DEF Regs
<1>3. Queued(r, u2, n + 1)
  <2>0. /\ Len(u) \in Nat /\ Len(u2) = Len(u) + 1 /\ u2[Len(u) + 1] = cb
        /\ \A i \in 1..Len(u) : u2[i] = u[i]
        /\ \A i \in 1..Len(u2) : i \in 1..Len(u) \/ i = Len(u) + 1
    BY DEF Appends, Extends
  <2>1. /\ \A p \in 1..Len(u) : u[p].id \in 1..n
        /\ \A p \in 1..Len(r) : r[p].id \in 1..n
    BY DEF Regs, Queued
  <2>2. \A p \in 1..Len(u2) : u2[p].id \in 1..(n + 1)
    BY <1>1, <2>0, <2>1, SMTT(30)
  <2>3. ASSUME NEW p \in 1..Len(u2), NEW p2 \in 1..Len(u2), p < p2
        PROVE  u2[p].id < u2[p2].id
    <3>1. p \in 1..Len(u)
      BY <2>0, <2>3
    <3>2. CASE p2 \in 1..Len(u)
      BY <2>0, <2>3, <3>1, <3>2 DEF Regs, Queued
    <3>3. CASE p2 = Len(u) + 1
      BY <1>1, <2>0, <2>1, <3>1, <3>3
    <3>q. QED BY <2>0, <3>2, <3>3
  <2>4. ASSUME NEW p \in 1..Len(r), NEW p2 \in 1..Len(u2)
        PROVE  r[p].id < u2[p2].id
    <3>1. CASE p2 \in 1..Len(u)
      BY <2>0, <3>1 DEF Regs, Queued
    <3>2. CASE p2 = Len(u) + 1
      BY <1>1, <2>0, <2>1, <3>2
    <3>q. QED BY <2>0, <3>1, <3>2
  <2>5. Queued(r, u, n + 1)
    BY <1>1, QueuedLonger DEF Regs
  <2>q. QED BY <2>2, <2>3, <2>4, <2>5 DEF Queued
<1>4. Matched(q, w2, r, u2)
  BY InWireAppended, InQueueAppended DEF Regs, Matched
<1>q. QED BY <1>1, <1>2, <1>3, <1>4 DEF Regs

\* (An empty list and the other one may change places.)
LEMMA RegsSwapped ==
  ASSUME NEW q, NEW w, NEW r, NEW u, NEW n, NEW r2, NEW u2, Regs(q, w, r, u, n),
         \/ Len(r) = 0 /\ r2 = u /\ Len(u2) = 0
         \/ Len(u) = 0 /\ u2 = r /\ Len(r2) = 0
  PROVE  Regs(q, w, r2, u2, n)
<1>1. Queued(r2, u2, n)
  BY DEF Regs, Queued
<1>2. Matched(q, w, r2, u2)
  BY InQueueEmpty DEF Regs, Matched
<1>q. QED BY <1>1, <1>2 DEF Regs

\* ... and of a regular command outside it.
LEMMA RegsQueued ==
  ASSUME NEW q, NEW w, NEW w2, NEW r, NEW r2, NEW u, NEW n, NEW e, NEW cb,
         Regs(q, w, r, u, n), Len(q) \in Nat, Len(r) \in Nat, Appends(w, w2, e),
         e.t = "regular", e.id = n + 1, Appends(r, r2, cb), cb.id = n + 1, Len(u) = 0
  PROVE  Regs(q, w2, r2, u, n + 1)
<1>1. Regs(q, w, u, r, n)
  BY RegsSwapped
<1>2. Len(u) \in Nat
  OBVIOUS
<1>3. Regs(q, w2, u, r2, n + 1)
  BY <1>1, <1>2, RegsQueuedSub
<1>q. QED BY <1>3, RegsSwapped

\* The order under way, when the server answers the first command.
LEMMA UnderWayServed ==
  ASSUME NEW q, NEW q2, NEW w, NEW w2, NEW n,
         UnderWay(q, w, n), Drops(w, w2), Extends(q, q2), n \in Nat,
         \A i \in (Len(q) + 1)..Len(q2) : Answer(q2[i]) => i = Len(q) + 1 /\ q2[i].id = w[1].id
  PROVE  UnderWay(q2, w2, n)
<1>1. /\ Len(w) \in Nat /\ Len(w2) \in Nat /\ Len(w) = Len(w2) + 1
      /\ \A i \in 1..Len(w2) : w2[i] = w[i + 1] /\ i + 1 \in 1..Len(w) /\ 1 < i + 1
      /\ 1 \in 1..Len(w)
  BY DEF Drops
<1>2. /\ Len(q) \in Nat /\ Len(q2) \in Nat
      /\ \A i \in 1..Len(q) : q2[i] = q[i]
      /\ \A i \in 1..Len(q2) : i \in 1..Len(q) \/ i \in (Len(q) + 1)..Len(q2)
  BY DEF Extends
<1>3. \A i \in 1..Len(q2) : Answer(q2[i]) =>
          \/ i \in 1..Len(q) /\ q2[i] = q[i]
          \/ i = Len(q) + 1 /\ q2[i].id = w[1].id
  BY <1>2
<1>4. \A p \in 1..Len(w2) : w2[p].id \in 1..n
  BY <1>1 DEF UnderWay
<1>5. \A p \in 1..Len(q2) : Answer(q2[p]) => q2[p].id \in 1..n
  BY <1>1, <1>3 DEF UnderWay
<1>6. ASSUME NEW p \in 1..Len(q2), NEW p2 \in 1..Len(q2), p < p2,
             Answer(q2[p]), Answer(q2[p2])
      PROVE  q2[p].id < q2[p2].id
  <2>1. p \in 1..Len(q) /\ q2[p] = q[p]
    BY <1>2, <1>3, <1>6
  <2>2. CASE p2 \in 1..Len(q) /\ q2[p2] = q[p2]
    BY <1>6, <2>1, <2>2 DEF UnderWay
  <2>3. CASE q2[p2].id = w[1].id
    BY <1>1, <1>6, <2>1, <2>3 DEF UnderWay
  <2>q. QED BY <1>3, <1>6, <2>2, <2>3
<1>7. \A p, p2 \in 1..Len(w2) : p < p2 => w2[p].id < w2[p2].id
  <2> SUFFICES ASSUME NEW p \in 1..Len(w2), NEW p2 \in 1..Len(w2), p < p2
               PROVE  w2[p].id < w2[p2].id
    OBVIOUS
  <2>1. p + 1 < p2 + 1
    BY <1>1
  <2>q. QED BY <1>1, <2>1 DEF UnderWay
<1>8. ASSUME NEW p \in 1..Len(q2), NEW p2 \in 1..Len(w2), Answer(q2[p])
      PROVE  q2[p].id < w2[p2].id
  <2>1. CASE p \in 1..Len(q) /\ q2[p] = q[p]
    BY <1>1, <1>8, <2>1 DEF UnderWay
  <2>2. CASE q2[p].id = w[1].id
    BY <1>1, <2>2 DEF UnderWay
  <2>q. QED BY <1>3, <1>8, <2>1, <2>2
<1>q. QED BY <1>4, <1>5, <1>6, <1>7, <1>8 DEF UnderWay

\* Regs survives the execution of a regular command ...
LEMMA RegsAnswered ==
  ASSUME NEW q, NEW q2, NEW w, NEW w2, NEW r, NEW u, NEW n, NEW m,
         Regs(q, w, r, u, n), Drops(w, w2), w[1].t = "regular",
         Appends(q, q2, m), Answer(m), m.id = w[1].id
  PROVE  Regs(q2, w2, r, u, n)
<1>1. Extends(q, q2) /\ n \in Nat
      /\ \A i \in (Len(q) + 1)..Len(q2) : i = Len(q) + 1 /\ q2[i].id = w[1].id
  BY DEF Appends, Extends, Regs
<1>2. UnderWay(q2, w2, n)
  BY <1>1, UnderWayServed DEF Regs
<1>3. Matched(q2, w2, r, u)
  BY InSockAppended, InWireDropped DEF Regs, Matched
<1>q. QED BY <1>2, <1>3 DEF Regs

\* ... that of any other command ...
LEMMA RegsServed ==
  ASSUME NEW q, NEW q2, NEW w, NEW w2, NEW r, NEW u, NEW n,
         Regs(q, w, r, u, n), Drops(w, w2), w[1].t # "regular", Extends(q, q2),
         \A i \in (Len(q) + 1)..Len(q2) : ~Answer(q2[i])
  PROVE  Regs(q2, w2, r, u, n)
<1>1. UnderWay(q2, w2, n)
  BY UnderWayServed DEF Regs
<1>2. Matched(q2, w2, r, u)
  BY InSockSame, InWireDropped DEF Regs, Matched
<1>q. QED BY <1>1, <1>2 DEF Regs

\* ... and messages published.
LEMMA RegsPublished ==
  ASSUME NEW q, NEW q2, NEW w, NEW r, NEW u, NEW n,
         Regs(q, w, r, u, n), Extends(q, q2),
         \A i \in (Len(q) + 1)..Len(q2) : ~Answer(q2[i])
  PROVE  Regs(q2, w, r, u, n)
<1>1. \A i \in 1..Len(q2) : Answer(q2[i]) => i \in 1..Len(q) /\ q2[i] = q[i]
  BY DEF Extends
<1>2. UnderWay(q2, w, n)
  BY <1>1 DEF Regs, UnderWay
<1>3. Matched(q2, w, r, u)
  BY InSockSame DEF Regs, Matched
<1>q. QED BY <1>2, <1>3 DEF Regs

\* The order under way, when the first message is processed.
LEMMA UnderWayDropped ==
  ASSUME NEW q, NEW q2, NEW w, NEW n, UnderWay(q, w, n), Drops(q, q2)
  PROVE  UnderWay(q2, w, n)
<1>1. /\ Len(q2) \in Nat
      /\ \A i \in 1..Len(q2) : q2[i] = q[i + 1] /\ i + 1 \in 1..Len(q)
      /\ \A i, j \in 1..Len(q2) : i < j => i + 1 < j + 1
  BY DEF Drops
<1>q. QED BY <1>1 DEF UnderWay

\* Regs survives the processing of a push.
LEMMA RegsPushed ==
  ASSUME NEW q, NEW q2, NEW w, NEW r, NEW u, NEW n,
         Regs(q, w, r, u, n), Drops(q, q2), ~Answer(q[1])
  PROVE  Regs(q2, w, r, u, n)
<1>1. UnderWay(q2, w, n)
  BY UnderWayDropped DEF Regs
<1>2. Matched(q2, w, r, u)
  BY InSockDropped DEF Regs, Matched
<1>q. QED BY <1>1, <1>2 DEF Regs

\* An answer at the head belongs to the first callback of ac->replies, and if
\* that list is empty to the first of ac->sub.replies.
LEMMA HeadMatches ==
  ASSUME NEW q, NEW w, NEW r, NEW u, NEW n,
         Regs(q, w, r, u, n), Len(q) \in Nat, Len(q) >= 1, Answer(q[1]),
         Len(r) \in Nat, Len(u) \in Nat
  PROVE  /\ Len(r) > 0 => r[1].id = q[1].id
         /\ Len(r) = 0 => Len(u) > 0 /\ u[1].id = q[1].id
<1>1. ASSUME NEW x, NEW y, Regs(q, w, x, y, n), Len(x) \in Nat, Len(x) > 0
      PROVE  x[1].id = q[1].id
  <2>0. 1 \in 1..Len(q) /\ 1 \in 1..Len(x) /\ n \in Nat
    BY <1>1 DEF Regs
  <2>1. x[1].id \in Int /\ q[1].id \in Int
    BY <1>1, <2>0 DEF Regs, Queued, UnderWay
  <2>2. InQueue(x, x[1].id) /\ InSock(q, q[1].id)
    BY <2>0 DEF InQueue, InSock
  <2>3. q[1].id <= x[1].id
    <3>1. CASE InSock(q, x[1].id)
      <4>1. PICK p \in 1..Len(q) : Answer(q[p]) /\ q[p].id = x[1].id
        BY <3>1 DEF InSock
      <4>2. CASE p = 1
        BY <2>1, <4>1, <4>2
      <4>3. CASE p > 1
        BY <1>1, <2>0, <2>1, <4>1, <4>3 DEF Regs, UnderWay
      <4>q. QED BY <4>2, <4>3
    <3>2. CASE InWire(w, x[1].id)
      <4>1. PICK p \in 1..Len(w) : w[p].id = x[1].id
        BY <3>2 DEF InWire
      <4>q. QED BY <1>1, <2>0, <2>1, <4>1 DEF Regs, UnderWay
    <3>q. QED BY <1>1, <2>2, <3>1, <3>2 DEF Regs, Matched
  <2>4. x[1].id <= q[1].id
    <3>1. CASE InQueue(x, q[1].id)
      <4>1. PICK p \in 1..Len(x) : x[p].id = q[1].id
        BY <3>1 DEF InQueue
      <4>2. CASE p = 1
        BY <2>1, <4>1, <4>2
      <4>3. CASE p > 1
        BY <1>1, <2>0, <2>1, <4>1, <4>3 DEF Regs, Queued
      <4>q. QED BY <4>2, <4>3
    <3>2. CASE InQueue(y, q[1].id)
      <4>1. PICK p \in 1..Len(y) : y[p].id = q[1].id
        BY <3>2 DEF InQueue
      <4>q. QED BY <1>1, <2>0, <2>1, <4>1 DEF Regs, Queued
    <3>q. QED BY <1>1, <2>2, <3>1, <3>2 DEF Regs, Matched
  <2>q. QED BY <2>1, <2>3, <2>4
<1>2. ASSUME Len(r) = 0
      PROVE  Len(u) > 0 /\ u[1].id = q[1].id
  <2>1. 1 \in 1..Len(q)
    OBVIOUS
  <2>2. InSock(q, q[1].id)
    BY <2>1 DEF InSock
  <2>3. InQueue(u, q[1].id)
    BY <1>2, <2>2, InQueueEmpty DEF Regs, Matched
  <2>4. Len(u) > 0
    BY <2>3, InQueueEmpty
  <2>5. PICK x : Len(x) = 0
    BY <1>2
  <2>6. Regs(q, w, u, x, n)
    BY <1>2, <2>5, RegsSwapped
  <2>q. QED BY <1>1, <2>4, <2>6
<1>q. QED BY <1>1, <1>2

\* The order of the lists, when a callback is shifted.
LEMMA QueuedDropped ==
  ASSUME NEW r, NEW r2, NEW u, NEW n, Queued(r, u, n), Drops(r, r2)
  PROVE  Queued(r2, u, n)
<1>1. /\ Len(r2) \in Nat
      /\ \A i \in 1..Len(r2) : r2[i] = r[i + 1] /\ i + 1 \in 1..Len(r)
      /\ \A i, j \in 1..Len(r2) : i < j => i + 1 < j + 1
  BY DEF Drops
<1>q. QED BY <1>1 DEF Queued

\* Regs survives a reply handed to the first callback of ac->replies ...
LEMMA RegsReplied ==
  ASSUME NEW q, NEW q2, NEW w, NEW r, NEW r2, NEW u, NEW n,
         Regs(q, w, r, u, n), Drops(q, q2), Answer(q[1]),
         Drops(r, r2), r[1].id = q[1].id
  PROVE  Regs(q2, w, r2, u, n)
<1>1. UnderWay(q2, w, n)
  BY UnderWayDropped DEF Regs
<1>2. Queued(r2, u, n)
  BY QueuedDropped DEF Regs
<1>3. /\ Len(r2) \in Nat /\ Len(q2) \in Nat
      /\ \A i \in 1..Len(r2) : r2[i] = r[i + 1] /\ i + 1 \in 1..Len(r) /\ 1 < i + 1
      /\ \A i \in 1..Len(q2) : q2[i] = q[i + 1] /\ i + 1 \in 1..Len(q) /\ 1 < i + 1
      /\ 1 \in 1..Len(r) /\ 1 \in 1..Len(q)
  BY DEF Drops
<1>4. n \in Nat /\ r[1].id \in 1..n /\ r[1].id \in Int
  BY <1>3 DEF Regs, Queued
<1>5. ~InQueue(r2, r[1].id) /\ ~InQueue(u, r[1].id)
  <2>1. \A p \in 1..Len(r2) : r[1].id < r2[p].id
    BY <1>3 DEF Regs, Queued
  <2>2. \A p \in 1..Len(u) : r[1].id < u[p].id
    BY <1>3 DEF Regs, Queued
  <2>q. QED BY <1>4, <2>1, <2>2 DEF InQueue
<1>6. ~InSock(q2, r[1].id) /\ ~InWire(w, r[1].id)
  <2>1. \A p \in 1..Len(q2) : Answer(q2[p]) => q[1].id < q2[p].id
    BY <1>3 DEF Regs, UnderWay
  <2>2. \A p \in 1..Len(w) : q[1].id < w[p].id
    BY <1>3 DEF Regs, UnderWay
  <2>q. QED BY <1>4, <2>1, <2>2 DEF InSock, InWire
<1>7. Matched(q2, w, r2, u)
  BY <1>5, <1>6, InSockDropped, InQueueDropped DEF Regs, Matched
<1>q. QED BY <1>1, <1>2, <1>7 DEF Regs

\* ... or of ac->sub.replies.
LEMMA RegsRepliedSub ==
  ASSUME NEW q, NEW q2, NEW w, NEW r, NEW u, NEW u2, NEW n,
         Regs(q, w, r, u, n), Drops(q, q2), Answer(q[1]), Len(r) = 0,
         Drops(u, u2), u[1].id = q[1].id
  PROVE  Regs(q2, w, r, u2, n)
<1>1. Regs(q, w, u, r, n)
  BY RegsSwapped
<1>2. Regs(q2, w, u2, r, n)
  BY <1>1, RegsReplied
<1>q. QED BY <1>2, RegsSwapped

-----------------------------------------------------------------------------
(* Pushes and the callbacks in ac->replies. *)

\* Nothing is asked of what is under way while ac->replies is empty ...
LEMMA MixedNoReplies ==
  ASSUME NEW v, NEW q, NEW w, NEW r, Len(r) = 0
  PROVE  Mixed(v, q, w, r)
  BY DEF Mixed

\* ... or while nothing about subscriptions is.
LEMMA MixedCalm ==
  ASSUME NEW v, NEW q, NEW w, NEW r, Calm(v, q, w)
  PROVE  Mixed(v, q, w, r)
  BY DEF Mixed, Calm

\* So no push is at the head while callbacks wait in ac->replies.
LEMMA HeadIsAnswer ==
  ASSUME NEW v, NEW q, NEW w, NEW r, Mixed(v, q, w, r),
         Len(q) \in Nat, Len(q) >= 1, Len(r) \in Nat, Len(r) > 0
  PROVE  ~IsPush(q[1])
<1>1. 1 \in 1..Len(q) /\ 1 \in 1..Len(r)
  OBVIOUS
<1>q. QED BY <1>1 DEF Mixed

\* Mixed survives the issue of a command: it comes after all that wait.
LEMMA MixedIssued ==
  ASSUME NEW v, NEW q, NEW w, NEW w2, NEW r, NEW u, NEW n, NEW e,
         Mixed(v, q, w, r), Regs(q, w, r, u, n), Appends(w, w2, e), e.id = n + 1
  PROVE  Mixed(v, q, w2, r)
<1>1. /\ Len(w) \in Nat /\ n \in Nat
      /\ \A i \in 1..Len(w2) : (i \in 1..Len(w) /\ w2[i] = w[i]) \/ w2[i] = e
  BY DEF Appends, Extends, Regs
<1>2. \A a \in 1..Len(r) : r[a].id < n + 1
  BY <1>1 DEF Regs, Queued
<1>q. QED BY <1>1, <1>2 DEF Mixed

\* Mixed survives answers, and pushes when every waiting callback has its answer
\* before them.
LEMMA MixedArrived ==
  ASSUME NEW v, NEW v2, NEW q, NEW q2, NEW w, NEW r,
         Mixed(v, q, w, r), Extends(q, q2),
         \/ v2 = v /\ \A i \in (Len(q) + 1)..Len(q2) : ~IsPush(q2[i])
         \/ \A a \in 1..Len(r) : InSock(q, r[a].id)
  PROVE  Mixed(v2, q2, w, r)
<1>1. /\ Len(q) \in Nat /\ Len(q2) \in Nat
      /\ \A i \in 1..Len(q) : q2[i] = q[i]
      /\ \A i \in 1..Len(q2) : i \in 1..Len(q) \/ i \in (Len(q) + 1)..Len(q2)
  BY DEF Extends
<1>2. ASSUME NEW p \in 1..Len(q2), IsPush(q2[p]), NEW a \in 1..Len(r)
      PROVE  \E p2 \in 1..(p - 1) : Answer(q2[p2]) /\ q2[p2].id = r[a].id
  <2>1. CASE p \in 1..Len(q)
    <3>1. PICK p2 \in 1..(p - 1) : Answer(q[p2]) /\ q[p2].id = r[a].id
      BY <1>1, <1>2, <2>1 DEF Mixed
    <3>2. p2 \in 1..Len(q)
      BY <1>1, <2>1, <3>1
    <3>q. QED BY <1>1, <3>1, <3>2
  <2>2. CASE p \in (Len(q) + 1)..Len(q2)
    <3>1. InSock(q, r[a].id)
      BY <1>2, <2>2
    <3>2. PICK p2 \in 1..Len(q) : Answer(q[p2]) /\ q[p2].id = r[a].id
      BY <3>1 DEF InSock
    <3>3. p2 \in 1..(p - 1)
      BY <1>1, <2>2, <3>2
    <3>q. QED BY <1>1, <3>2, <3>3
  <2>q. QED BY <1>1, <2>1, <2>2
<1>3. ASSUME v2 # {}, NEW a \in 1..Len(r)
      PROVE  InSock(q2, r[a].id)
  <2>1. InSock(q, r[a].id)
    BY <1>3 DEF Mixed
  <2>q. QED BY <2>1, InSockExtended
<1>q. QED BY <1>2, <1>3 DEF Mixed

\* Mixed does not need a command once it is executed.
LEMMA MixedExecuted ==
  ASSUME NEW v, NEW q, NEW w, NEW w2, NEW r, Mixed(v, q, w, r), Drops(w, w2)
  PROVE  Mixed(v, q, w2, r)
<1>1. \A i \in 1..Len(w2) : w2[i] = w[i + 1] /\ i + 1 \in 1..Len(w)
  BY DEF Drops
<1>q. QED BY <1>1 DEF Mixed

\* When the server gets to a command that is no regular one, it has answered
\* all those ac->replies is waiting for.
LEMMA RepliesAnswered ==
  ASSUME NEW v, NEW q, NEW w, NEW w2, NEW r, NEW u, NEW n,
         Mixed(v, q, w, r), Regs(q, w, r, u, n), Drops(w, w2), w[1].t # "regular"
  PROVE  \A a \in 1..Len(r) : InSock(q, r[a].id)
<1> SUFFICES ASSUME NEW a \in 1..Len(r) PROVE InSock(q, r[a].id)
  OBVIOUS
<1>1. 1 \in 1..Len(w) /\ n \in Nat
  BY DEF Drops, Regs
<1>2. r[a].id < w[1].id /\ r[a].id \in Int /\ \A p \in 1..Len(w) : w[p].id \in Int
  BY <1>1 DEF Mixed, Regs, Queued, UnderWay
<1>3. InQueue(r, r[a].id)
  BY DEF InQueue
<1>4. ~InWire(w, r[a].id)
  <2> SUFFICES ASSUME NEW p \in 1..Len(w), w[p].id = r[a].id PROVE FALSE
    BY DEF InWire
  <2>1. CASE p = 1
    BY <1>1, <1>2, <2>1
  <2>2. CASE 1 < p
    <3>1. w[1].id < w[p].id
      BY <1>1, <2>2 DEF Regs, UnderWay
    <3>q. QED BY <1>1, <1>2, <3>1
  <2>q. QED BY <2>1, <2>2
<1>q. QED BY <1>3, <1>4 DEF Regs, Matched

\* Mixed survives a reply.
LEMMA MixedReplied ==
  ASSUME NEW v, NEW q, NEW q2, NEW w, NEW r, NEW r2, NEW u, NEW n,
         Mixed(v, q, w, r), Regs(q, w, r, u, n), Drops(q, q2), Drops(r, r2),
         r[1].id = q[1].id
  PROVE  Mixed(v, q2, w, r2)
<1>1. /\ Len(q) \in Nat /\ Len(q2) \in Nat /\ Len(q) = Len(q2) + 1
      /\ \A i \in 1..Len(q2) : q2[i] = q[i + 1] /\ i + 1 \in 1..Len(q)
      /\ \A i \in 1..Len(q) : i # 1 => i - 1 \in 1..Len(q2) /\ q2[i - 1] = q[i]
  <2>1. /\ Len(q) \in Nat /\ Len(q2) \in Nat /\ Len(q) = Len(q2) + 1
        /\ \A i \in 1..Len(q2) : q2[i] = q[i + 1]
    BY DEF Drops
  <2>2. \A i \in 1..Len(q) : i # 1 => i - 1 \in 1..Len(q2) /\ (i - 1) + 1 = i
    BY <2>1
  <2>3. \A i \in 1..Len(q) : i # 1 => q2[i - 1] = q[(i - 1) + 1]
    BY <2>1, <2>2
  <2>4. \A i \in 1..Len(q) : i # 1 => q2[i - 1] = q[i]
    BY <2>2, <2>3
  <2>q. QED BY <2>1, <2>2, <2>4
<1>2. /\ \A a \in 1..Len(r2) : r2[a] = r[a + 1] /\ a + 1 \in 1..Len(r) /\ 1 < a + 1
      /\ 1 \in 1..Len(r)
  BY DEF Drops
<1>3. \A a \in 1..Len(r2) : r2[a].id # q[1].id
  <2>1. \A a \in 1..Len(r2) : q[1].id < r2[a].id
    BY <1>2 DEF Regs, Queued
  <2>2. q[1].id \in Int
    BY <1>2 DEF Regs, Queued
  <2>q. QED BY <2>1, <2>2
<1>4. ASSUME NEW p \in 1..Len(q2), IsPush(q2[p]), NEW a \in 1..Len(r2)
      PROVE  \E p2 \in 1..(p - 1) : Answer(q2[p2]) /\ q2[p2].id = r2[a].id
  <2>0. /\ p + 1 \in 1..Len(q) /\ IsPush(q[p + 1])
        /\ a + 1 \in 1..Len(r) /\ r[a + 1].id = r2[a].id
    BY <1>1, <1>2, <1>4
  <2>1. PICK p2 \in 1..((p + 1) - 1) : Answer(q[p2]) /\ q[p2].id = r[a + 1].id
    BY <2>0 DEF Mixed
  <2>2. p2 # 1 /\ p2 \in 1..Len(q)
    BY <1>1, <1>3, <2>0, <2>1
  <2>3. p2 - 1 \in 1..(p - 1) /\ q2[p2 - 1] = q[p2]
    BY <1>1, <2>1, <2>2
  <2>q. QED BY <2>0, <2>1, <2>3
<1>5. \A p \in 1..Len(w) : w[p].t # "regular" => \A a \in 1..Len(r2) : r2[a].id < w[p].id
  BY <1>2 DEF Mixed
<1>6. ASSUME v # {}, NEW a \in 1..Len(r2)
      PROVE  InSock(q2, r2[a].id)
  <2>1. InSock(q, r2[a].id)
    BY <1>2, <1>6 DEF Mixed
  <2>q. QED BY <1>3, <2>1, InSockDropped
<1>q. QED BY <1>4, <1>5, <1>6 DEF Mixed

-----------------------------------------------------------------------------
(* The effects of the operations on the context. *)

\* Facts about the channel list of a command with one channel.
LEMMA OneKey ==
  ASSUME NEW K, NEW keys \in [1..1 -> K]
  PROVE  /\ keys \in Seq(K) /\ Len(keys) = 1 /\ Named(keys) = {keys[1]}
         /\ DOMAIN keys = 1..1 /\ keys[1] \in K
<1>1. keys \in Seq(K) BY SeqDef
<1>2. DOMAIN keys = 1..1 OBVIOUS
<1>3. Len(keys) = 1 BY <1>1, <1>2, LenProperties
<1>4. keys[1] \in K OBVIOUS
<1>5. Named(keys) = {keys[1]} BY <1>2 DEF Named
<1>q. QED BY <1>1, <1>2, <1>3, <1>4, <1>5

\* What one turn of the loop in SubscribeCallbacks does to the entries d.
GivenEntry(d, d2, k, id) ==
    /\ DOMAIN d2 = DOMAIN d \cup {k}
    /\ \A x \in DOMAIN d : x # k => d2[x] = d[x]
    /\ d2[k] = IF k \in DOMAIN d
               THEN [fn |-> d[k].fn, pending_subs |-> d[k].pending_subs + 1,
                     unsubscribe_sent |-> FALSE, subscribed |-> d[k].subscribed]
               ELSE [fn |-> id, pending_subs |-> 1, unsubscribe_sent |-> FALSE,
                     subscribed |-> FALSE]

\* So SubscribeCallbacks, for a command with one channel.
LEMMA SubscribeCallbacksIs ==
  ASSUME NEW K, NEW keys \in [1..1 -> K], NEW id, NEW res,
         Kind[keys[1]] # "schannels", res = SubscribeCallbacks(keys, id)
  PROVE  GivenEntry(dict, res, keys[1], id)
<1> DEFINE c0 == [fn |-> id, pending_subs |-> 1, unsubscribe_sent |-> FALSE,
                 subscribed |-> FALSE]
           c1(c) == IF keys[1] \in DOMAIN dict
           THEN [c EXCEPT !.pending_subs = dict[keys[1]].pending_subs + 1,
                                  !.subscribed = dict[keys[1]].subscribed,
                                  !.fn = dict[keys[1]].fn]
           ELSE [c EXCEPT !.fn = IF Kind[keys[1]] = "schannels" THEN NoFn ELSE @]
           F(f) == f = [i \in 0..Len(keys) |-> IF i = 0
           THEN [fn |-> id, pending_subs |-> 1, unsubscribe_sent |-> FALSE,
                 subscribed |-> FALSE]
           ELSE IF keys[i] \in DOMAIN dict
           THEN [f[i - 1] EXCEPT !.pending_subs = dict[keys[i]].pending_subs + 1,
                                  !.subscribed = dict[keys[i]].subscribed,
                                  !.fn = dict[keys[i]].fn]
           ELSE [f[i - 1] EXCEPT !.fn = IF Kind[keys[1]] = "schannels" THEN NoFn ELSE @]]
<1>0. Len(keys) = 1 /\ Named(keys) = {keys[1]} BY OneKey
<1>1. \E f : F(f)
  <2> DEFINE g == [i \in 0..1 |-> IF i = 0 THEN c0 ELSE c1(c0)]
  <2>1. F(g)
    BY <1>0
  <2> QED BY <2>1, Zenon
<1>2. PICK c : c = CHOOSE f : F(f) OBVIOUS
<1>3. F(c)
  <2> HIDE DEF F
  <2> QED BY <1>1, <1>2, Zenon
<1>4. res = [k \in DOMAIN dict \cup Named(keys) |->
           IF k \in Named(keys)
           THEN c[CHOOSE i \in 1..Len(keys) : keys[i] = k]
           ELSE dict[k]]
    <2>1. SubscribeCallbacks(keys, id) = [k \in DOMAIN dict \cup Named(keys) |->
           IF k \in Named(keys)
           THEN (CHOOSE f : F(f))[CHOOSE i \in 1..Len(keys) : keys[i] = k]
           ELSE dict[k]]
      BY Zenon DEF SubscribeCallbacks
    <2> HIDE DEF F
    <2> QED BY <1>2, <2>1
<1>5. c[1] = c1(c[0]) /\ c[0] = c0
  <2>1. c[0] = c0 BY <1>3, <1>0
  <2>2. 1 \in 0..Len(keys) /\ 1 # 0 /\ 1 - 1 = 0 BY <1>0
  <2>3. c[1] = c1(c[1 - 1]) BY <1>3, <2>2, Zenon
  <2> HIDE DEF c1, c0, F
  <2> QED BY <2>1, <2>2, <2>3
<1>6. (CHOOSE i \in 1..Len(keys) : keys[i] = keys[1]) = 1 BY <1>0
<1>7. res[keys[1]] = c1(c0)
  <2> HIDE DEF c1, c0, F
  <2>1. res[keys[1]] = c[CHOOSE i \in 1..Len(keys) : keys[i] = keys[1]] BY <1>4, <1>0
  <2> QED BY <2>1, <1>5, <1>6
<1>8. DOMAIN res = DOMAIN dict \cup {keys[1]}
                 /\ \A k \in DOMAIN dict : k # keys[1] => res[k] = dict[k]
   <2> HIDE DEF c1, c0, F
   <2> QED BY <1>4, <1>0
<1>q. QED BY <1>7, <1>8 DEF GivenEntry

\* A callback shifted from ac->replies is given the reply ...
LEMMA RunEffect ==
  ASSUME NEW cb, NEW m, cb.t = "regular",
         Becomes(RunCallback([Context EXCEPT !.replies = Tail(@)], cb, m))
  PROVE  /\ replies' = Tail(replies)
         /\ calls' = [calls EXCEPT ![cb.id] = Append(@, Given(m))]
         /\ UNCHANGED <<dict, pending_unsubs, SUBSCRIBED, subReplies>>
         /\ last' = NoDelivery
  BY DEF Becomes, RunCallback, Context

\* ... and so is one shifted from ac->sub.replies.
LEMMA RunEffectSub ==
  ASSUME NEW cb, NEW m, cb.t = "regular",
         Becomes(RunCallback([Context EXCEPT !.subReplies = Tail(@)], cb, m))
  PROVE  /\ subReplies' = Tail(subReplies)
         /\ calls' = [calls EXCEPT ![cb.id] = Append(@, Given(m))]
         /\ UNCHANGED <<dict, pending_unsubs, SUBSCRIBED, replies>>
         /\ last' = NoDelivery
  BY DEF Becomes, RunCallback, Context

\* A published message changes nothing in the context.
LEMMA MessageEffect ==
  ASSUME NEW m, m.t = "message", m.key \in DOMAIN dict,
         Becomes(valkeyGetSubscribeCallback(Context, m))
  PROVE  /\ UNCHANGED <<dict, pending_unsubs, SUBSCRIBED, replies, subReplies, calls>>
         /\ last' = [t |-> m.t, key |-> m.key, fn |-> dict[m.key].fn]
  BY DEF Becomes, valkeyGetSubscribeCallback, Context

\* A subscribe message is one that is no longer pending.
LEMMA SubscribeEffect ==
  ASSUME NEW m, m.t = "subscribe", m.key \in DOMAIN dict,
         Becomes(valkeyGetSubscribeCallback(Context, m))
  PROVE  /\ UNCHANGED <<pending_unsubs, SUBSCRIBED, replies, subReplies, calls>>
         /\ dict' = [dict EXCEPT ![m.key].pending_subs = @ - 1, ![m.key].subscribed = TRUE]
         /\ last' = [t |-> m.t, key |-> m.key, fn |-> dict[m.key].fn]
  BY DEF Becomes, valkeyGetSubscribeCallback, Context

\* An unsubscribe message removes the entry unless subscribes are pending; the
\* one that counts zero and leaves no entry ends subscribed mode.
LEMMA UnsubscribeEffect ==
  ASSUME NEW m, m.t = "unsubscribe", m.key \in DOMAIN dict,
         Becomes(valkeyGetSubscribeCallback(Context, m)), pending_unsubs = 0
  PROVE  /\ UNCHANGED <<pending_unsubs, calls>>
         /\ dict' = IF dict[m.key].pending_subs = 0 THEN Without(dict, m.key) ELSE dict
         /\ IF m.n = 0 /\ DOMAIN dict' = {}
            THEN SUBSCRIBED' = FALSE /\ replies' = replies \o subReplies /\ subReplies' = <<>>
            ELSE UNCHANGED <<SUBSCRIBED, replies, subReplies>>
         /\ last' = [t |-> m.t, key |-> m.key, fn |-> dict[m.key].fn]
<1> DEFINE rec == [t |-> m.t, key |-> m.key, fn |-> dict[m.key].fn]
           d2 == IF dict[m.key].pending_subs = 0 THEN Without(dict, m.key) ELSE dict
<1>1. PICK x : x = [Context EXCEPT !.last = rec, !.dict = d2]
  OBVIOUS
<1>2. /\ x.dict = d2 /\ x.last = rec /\ x.pending_unsubs = 0
      /\ x.SUBSCRIBED = SUBSCRIBED /\ x.replies = replies
      /\ x.subReplies = subReplies /\ x.calls = calls
      /\ x = [dict |-> d2, pending_unsubs |-> pending_unsubs,
              SUBSCRIBED |-> SUBSCRIBED, replies |-> replies,
              subReplies |-> subReplies, calls |-> calls, last |-> rec]
  BY <1>1 DEF Context
<1>3. valkeyGetSubscribeCallback(Context, m) = RevertMode(x, m)
  <2>1. CASE dict[m.key].pending_subs = 0
    BY <1>1, <2>1 DEF valkeyGetSubscribeCallback, Context
  <2>2. CASE dict[m.key].pending_subs # 0
    <3>1. x = [Context EXCEPT !.last = rec]
      <4>1. [Context EXCEPT !.last = rec]
              = [dict |-> dict, pending_unsubs |-> pending_unsubs,
                 SUBSCRIBED |-> SUBSCRIBED, replies |-> replies,
                 subReplies |-> subReplies, calls |-> calls, last |-> rec]
        BY DEF Context
      <4>2. d2 = dict
        BY <2>2
      <4>q. QED BY <1>2, <4>1, <4>2
    <3>2. Context.dict = dict
      BY DEF Context
    <3>3. PICK t : t = [Context EXCEPT !.last = [t |-> m.t, key |-> m.key,
                     fn |-> IF m.key \in DOMAIN Context.dict
                            THEN Context.dict[m.key].fn ELSE NoFn]]
      OBVIOUS
    <3>4. t = x
      BY <3>1, <3>2, <3>3
    <3>5. valkeyGetSubscribeCallback(Context, m)
            = RevertMode(IF m.key \notin DOMAIN Context.dict
                         THEN [t EXCEPT !.pending_unsubs = @ - 1]
                         ELSE IF Context.dict[m.key].pending_subs = 0
                         THEN [t EXCEPT !.dict = Without(@, m.key)]
                         ELSE t, m)
      BY <3>3 DEF valkeyGetSubscribeCallback
    <3>q. QED BY <2>2, <3>2, <3>4, <3>5
  <2>q. QED BY <2>1, <2>2
<1>4. PICK y : y = RevertMode(x, m)
  OBVIOUS
<1> HIDE DEF rec, d2
<1>5. CASE m.n = 0 /\ DOMAIN d2 = {}
  <2>0. m.n = 0 /\ DOMAIN x.dict = {} /\ x.pending_unsubs = 0
    BY <1>2, <1>5
  <2>1. y = [x EXCEPT !.SUBSCRIBED = FALSE, !.replies = @ \o x.subReplies,
                      !.subReplies = <<>>]
    BY <1>4, <2>0, SMTT(30) DEF RevertMode
  <2>2. Becomes(y)
    BY <1>3, <1>4
  <2>3. /\ y.SUBSCRIBED = FALSE /\ y.replies = replies \o subReplies /\ y.subReplies = <<>>
        /\ y.dict = d2 /\ y.last = rec /\ y.pending_unsubs = pending_unsubs /\ y.calls = calls
    BY <1>2, <2>1
  <2>4. /\ UNCHANGED <<pending_unsubs, calls>> /\ dict' = d2 /\ last' = rec
        /\ SUBSCRIBED' = FALSE /\ replies' = replies \o subReplies /\ subReplies' = <<>>
    BY <2>2, <2>3 DEF Becomes
  <2>q. QED BY <1>5, <2>4 DEF rec, d2
<1>6. CASE ~(m.n = 0 /\ DOMAIN d2 = {})
  <2>1. y = x
    BY <1>2, <1>4, <1>6 DEF RevertMode
  <2>2. Becomes(x)
    BY <1>3, <1>4, <2>1
  <2>3. UNCHANGED <<pending_unsubs, calls, SUBSCRIBED, replies, subReplies>>
        /\ dict' = d2 /\ last' = rec
    BY <1>2, <2>2 DEF Becomes
  <2>q. QED BY <1>6, <2>3 DEF rec, d2
<1>q. QED BY <1>5, <1>6

\* A reply in subscribed mode goes to the first callback of ac->sub.replies.
LEMMA ShiftEffect ==
  ASSUME NEW m, NEW S, subReplies \in Seq(S), subReplies # <<>>,
         \A i \in DOMAIN subReplies : subReplies[i].t = "regular",
         Becomes(ShiftSubReplies(Context, m))
  PROVE  /\ subReplies' = Tail(subReplies)
         /\ calls' = [calls EXCEPT ![subReplies[1].id] = Append(@, Given(m))]
         /\ UNCHANGED <<dict, pending_unsubs, SUBSCRIBED, replies>>
         /\ last' = NoDelivery
<1> DEFINE regular == {i \in DOMAIN subReplies : subReplies[i].t = "regular"}
<1>1. DOMAIN subReplies = 1..Len(subReplies) /\ Len(subReplies) \in Nat \ {0}
  BY LenProperties, EmptySeq
<1>2. regular = 1..Len(subReplies) /\ regular # {}
  BY <1>1
<1>3. (CHOOSE i \in regular : \A j \in regular : i <= j) = 1
  BY <1>1, <1>2
<1>4. Tail(subReplies) = SubSeq(subReplies, 1 + 1, Len(subReplies))
  BY TailIsSubSeq
<1> HIDE DEF regular
<1>5. PICK y : y = [Context EXCEPT !.subReplies = SubSeq(subReplies, 1 + 1, Len(subReplies)),
                                   !.calls[subReplies[1].id] = Append(@, Given(m))]
  OBVIOUS
<1>6. Context.subReplies = subReplies
  BY SMTT(30) DEF Context
<1>7. ShiftSubReplies(Context, m) = y
  BY <1>2, <1>3, <1>5, <1>6 DEF ShiftSubReplies, regular
<1>8. Becomes(y)
  BY <1>7
<1>q. QED BY <1>4, <1>5, <1>8 DEF Becomes, Context

-----------------------------------------------------------------------------
(* The inductive invariant. *)

\* What the server sends and what it is sent, the waiting callbacks and the
\* entries.
Item ==
    [t : {"reply"}, id : Nat] \cup [t : {"error"}, id : Nat, kind : ErrorKinds]
    \cup [t : {"subscribe"}, key : Keys, n : Nat]
    \cup [t : {"unsubscribe"}, key : Keys, kind : Kinds, n : Nat]
    \cup [t : {"message"}, key : Keys]
Cmd ==
    [t : {"regular"}, id : Nat]
    \cup [t : {"subscribe", "unsubscribe"}, id : Nat, keys : [1..1 -> Keys]]
    \cup [t : {"unsubscribe_all"}, id : Nat, kind : Kinds]
Callback == [t : {"regular"}, id : Nat]
Entry(n) ==
    [fn : 0..n, pending_subs : 0..n, unsubscribe_sent : BOOLEAN, subscribed : BOOLEAN]

\* Types of what is under way.
Types ==
    /\ sock \in Seq(Item) /\ wire \in Seq(Cmd)
    /\ replies \in Seq(Callback) /\ subReplies \in Seq(Callback)
    /\ IsFiniteSet(srv)

\* The callbacks that wait are those that have not been called.
Expecting(c, r, u) ==
    \A a : (InQueue(r, a) \/ InQueue(u, a)) <=> (a \in DOMAIN c /\ c[a] = <<>>)

\* What holds while the context lives.
Flow ==
    /\ Types
    /\ SUBSCRIBED = (DOMAIN dict # {})
    /\ pending_unsubs = 0
    /\ Chan(dict, srv, sock, wire, wanted)
    /\ Regs(sock, wire, replies, subReplies, issued)
    /\ Mixed(srv, sock, wire, replies)
    /\ subReplies # <<>> => DOMAIN dict # {}
    /\ Expecting(calls, replies, subReplies)

\* What holds until and after it goes: the types, what callbacks were given, and
\* that each entry holds a function given for its channel.
Base ==
    /\ case \in Cases
    /\ issued \in Nat
    /\ TypeOK
    /\ mode # "abort"
    /\ RegularGetsOwnReply
    /\ MessageToSubscriber
    /\ DOMAIN dict \subseteq case.keys
    /\ \A k \in DOMAIN dict : <<k, dict[k].fn>> \in subs
    /\ DOMAIN calls \subseteq 1..issued
    /\ ~Alive => \A i \in DOMAIN calls : calls[i] # <<>>

\* The invariant.
IInv == Plain => Base /\ (Alive => Flow)

\* What arrives is either a push or an answer.
LEMMA ItemFacts ==
  ASSUME NEW m \in Item
  PROVE  /\ m.t \in {"reply", "error", "subscribe", "unsubscribe", "message"}
         /\ IsPush(m) <=> ~Answer(m)
         /\ IsPush(m) <=> m.t \in {"subscribe", "unsubscribe", "message"}
         /\ Answer(m) <=> m.t \in {"reply", "error"}
<1>1. m.t \in {"reply", "error", "subscribe", "unsubscribe", "message"}
  BY DEF Item
<1>q. QED BY <1>1 DEF IsPush, Answer

\* What is sent is one of four kinds.
LEMMA CmdFacts ==
  ASSUME NEW c \in Cmd
  PROVE  /\ c.t \in CmdKinds
         /\ c.t \in {"subscribe", "unsubscribe"} => c.keys \in [1..1 -> Keys]
         /\ c.t = "unsubscribe_all" => c.kind \in Kinds
         /\ c.id \in Nat
  BY DEF Cmd, CmdKinds

\* The arguments of a command, when there is one.
LEMMA Arguments ==
  ASSUME Plain, case \in Cases, NEW keys \in ArgLists
  PROVE  /\ keys \in [1..1 -> Keys] /\ keys[1] \in case.keys /\ keys[1] \in Keys
         /\ Kind[keys[1]] # "schannels"
         /\ Len(keys) = 1 /\ Named(keys) = {keys[1]}
<1>1. PICK n \in 1..MaxArgs : keys \in [1..n -> case.keys]
  BY DEF ArgLists
<1>2. n = 1
  BY <1>1 DEF Plain
<1>3. case.keys \subseteq Keys
  BY PubSubConstants DEF CaseType
<1>4. keys \in [1..1 -> Keys] /\ keys[1] \in case.keys
  BY <1>1, <1>2, <1>3
<1>q. QED BY <1>3, <1>4, OneKey DEF Plain

\* An entry stays one when more commands have been issued.
LEMMA EntryLonger ==
  ASSUME NEW n \in Nat, NEW x \in Entry(n)
  PROVE  x \in Entry(n + 1)
<1>1. 0..n \subseteq 0..(n + 1)
  OBVIOUS
<1>q. QED BY <1>1 DEF Entry

\* Base survives the issue of a command.
LEMMA BaseIssued ==
  ASSUME Base, Accept, UNCHANGED <<mode, case, last>>,
         SUBSCRIBED' \in BOOLEAN, pending_unsubs' = 0,
         subs \subseteq subs', DOMAIN dict' \subseteq case.keys,
         \A x \in DOMAIN dict' : dict'[x] \in Entry(issued + 1) /\ <<x, dict'[x].fn>> \in subs',
         \/ calls' = calls
         \/ /\ DOMAIN calls' = DOMAIN calls \cup {issued + 1}
            /\ calls'[issued + 1] = <<>>
            /\ \A i \in DOMAIN calls : calls'[i] = calls[i]
  PROVE  Base' /\ issued' = issued + 1 /\ Alive /\ Alive'
<1>1. /\ issued \in Nat /\ issued' = issued + 1 /\ issued' \in Nat
      /\ mode = "open" /\ mode' = "open"
  BY DEF Base, Accept
<1>2. Alive /\ Alive'
  BY <1>1 DEF Alive
<1>3. case' = case /\ case.keys \subseteq Keys
  BY PubSubConstants DEF Base, CaseType
<1>4. TypeOK'
  <2>1. mode' \in Modes
    BY <1>1 DEF Modes
  <2>2. pending_unsubs' \in Int
    OBVIOUS
  <2>3. \A x \in DOMAIN dict' : dict'[x] \in [fn : 0..issued', pending_subs : 0..issued',
                                              unsubscribe_sent : BOOLEAN, subscribed : BOOLEAN]
    BY <1>1 DEF Entry
  <2>q. QED BY <1>3, <2>1, <2>2, <2>3 DEF TypeOK
<1>5. RegularGetsOwnReply'
  <2>1. \A i \in DOMAIN calls' :
            (i \in DOMAIN calls /\ calls'[i] = calls[i]) \/ calls'[i] = <<>>
    OBVIOUS
  <2>2. \A i \in DOMAIN calls : calls[i] \in {<<>>, <<i>>, <<NullReply>>}
    BY DEF Base, RegularGetsOwnReply
  <2>3. \A i \in DOMAIN calls' : calls'[i] \in {<<>>, <<i>>, <<NullReply>>}
    BY <2>1, <2>2
  <2>q. QED BY <2>3 DEF RegularGetsOwnReply
<1>6. MessageToSubscriber'
  BY DEF Base, MessageToSubscriber
<1>7. DOMAIN calls' \subseteq 1..issued'
  <2>1. 1..issued \subseteq 1..(issued + 1) /\ issued + 1 \in 1..(issued + 1)
    BY <1>1
  <2>q. QED BY <1>1, <2>1 DEF Base
<1>q. QED BY <1>1, <1>2, <1>3, <1>4, <1>5, <1>6, <1>7 DEF Base

\* An entry stays an entry when the next command is issued.
LEMMA Entries ==
  ASSUME Base, NEW x \in DOMAIN dict
  PROVE  dict[x] \in Entry(issued) /\ dict[x] \in Entry(issued + 1) /\ issued \in Nat
<1>1. issued \in Nat
  BY DEF Base
<1>2. dict[x] \in Entry(issued)
  BY DEF Base, TypeOK, Entry
<1>q. QED BY <1>1, <1>2, EntryLonger

\* SUBSCRIBE and PSUBSCRIBE keep the invariant.
LEMMA SubscribeStep ==
  ASSUME Plain, Base, Flow, NEW keys \in ArgLists, Subscribe(keys)
  PROVE  Base' /\ Flow'
<1>1. /\ keys \in [1..1 -> Keys] /\ keys[1] \in case.keys
      /\ Kind[keys[1]] # "schannels" /\ Named(keys) = {keys[1]}
  BY Arguments DEF Base
<1>2. PICK k : k = keys[1]
  OBVIOUS
<1>3. PICK e : e = [t |-> "subscribe", id |-> issued + 1, keys |-> keys]
  OBVIOUS
<1>4. /\ Accept /\ UNCHANGED <<mode, case, last>> /\ calls' = calls
      /\ SUBSCRIBED' = TRUE /\ pending_unsubs' = 0
      /\ wire' = Append(wire, e)
      /\ wanted' = wanted \cup {k}
      /\ subs' = subs \cup ({k} \X {issued + 1})
      /\ replies' = replies /\ subReplies' = subReplies /\ srv' = srv /\ sock' = sock
      /\ dict' = SubscribeCallbacks(keys, issued + 1)
  BY <1>1, <1>2, <1>3 DEF Subscribe, Send, Flow
<1>5. /\ DOMAIN dict' = DOMAIN dict \cup {k}
      /\ \A x \in DOMAIN dict : x # k => dict'[x] = dict[x]
      /\ dict'[k] = IF k \in DOMAIN dict
                    THEN [fn |-> dict[k].fn, pending_subs |-> dict[k].pending_subs + 1,
                          unsubscribe_sent |-> FALSE, subscribed |-> dict[k].subscribed]
                    ELSE [fn |-> issued + 1, pending_subs |-> 1, unsubscribe_sent |-> FALSE,
                          subscribed |-> FALSE]
  <2>1. PICK d2 : d2 = dict'
    OBVIOUS
  <2>2. PICK id : id = issued + 1
    OBVIOUS
  <2>3. d2 = SubscribeCallbacks(keys, id)
    BY <1>4, <2>1, <2>2
  <2>4. GivenEntry(dict, d2, keys[1], id)
    BY <1>1, <2>3, SubscribeCallbacksIs
  <2>q. QED BY <1>2, <2>1, <2>2, <2>4 DEF GivenEntry
<1>6. issued \in Nat
  BY DEF Base
<1>7. dict'[k] \in Entry(issued + 1) /\ <<k, dict'[k].fn>> \in subs'
  <2>1. CASE k \in DOMAIN dict
    <3>1. dict[k] \in Entry(issued) /\ <<k, dict[k].fn>> \in subs
      BY <2>1, Entries DEF Base
    <3>2. dict[k].fn \in 0..(issued + 1) /\ dict[k].pending_subs + 1 \in 0..(issued + 1)
          /\ dict[k].subscribed \in BOOLEAN
      BY <1>6, <3>1 DEF Entry
    <3>3. dict'[k] = [fn |-> dict[k].fn, pending_subs |-> dict[k].pending_subs + 1,
                      unsubscribe_sent |-> FALSE, subscribed |-> dict[k].subscribed]
      BY <1>5, <2>1
    <3>4. dict'[k] \in Entry(issued + 1)
      BY <3>2, <3>3 DEF Entry
    <3>5. dict'[k].fn = dict[k].fn
      BY <3>3
    <3>q. QED BY <1>4, <3>1, <3>4, <3>5
  <2>2. CASE k \notin DOMAIN dict
    <3>1. dict'[k] = [fn |-> issued + 1, pending_subs |-> 1, unsubscribe_sent |-> FALSE,
                      subscribed |-> FALSE]
      BY <1>5, <2>2
    <3>2. issued + 1 \in 0..(issued + 1) /\ 1 \in 0..(issued + 1)
      BY <1>6
    <3>3. dict'[k] \in Entry(issued + 1)
      BY <3>1, <3>2 DEF Entry
    <3>4. dict'[k].fn = issued + 1
      BY <3>1
    <3>q. QED BY <1>4, <3>3, <3>4
  <2>q. QED BY <2>1, <2>2
<1>8. Base' /\ issued' = issued + 1
  <2>1. ASSUME NEW x \in DOMAIN dict'
        PROVE  dict'[x] \in Entry(issued + 1) /\ <<x, dict'[x].fn>> \in subs'
    <3>1. CASE x = k
      BY <1>7, <3>1
    <3>2. CASE x # k
      <4>1. x \in DOMAIN dict /\ dict'[x] = dict[x]
        BY <1>5, <3>2
      <4>q. QED BY <1>4, <4>1, Entries DEF Base
    <3>q. QED BY <3>1, <3>2
  <2>2. DOMAIN dict' \subseteq case.keys
    BY <1>1, <1>2, <1>5 DEF Base
  <2>3. subs \subseteq subs' /\ SUBSCRIBED' \in BOOLEAN
    BY <1>4
  <2>q. QED BY <1>4, <2>1, <2>2, <2>3, BaseIssued
<1>9. wire' \in Seq(Cmd) /\ Appends(wire, wire', e)
  <2>1. e \in Cmd
    BY <1>1, <1>3, <1>6 DEF Cmd
  <2>q. QED BY <1>4, <2>1, AppendAppends DEF Flow, Types
<1>10. Len(sock) \in Nat
  BY LenProperties DEF Flow, Types
<1>11. SubCmd(e, k) /\ e.id = issued + 1 /\ e.t # "regular"
  BY <1>2, <1>3 DEF SubCmd
<1>12. Chan(dict', srv', sock', wire', wanted')
  <2>1. dict'[k].unsubscribe_sent = FALSE
    BY <1>5
  <2>2. dict'[k].pending_subs = IF k \in DOMAIN dict THEN dict[k].pending_subs + 1 ELSE 1
    BY <1>5
  <2>3. Chan(dict, srv, sock, wire, wanted)
    BY DEF Flow
  <2>4. Chan(dict', srv, sock, wire', wanted \cup {k})
    BY <1>5, <1>9, <1>10, <1>11, <2>1, <2>2, <2>3, ChanSubscribed
  <2>q. QED BY <1>4, <2>4
<1>13. Regs(sock', wire', replies', subReplies', issued')
  <2>1. Regs(sock, wire', replies, subReplies, issued + 1)
    BY <1>9, <1>10, <1>11, RegsIssued DEF Flow
  <2>q. QED BY <1>4, <1>8, <2>1
<1>14. Mixed(srv', sock', wire', replies')
  <2>1. Mixed(srv, sock, wire', replies)
    BY <1>9, <1>11, MixedIssued DEF Flow
  <2>q. QED BY <1>4, <2>1
<1>15. SUBSCRIBED' = (DOMAIN dict' # {})
  BY <1>4, <1>5
<1>16. Types'
  BY <1>4, <1>9 DEF Flow, Types
<1>17. subReplies' # <<>> => DOMAIN dict' # {}
  BY <1>5
<1>18. Expecting(calls', replies', subReplies')
  BY <1>4 DEF Flow
<1>q. QED BY <1>4, <1>8, <1>12, <1>13, <1>14, <1>15, <1>16, <1>17, <1>18 DEF Flow

\* What the two kinds of unsubscribe have in common: entries are marked, nothing
\* else changes in the context.
LEMMA UnsubscribeMarks ==
  ASSUME Base, Flow, Accept, NEW marked, NEW e \in Cmd, e.id = issued + 1,
         e.t \in {"unsubscribe", "unsubscribe_all"},
         e.t = "unsubscribe" => e.keys[1] \in wanted,
         e.t = "unsubscribe_all" => \E x \in wanted : Kind[x] = e.kind,
         dict' = [k \in DOMAIN dict |->
                     IF k \in marked THEN [dict[k] EXCEPT !.unsubscribe_sent = TRUE]
                                     ELSE dict[k]],
         pending_unsubs' = pending_unsubs, wire' = Append(wire, e),
         wanted' \subseteq wanted, \A x \in wanted' : x \notin marked /\ ~UnsubCmd(e, x),
         UNCHANGED <<mode, SUBSCRIBED, replies, subReplies, srv, sock, published, case,
                     subs, calls, last>>
  PROVE  Base' /\ Flow'
<1>1. /\ UNCHANGED <<mode, case, last>> /\ calls' = calls /\ SUBSCRIBED' = SUBSCRIBED
      /\ replies' = replies /\ subReplies' = subReplies /\ srv' = srv /\ sock' = sock
      /\ subs' = subs /\ pending_unsubs' = 0
  BY DEF Flow
<1>2. DOMAIN dict' = DOMAIN dict
  OBVIOUS
<1>3. ASSUME NEW x \in DOMAIN dict
      PROVE  /\ dict'[x] \in Entry(issued + 1)
             /\ dict'[x].fn = dict[x].fn
             /\ dict'[x].pending_subs = dict[x].pending_subs
             /\ x \notin marked => dict'[x] = dict[x]
  <2>1. dict[x] \in Entry(issued + 1)
    BY Entries
  <2>2. PICK y : y = dict[x]
    OBVIOUS
  <2>3. PICK z : z = [y EXCEPT !.unsubscribe_sent = TRUE]
    OBVIOUS
  <2>4. z \in Entry(issued + 1) /\ z.fn = y.fn /\ z.pending_subs = y.pending_subs
    BY <2>1, <2>2, <2>3 DEF Entry
  <2>5. dict'[x] = IF x \in marked THEN z ELSE y
    BY <2>2, <2>3
  <2>q. QED BY <2>1, <2>2, <2>4, <2>5
<1>4. Base' /\ issued' = issued + 1
  <2>1. ASSUME NEW x \in DOMAIN dict'
        PROVE  dict'[x] \in Entry(issued + 1) /\ <<x, dict'[x].fn>> \in subs'
    <3>1. x \in DOMAIN dict
      BY <1>2
    <3>q. QED BY <1>1, <1>3, <3>1 DEF Base
  <2>2. DOMAIN dict' \subseteq case.keys
    BY <1>2 DEF Base
  <2>3. subs \subseteq subs' /\ SUBSCRIBED' \in BOOLEAN
    BY <1>1 DEF Base, TypeOK
  <2>q. QED BY <1>1, <2>1, <2>2, <2>3, BaseIssued
<1>5. wire' \in Seq(Cmd) /\ Appends(wire, wire', e)
  BY AppendAppends DEF Flow, Types
<1>6. Len(sock) \in Nat
  BY LenProperties DEF Flow, Types
<1>7. Chan(dict', srv', sock', wire', wanted')
  <2>1. \A x \in DOMAIN dict : dict'[x].pending_subs = dict[x].pending_subs
    BY <1>3
  <2>2. \A x \in wanted' : dict'[x].unsubscribe_sent = FALSE /\ ~UnsubCmd(e, x)
    <3> SUFFICES ASSUME NEW x \in wanted' PROVE dict'[x].unsubscribe_sent = FALSE
      OBVIOUS
    <3>1. x \in DOMAIN dict /\ dict[x].unsubscribe_sent = FALSE /\ x \notin marked
      BY DEF Flow, Chan, Owned, Unmarked
    <3>q. QED BY <1>3, <3>1
  <2>3. Chan(dict, srv, sock, wire, wanted)
        /\ e.t \in {"regular", "unsubscribe", "unsubscribe_all"}
    BY DEF Flow
  <2>4. Chan(dict', srv, sock, wire', wanted')
    BY <1>2, <1>5, <2>1, <2>2, <2>3, ChanSent
  <2>q. QED BY <1>1, <2>4
<1>8. Regs(sock', wire', replies', subReplies', issued')
  <2>1. Regs(sock, wire', replies, subReplies, issued + 1)
    BY <1>5, <1>6, RegsIssued DEF Flow
  <2>q. QED BY <1>1, <1>4, <2>1
<1>9. Mixed(srv', sock', wire', replies')
  <2>1. Mixed(srv, sock, wire', replies)
    BY <1>5, MixedIssued DEF Flow
  <2>q. QED BY <1>1, <2>1
<1>10. SUBSCRIBED' = (DOMAIN dict' # {})
  BY <1>1, <1>2 DEF Flow
<1>11. Types'
  BY <1>1, <1>5 DEF Flow, Types
<1>12. subReplies' # <<>> => DOMAIN dict' # {}
  BY <1>1, <1>2 DEF Flow
<1>13. Expecting(calls', replies', subReplies')
  BY <1>1 DEF Flow
<1>q. QED BY <1>1, <1>4, <1>7, <1>8, <1>9, <1>10, <1>11, <1>12, <1>13 DEF Flow

\* UNSUBSCRIBE and PUNSUBSCRIBE with an argument keep the invariant ...
LEMMA UnsubscribeStep ==
  ASSUME Plain, Base, Flow, NEW keys \in ArgLists, Unsubscribe(keys)
  PROVE  Base' /\ Flow'
<1>1. keys \in [1..1 -> Keys] /\ Named(keys) = {keys[1]}
  BY Arguments DEF Base
<1>2. PICK k : k = keys[1]
  OBVIOUS
<1>3. PICK e : e = [t |-> "unsubscribe", id |-> issued + 1, keys |-> keys]
  OBVIOUS
<1>4. k \in wanted
  BY <1>1, <1>2 DEF Plain, Unsubscribe
<1>5. k \in DOMAIN dict /\ dict[k].unsubscribe_sent = FALSE
  BY <1>4 DEF Flow, Chan, Owned, Unmarked
<1>6. {x \in Named(keys) \cap DOMAIN dict : ~dict[x].unsubscribe_sent} = {k}
  BY <1>1, <1>2, <1>5
<1>7. Cardinality(Named(keys) \ {k}) = 0
  <2>1. Named(keys) \ {k} = {}
    BY <1>1, <1>2
  <2>q. QED BY <2>1, FS_EmptySet
<1>8. PICK marked : marked = {k}
  OBVIOUS
<1>9. dict' = [x \in DOMAIN dict |->
                 IF x \in marked THEN [dict[x] EXCEPT !.unsubscribe_sent = TRUE] ELSE dict[x]]
  BY <1>6, <1>8 DEF Unsubscribe
<1>10. pending_unsubs' = pending_unsubs
  <2>1. pending_unsubs' = pending_unsubs + Cardinality(Named(keys) \ {k})
    BY <1>6 DEF Unsubscribe
  <2>q. QED BY <1>7, <2>1 DEF Flow
<1>11. wire' = Append(wire, e)
  BY <1>3 DEF Unsubscribe, Send
<1>12. wanted' = wanted \ {k}
  BY <1>1, <1>2 DEF Unsubscribe
<1>13. e \in Cmd /\ e.id = issued + 1 /\ e.t = "unsubscribe" /\ e.keys[1] = k
  BY <1>1, <1>2, <1>3 DEF Cmd, Base
<1>14. \A x \in wanted' : x \notin marked /\ ~UnsubCmd(e, x)
  BY <1>8, <1>12, <1>13 DEF UnsubCmd
<1>15. Accept /\ UNCHANGED <<mode, SUBSCRIBED, replies, subReplies, srv, sock, published, case,
                             subs, calls, last>>
  BY DEF Unsubscribe
<1>q. QED BY <1>4, <1>9, <1>10, <1>11, <1>12, <1>13, <1>14, <1>15, UnsubscribeMarks

\* ... and so they do without one.
LEMMA UnsubscribeAllStep ==
  ASSUME Plain, Base, Flow, NEW kind \in Kinds, UnsubscribeAll(kind)
  PROVE  Base' /\ Flow'
<1>1. PICK marked : marked = {k \in DOMAIN dict : Kind[k] = kind /\ ~dict[k].unsubscribe_sent}
  OBVIOUS
<1>2. PICK e : e = [t |-> "unsubscribe_all", id |-> issued + 1, kind |-> kind]
  OBVIOUS
<1>3. PICK k \in wanted : Kind[k] = kind
  BY DEF Plain, UnsubscribeAll
<1>4. k \in DOMAIN dict /\ dict[k].unsubscribe_sent = FALSE
  BY <1>3 DEF Flow, Chan, Owned, Unmarked
<1>5. marked # {}
  BY <1>1, <1>3, <1>4
<1>6. dict' = [x \in DOMAIN dict |->
                 IF x \in marked THEN [dict[x] EXCEPT !.unsubscribe_sent = TRUE] ELSE dict[x]]
  BY <1>1 DEF UnsubscribeAll
<1>7. pending_unsubs' = pending_unsubs
  BY <1>1, <1>5 DEF UnsubscribeAll, Flow
<1>8. wire' = Append(wire, e)
  BY <1>2 DEF UnsubscribeAll, Send
<1>9. wanted' = {x \in wanted : Kind[x] # kind}
  BY DEF UnsubscribeAll
<1>10. e \in Cmd /\ e.id = issued + 1 /\ e.t = "unsubscribe_all" /\ e.kind = kind
  BY <1>2 DEF Cmd, Base
<1>11. \A x \in wanted' : x \notin marked /\ ~UnsubCmd(e, x)
  BY <1>1, <1>9, <1>10 DEF UnsubCmd
<1>12. Accept /\ UNCHANGED <<mode, SUBSCRIBED, replies, subReplies, srv, sock, published, case,
                             subs, calls, last>>
  BY DEF UnsubscribeAll
<1>13. wanted' \subseteq wanted /\ \E x \in wanted : Kind[x] = e.kind
  BY <1>3, <1>9, <1>10
<1>q. QED BY <1>6, <1>7, <1>8, <1>10, <1>11, <1>12, <1>13, UnsubscribeMarks

\* Any other command keeps the invariant: its callback goes to the list that
\* SUBSCRIBED chooses.
LEMMA RegularStep ==
  ASSUME Base, Flow, Regular
  PROVE  Base' /\ Flow'
<1>1. PICK cb : cb = [t |-> "regular", id |-> issued + 1]
  OBVIOUS
<1>2. /\ Accept /\ UNCHANGED <<mode, case, last>> /\ SUBSCRIBED' = SUBSCRIBED /\ dict' = dict
      /\ pending_unsubs' = 0 /\ srv' = srv /\ sock' = sock /\ wanted' = wanted /\ subs' = subs
      /\ wire' = Append(wire, cb)
      /\ IF SUBSCRIBED THEN subReplies' = Append(subReplies, cb) /\ replies' = replies
                       ELSE replies' = Append(replies, cb) /\ subReplies' = subReplies
  BY <1>1 DEF Regular, Send, Flow
<1>3. calls' = [i \in DOMAIN calls \cup {issued + 1} |->
                  IF i \in DOMAIN calls THEN calls[i] ELSE <<>>]
  BY DEF Regular
<1>4. issued \in Nat /\ issued + 1 \notin DOMAIN calls
  BY DEF Base
<1>5. /\ DOMAIN calls' = DOMAIN calls \cup {issued + 1}
      /\ calls'[issued + 1] = <<>>
      /\ \A i \in DOMAIN calls : calls'[i] = calls[i]
  BY <1>3, <1>4
<1>6. Base' /\ issued' = issued + 1
  <2>1. \A x \in DOMAIN dict' : dict'[x] \in Entry(issued + 1) /\ <<x, dict'[x].fn>> \in subs'
    BY <1>2, Entries DEF Base
  <2>2. DOMAIN dict' \subseteq case.keys
    BY <1>2 DEF Base
  <2>3. subs \subseteq subs' /\ SUBSCRIBED' \in BOOLEAN
    BY <1>2 DEF Base, TypeOK
  <2>q. QED BY <1>2, <1>5, <2>1, <2>2, <2>3, BaseIssued
<1>7. cb \in Cmd /\ cb \in Callback /\ cb.id = issued + 1 /\ cb.t = "regular"
  BY <1>1, <1>4 DEF Cmd, Callback
<1>8. wire' \in Seq(Cmd) /\ Appends(wire, wire', cb)
  BY <1>2, <1>7, AppendAppends DEF Flow, Types
<1>9. Len(sock) \in Nat /\ Len(replies) \in Nat
  BY LenProperties DEF Flow, Types
<1>10. Chan(dict', srv', sock', wire', wanted')
  <2>1. \A x \in wanted : dict[x].unsubscribe_sent = FALSE /\ ~UnsubCmd(cb, x)
    BY <1>7 DEF Flow, Chan, Unmarked, UnsubCmd
  <2>2. Chan(dict, srv, sock, wire, wanted)
        /\ cb.t \in {"regular", "unsubscribe", "unsubscribe_all"}
    BY <1>7 DEF Flow
  <2>3. Chan(dict, srv, sock, wire', wanted)
    BY <1>7, <1>8, <2>1, <2>2, ChanSent
  <2>q. QED BY <1>2, <2>3
<1>11. SUBSCRIBED' = (DOMAIN dict' # {})
  BY <1>2 DEF Flow
<1>12. CASE SUBSCRIBED
  <2>1. subReplies' = Append(subReplies, cb) /\ replies' = replies
    BY <1>2, <1>12
  <2>2. subReplies' \in Seq(Callback) /\ Appends(subReplies, subReplies', cb)
    BY <1>7, <2>1, AppendAppends DEF Flow, Types
  <2>3. Regs(sock', wire', replies', subReplies', issued')
    <3>1. Regs(sock, wire', replies, subReplies', issued + 1)
      BY <1>7, <1>8, <1>9, <2>2, RegsQueuedSub DEF Flow
    <3>q. QED BY <1>2, <1>6, <2>1, <3>1
  <2>4. Mixed(srv', sock', wire', replies')
    <3>1. Mixed(srv, sock, wire', replies)
      BY <1>7, <1>8, MixedIssued DEF Flow
    <3>q. QED BY <1>2, <2>1, <3>1
  <2>5. Types'
    BY <1>2, <1>8, <2>1, <2>2 DEF Flow, Types
  <2>6. DOMAIN dict' # {}
    BY <1>2, <1>12 DEF Flow
  <2>7. Expecting(calls', replies', subReplies')
    <3>1. \A a : InQueue(subReplies', a) <=> InQueue(subReplies, a) \/ a = issued + 1
      BY <1>7, <2>2, InQueueAppended
    <3>2. \A a : (a \in DOMAIN calls' /\ calls'[a] = <<>>)
                   <=> (a \in DOMAIN calls /\ calls[a] = <<>>) \/ a = issued + 1
      BY <1>4, <1>5
    <3>q. QED BY <2>1, <3>1, <3>2 DEF Flow, Expecting
  <2>q. QED BY <1>2, <1>6, <1>10, <1>11, <2>3, <2>4, <2>5, <2>6, <2>7 DEF Flow
<1>13. CASE ~SUBSCRIBED
  <2>1. replies' = Append(replies, cb) /\ subReplies' = subReplies
    BY <1>2, <1>13
  <2>2. replies' \in Seq(Callback) /\ Appends(replies, replies', cb)
    BY <1>7, <2>1, AppendAppends DEF Flow, Types
  <2>3. DOMAIN dict = {} /\ subReplies = <<>> /\ Len(subReplies) = 0
    BY <1>13 DEF Flow
  <2>4. Regs(sock', wire', replies', subReplies', issued')
    <3>1. Regs(sock, wire', replies', subReplies, issued + 1)
      BY <1>7, <1>8, <1>9, <2>2, <2>3, RegsQueued DEF Flow
    <3>q. QED BY <1>2, <1>6, <2>1, <3>1
  <2>5. Mixed(srv', sock', wire', replies')
    <3>1. \A p \in 1..Len(wire') : wire'[p].t \in CmdKinds
      BY <1>8, CmdFacts, ElementOfSeq
    <3>2. Calm(srv', sock', wire')
      BY <1>2, <1>10, <2>3, <3>1, CalmWhenEmpty
    <3>q. QED BY <3>2, MixedCalm
  <2>6. Types'
    BY <1>2, <1>8, <2>1, <2>2 DEF Flow, Types
  <2>7. subReplies' = <<>>
    BY <2>1, <2>3
  <2>8. Expecting(calls', replies', subReplies')
    <3>1. \A a : InQueue(replies', a) <=> InQueue(replies, a) \/ a = issued + 1
      BY <1>7, <2>2, InQueueAppended
    <3>2. \A a : (a \in DOMAIN calls' /\ calls'[a] = <<>>)
                   <=> (a \in DOMAIN calls /\ calls[a] = <<>>) \/ a = issued + 1
      BY <1>4, <1>5
    <3>q. QED BY <2>1, <3>1, <3>2 DEF Flow, Expecting
  <2>q. QED BY <1>2, <1>6, <1>10, <1>11, <2>4, <2>5, <2>6, <2>7, <2>8 DEF Flow
<1>q. QED BY <1>12, <1>13

\* A concatenation, position by position.
LEMMA ConcatExtends ==
  ASSUME NEW S, NEW q \in Seq(S), NEW f \in Seq(S)
  PROVE  /\ q \o f \in Seq(S) /\ Extends(q, q \o f)
         /\ Len(q \o f) = Len(q) + Len(f)
         /\ \A i \in (Len(q) + 1)..Len(q \o f) :
               i - Len(q) \in 1..Len(f) /\ (q \o f)[i] = f[i - Len(q)]
         /\ \A i \in 1..Len(f) : (q \o f)[Len(q) + i] = f[i]
<1>1. PICK c : c = q \o f
  OBVIOUS
<1>2. /\ c \in Seq(S)
      /\ Len(c) = Len(q) + Len(f)
      /\ \A i \in 1..(Len(q) + Len(f)) : c[i] = IF i <= Len(q) THEN q[i] ELSE f[i - Len(q)]
  BY <1>1, ConcatProperties
<1>3. Len(q) \in Nat /\ Len(f) \in Nat
  BY LenProperties
<1>4. Extends(q, c)
  BY <1>2, <1>3 DEF Extends
<1>5. \A i \in (Len(q) + 1)..Len(c) : i - Len(q) \in 1..Len(f) /\ c[i] = f[i - Len(q)]
  BY <1>2, <1>3
<1>6. \A i \in 1..Len(f) : c[Len(q) + i] = f[i]
  <2> SUFFICES ASSUME NEW i \in 1..Len(f) PROVE c[Len(q) + i] = f[i]
    OBVIOUS
  <2>1. Len(q) + i \in (Len(q) + 1)..Len(c) /\ (Len(q) + i) - Len(q) = i
    BY <1>2, <1>3
  <2>q. QED BY <1>5, <2>1
<1>q. QED BY <1>1, <1>2, <1>4, <1>5, <1>6

\* The number in an (un)subscribe reply is zero when nothing is subscribed.
LEMMA CountFacts ==
  ASSUME NEW S, IsFiniteSet(S), NEW kind
  PROVE  Count(S, kind) \in Nat /\ (Count(S, kind) # 0 => S # {})
<1>1. PICK T : T = {k \in S : (Kind[k] = "schannels") = (kind = "schannels")}
  OBVIOUS
<1>2. T \in SUBSET S
  BY <1>1
<1>3. IsFiniteSet(T) /\ Cardinality(T) \in Nat /\ (Cardinality(T) = 0 <=> T = {})
  BY <1>2, FS_Subset, FS_CardinalityType, FS_EmptySet
<1>q. QED BY <1>1, <1>2, <1>3 DEF Count

\* The messages f say that the channels of v are left, in this order, until v2
\* is what remains.
LeftInOrder(v, v2, order, f) ==
    /\ \A i \in 1..Len(f) : order[i] \in v
    /\ \A i, j \in 1..Len(f) : i # j => order[i] # order[j]
    /\ \A x : x \in v2 <=> (x \in v /\ \A j \in 1..Len(f) : order[j] # x)
    /\ \A i \in 1..Len(f) : f[i].t = "unsubscribe"
    /\ \A i \in 1..Len(f) : f[i].key = order[i]
    /\ \A i \in 1..Len(f) : f[i].n # 0 => \E x \in v : \A j \in 1..i : order[j] # x

\* c is q with f after it.
Follows(q, f, c) ==
    /\ c \in Seq(Item)
    /\ Extends(q, c)
    /\ Len(q) \in Nat /\ Len(f) \in Nat /\ Len(c) = Len(q) + Len(f)
    /\ \A i \in (Len(q) + 1)..Len(c) : i - Len(q) \in 1..Len(f) /\ c[i] = f[i - Len(q)]
    /\ \A i \in 1..Len(f) : c[Len(q) + i] = f[i]

\* A concatenation is such a sequence.
LEMMA ConcatFollows ==
  ASSUME NEW q \in Seq(Item), NEW f \in Seq(Item), NEW c, c = q \o f
  PROVE  Follows(q, f, c)
<1>1. PICK e : e = q \o f
  OBVIOUS
<1>2. /\ e \in Seq(Item) /\ Extends(q, e)
      /\ Len(e) = Len(q) + Len(f)
      /\ \A i \in (Len(q) + 1)..Len(e) : i - Len(q) \in 1..Len(f) /\ e[i] = f[i - Len(q)]
      /\ \A i \in 1..Len(f) : e[Len(q) + i] = f[i]
  BY <1>1, ConcatExtends
<1>3. Len(q) \in Nat /\ Len(f) \in Nat
  BY LenProperties
<1>4. Follows(q, f, e)
  BY <1>2, <1>3 DEF Follows
<1>q. QED BY <1>1, <1>4

\* What such messages add to what is underway.
LEMMA LeavingInOrder ==
  ASSUME NEW v, NEW v2, NEW q, NEW f, NEW order,
         LeftInOrder(v, v2, order, f), NEW c, Follows(q, f, c)
  PROVE  Leaving(v, v2, q, c) /\ c \in Seq(Item)
         /\ \A i \in (Len(q) + 1)..Len(c) : ~Answer(c[i])
<1>a. \A i \in 1..Len(f) : order[i] \in v
  BY DEF LeftInOrder
<1>b. \A i, j \in 1..Len(f) : i # j => order[i] # order[j]
  BY DEF LeftInOrder
<1>c. \A x : x \in v2 <=> (x \in v /\ \A j \in 1..Len(f) : order[j] # x)
  BY DEF LeftInOrder
<1>d. \A i \in 1..Len(f) : f[i].t = "unsubscribe"
  BY DEF LeftInOrder
<1>e. \A i \in 1..Len(f) : f[i].key = order[i]
  BY DEF LeftInOrder
<1>f. \A i \in 1..Len(f) : f[i].n # 0 => \E x \in v : \A j \in 1..i : order[j] # x
  BY DEF LeftInOrder
<1>2. /\ c \in Seq(Item)
      /\ Extends(q, c)
      /\ Len(c) = Len(q) + Len(f)
      /\ \A i \in (Len(q) + 1)..Len(c) : i - Len(q) \in 1..Len(f) /\ c[i] = f[i - Len(q)]
      /\ \A i \in 1..Len(f) : c[Len(q) + i] = f[i]
  BY DEF Follows
<1>3. Len(q) \in Nat /\ Len(f) \in Nat
  BY DEF Follows
<1>4. \A i \in (Len(q) + 1)..Len(c) : c[i].t = "unsubscribe" /\ c[i].key = order[i - Len(q)]
  <2> SUFFICES ASSUME NEW i \in (Len(q) + 1)..Len(c)
               PROVE  c[i].t = "unsubscribe" /\ c[i].key = order[i - Len(q)]
    OBVIOUS
  <2>1. PICK j : j = i - Len(q)
    OBVIOUS
  <2>2. j \in 1..Len(f) /\ c[i] = f[j]
    BY <1>2, <2>1
  <2>3. f[j].t = "unsubscribe" /\ f[j].key = order[j]
    BY <1>d, <1>e, <2>2
  <2>q. QED BY <2>1, <2>2, <2>3
<1>5. \A i \in (Len(q) + 1)..Len(c) : c[i].key \in v /\ c[i].key \notin v2
  BY <1>a, <1>c, <1>2, <1>4
<1>6. \A i, l \in (Len(q) + 1)..Len(c) : i < l => c[i].key # c[l].key
  <2> SUFFICES ASSUME NEW i \in (Len(q) + 1)..Len(c), NEW l \in (Len(q) + 1)..Len(c), i < l
               PROVE  c[i].key # c[l].key
    OBVIOUS
  <2>1. i - Len(q) # l - Len(q)
    BY <1>3
  <2>q. QED BY <1>b, <1>2, <1>4, <2>1
<1>7. \A k \in v \ v2 : \E i \in (Len(q) + 1)..Len(c) : c[i].key = k
  <2> SUFFICES ASSUME NEW k \in v \ v2
               PROVE  \E i \in (Len(q) + 1)..Len(c) : c[i].key = k
    OBVIOUS
  <2>1. PICK j \in 1..Len(f) : order[j] = k
    BY <1>c
  <2>2. f[j].key = k
    BY <1>e, <2>1
  <2>3. Len(q) + j \in (Len(q) + 1)..Len(c)
    BY <1>2, <1>3
  <2>4. c[Len(q) + j].key = k
    BY <1>2, <2>2
  <2>q. QED BY <2>3, <2>4
<1>8. ASSUME NEW i \in (Len(q) + 1)..Len(c), c[i].n # 0
      PROVE  \E k \in v : \A l \in (Len(q) + 1)..i : c[l].key # k
  <2>1. i - Len(q) \in 1..Len(f) /\ f[i - Len(q)].n # 0
    BY <1>2, <1>8
  <2>4. PICK n : n = i - Len(q)
    OBVIOUS
  <2>5. n \in 1..Len(f) /\ f[n].n # 0
    BY <2>1, <2>4
  <2>6. PICK k \in v : \A j \in 1..n : order[j] # k
    BY <1>f, <2>5
  <2>2. \A j \in 1..(i - Len(q)) : order[j] # k
    BY <2>4, <2>6
  <2>3. ASSUME NEW l \in (Len(q) + 1)..i
        PROVE  c[l].key # k
    <3>1. l \in (Len(q) + 1)..Len(c) /\ l - Len(q) \in 1..(i - Len(q))
      BY <1>3
    <3>q. QED BY <1>4, <2>2, <3>1
  <2>q. QED BY <2>2, <2>3
<1>9. \A i \in (Len(q) + 1)..Len(c) : ~Answer(c[i])
  BY <1>4 DEF Answer
<1>10. v2 \subseteq v
  BY <1>c
<1>11. Leaving(v, v2, q, c)
  BY <1>2, <1>4, <1>5, <1>6, <1>7, <1>8, <1>10 DEF Leaving
<1>q. QED BY <1>2, <1>9, <1>11

\* What the server's steps leave alone.
LEMMA BaseServed ==
  ASSUME Base, UNCHANGED <<ctxVars, issued, case, histVars>>
  PROVE  Base' /\ (Alive' <=> Alive)
  BY DEF Base, ctxVars, histVars, TypeOK, RegularGetsOwnReply, MessageToSubscriber, Alive, Modes

\* What the server's steps have to show.
LEMMA FlowServed ==
  ASSUME Base, Flow, UNCHANGED <<ctxVars, issued, case, histVars>>,
         sock' \in Seq(Item), wire' \in Seq(Cmd), IsFiniteSet(srv'),
         Chan(dict, srv', sock', wire', wanted),
         Regs(sock', wire', replies, subReplies, issued),
         Mixed(srv', sock', wire', replies)
  PROVE  Base' /\ Flow'
<1>1. /\ dict' = dict /\ SUBSCRIBED' = SUBSCRIBED /\ replies' = replies
      /\ subReplies' = subReplies /\ pending_unsubs' = pending_unsubs /\ wanted' = wanted
      /\ issued' = issued /\ calls' = calls
  BY DEF ctxVars, histVars
<1>2. Base'
  BY BaseServed
<1>3. Types' /\ SUBSCRIBED' = (DOMAIN dict' # {}) /\ pending_unsubs' = 0
  BY <1>1 DEF Flow, Types
<1>4. Chan(dict', srv', sock', wire', wanted') /\ Mixed(srv', sock', wire', replies')
  BY <1>1
<1>5. Regs(sock', wire', replies', subReplies', issued')
  BY <1>1
<1>6. (subReplies' # <<>> => DOMAIN dict' # {}) /\ Expecting(calls', replies', subReplies')
  BY <1>1 DEF Flow
<1>q. QED BY <1>2, <1>3, <1>4, <1>5, <1>6 DEF Flow

\* The server answers a regular command, with a reply or an error.
LEMMA ServerAnswers ==
  ASSUME Base, Flow, UNCHANGED <<ctxVars, issued, case, histVars>>,
         wire # <<>>, wire' = Tail(wire), srv' = srv,
         wire[1].t = "regular", NEW m \in Item, Answer(m), m.id = wire[1].id,
         sock' = Append(sock, m)
  PROVE  Base' /\ Flow'
<1>1. sock' \in Seq(Item) /\ Appends(sock, sock', m)
  BY AppendAppends DEF Flow, Types
<1>2. wire' \in Seq(Cmd) /\ Drops(wire, wire')
  BY TailDrops DEF Flow, Types
<1>3. Len(sock) \in Nat /\ Len(sock') \in Nat
  BY <1>1, LenProperties DEF Flow, Types
<1>4. Chan(dict, srv', sock', wire', wanted)
  <2>1. Chan(dict, srv, sock, wire', wanted)
    BY <1>2, <1>3, ChanExecuted DEF Flow
  <2>2. Chan(dict, srv, sock', wire', wanted)
    BY <1>1, <2>1, ItemFacts, ChanArrived
  <2>q. QED BY <2>2
<1>5. Regs(sock', wire', replies, subReplies, issued)
  BY <1>1, <1>2, RegsAnswered DEF Flow
<1>6. Mixed(srv', sock', wire', replies)
  <2>1. Mixed(srv, sock, wire', replies)
    BY <1>2, MixedExecuted DEF Flow
  <2>2. Extends(sock, sock') /\ \A i \in (Len(sock) + 1)..Len(sock') : ~IsPush(sock'[i])
    <3>1. ~IsPush(m)
      BY ItemFacts
    <3>2. \A i \in (Len(sock) + 1)..Len(sock') : i = Len(sock) + 1
      BY <1>1, <1>3 DEF Appends
    <3>q. QED BY <1>1, <3>1, <3>2 DEF Appends
  <2>3. Mixed(srv, sock', wire', replies)
    BY <2>1, <2>2, MixedArrived
  <2>q. QED BY <2>3
<1>7. IsFiniteSet(srv')
  BY DEF Flow, Types
<1>q. QED BY <1>1, <1>2, <1>4, <1>5, <1>6, <1>7, FlowServed

\* The server executes a subscribe.
LEMMA ServerJoins ==
  ASSUME Base, Flow, UNCHANGED <<ctxVars, issued, case, histVars>>,
         wire # <<>>, wire' = Tail(wire), NEW k, SubCmd(wire[1], k), srv' = srv \cup {k},
         NEW m \in Item, SubItem(m, k), sock' \in Seq(Item), Appends(sock, sock', m)
  PROVE  Base' /\ Flow'
<1>1. wire' \in Seq(Cmd) /\ Drops(wire, wire')
  BY TailDrops DEF Flow, Types
<1>2. Len(sock) \in Nat /\ Len(sock') \in Nat
  BY LenProperties DEF Flow, Types
<1>3. /\ Extends(sock, sock')
      /\ \A i \in (Len(sock) + 1)..Len(sock') : ~Answer(sock'[i])
  <2>1. ~Answer(m)
    BY DEF SubItem, Answer
  <2>2. \A i \in (Len(sock) + 1)..Len(sock') : i = Len(sock) + 1
    BY <1>2 DEF Appends
  <2>q. QED BY <2>1, <2>2 DEF Appends
<1>4. wire[1].t # "regular"
  BY DEF SubCmd
<1>5. Chan(dict, srv', sock', wire', wanted)
  BY <1>1, ChanJoined DEF Flow
<1>6. Regs(sock', wire', replies, subReplies, issued)
  BY <1>1, <1>3, <1>4, RegsServed DEF Flow
<1>7. Mixed(srv', sock', wire', replies)
  <2>1. \A a \in 1..Len(replies) : InSock(sock, replies[a].id)
    BY <1>1, <1>4, RepliesAnswered DEF Flow
  <2>2. Mixed(srv, sock, wire', replies)
    BY <1>1, MixedExecuted DEF Flow
  <2>q. QED BY <1>3, <2>1, <2>2, MixedArrived
<1>8. IsFiniteSet(srv')
  BY FS_AddElement DEF Flow, Types
<1>q. QED BY <1>1, <1>5, <1>6, <1>7, <1>8, FlowServed

\* The server executes an unsubscribe.
LEMMA ServerLeaves ==
  ASSUME Base, Flow, UNCHANGED <<ctxVars, issued, case, histVars>>,
         wire # <<>>, wire' = Tail(wire),
         wire[1].t \in {"unsubscribe", "unsubscribe_all"},
         \A k \in srv : ~UnsubCmd(wire[1], k) => k \in srv',
         sock' \in Seq(Item), Leaving(srv, srv', sock, sock'),
         \A i \in (Len(sock) + 1)..Len(sock') : ~Answer(sock'[i])
  PROVE  Base' /\ Flow'
<1>1. wire' \in Seq(Cmd) /\ Drops(wire, wire')
  BY TailDrops DEF Flow, Types
<1>2. Extends(sock, sock')
  BY DEF Leaving
<1>3. Chan(dict, srv', sock', wire', wanted)
  BY <1>1, ChanLeft DEF Flow
<1>4. Regs(sock', wire', replies, subReplies, issued)
  <2>1. wire[1].t # "regular"
    OBVIOUS
  <2>q. QED BY <1>1, <1>2, <2>1, RegsServed DEF Flow
<1>5. Mixed(srv', sock', wire', replies)
  <2>1. \A a \in 1..Len(replies) : InSock(sock, replies[a].id)
    BY <1>1, RepliesAnswered DEF Flow
  <2>2. Mixed(srv, sock, wire', replies)
    BY <1>1, MixedExecuted DEF Flow
  <2>q. QED BY <1>2, <2>1, <2>2, MixedArrived
<1>6. IsFiniteSet(srv')
  BY FS_Subset DEF Flow, Types, Leaving
<1>q. QED BY <1>1, <1>3, <1>4, <1>5, <1>6, FlowServed

\* An order that names every member of a set once.
LEMMA OrderIsInjective ==
  ASSUME NEW S, IsFiniteSet(S), NEW order \in [1..Cardinality(S) -> S],
         {order[i] : i \in DOMAIN order} = S
  PROVE  \A i, j \in 1..Cardinality(S) : i # j => order[i] # order[j]
<1>1. PICK n : n = Cardinality(S)
  OBVIOUS
<1>2. PICK T : T = 1..n
  OBVIOUS
<1>3. IsFiniteSet(T) /\ Cardinality(T) = Cardinality(S)
  <2>1. n \in Nat
    BY <1>1, FS_CardinalityType
  <2>2. 1 \in Int /\ n \in Int /\ n - 1 + 1 = n /\ (1 > n => n = 0)
    BY <2>1
  <2>3. IsFiniteSet(1..n)
    BY <2>1, Finite
  <2>4. Cardinality(1..n) = IF 1 > n THEN 0 ELSE n - 1 + 1
    BY <2>2, FS_Interval
  <2>5. Cardinality(1..n) = n
    BY <2>2, <2>4
  <2>q. QED BY <1>1, <1>2, <2>3, <2>5
<1>4. order \in Surjection(T, S)
  <2>1. DOMAIN order = T
    BY <1>1, <1>2
  <2>2. \A s \in S : \E i \in T : order[i] = s
    BY <2>1
  <2>q. QED BY <1>1, <1>2, <2>2 DEF Surjection
<1>5. order \in Injection(T, S)
  BY <1>3, <1>4, FS_SurjSameCardinalityImpliesInj
<1>q. QED BY <1>1, <1>2, <1>5 DEF Injection, IsInjective

\* What ServerExecutes does for the next command, disjunct by disjunct.
ServerReplied(cmd) ==
    /\ cmd.t = "regular" /\ sock' = Append(sock, [t |-> "reply", id |-> cmd.id])
    /\ srv' = srv
ServerRefused(cmd) ==
    /\ \/ cmd.t = "regular"
       \/ cmd.t = "subscribe" /\ Kind[cmd.keys[1]] = "schannels"
    /\ \E kind \in case.refusals :
          sock' = Append(sock, [t |-> "error", id |-> cmd.id, kind |-> kind])
    /\ srv' = srv
ServerJoined(cmd) ==
    /\ cmd.t = "subscribe"
    /\ LET upTo(i) == srv \cup {cmd.keys[j] : j \in 1..i} IN
       /\ srv' = upTo(Len(cmd.keys))
       /\ sock' = sock \o [i \in 1..Len(cmd.keys) |->
             [t |-> "subscribe", key |-> cmd.keys[i],
              n |-> Count(upTo(i), Kind[cmd.keys[i]])]]
ServerLeft(cmd) ==
    /\ cmd.t = "unsubscribe"
    /\ LET upTo(i) == srv \ {cmd.keys[j] : j \in 1..i} IN
       /\ srv' = upTo(Len(cmd.keys))
       /\ sock' = sock \o [i \in 1..Len(cmd.keys) |->
             [t |-> "unsubscribe", key |-> cmd.keys[i], kind |-> Kind[cmd.keys[i]],
              n |-> Count(upTo(i), Kind[cmd.keys[i]])]]
ServerLeftAll(cmd) ==
    /\ cmd.t = "unsubscribe_all"
    /\ LET mine == {k \in srv : Kind[k] = cmd.kind} IN
       IF mine = {}
       THEN /\ sock' = Append(sock, [t |-> "unsubscribe", key |-> NoKey,
                                     kind |-> cmd.kind, n |-> Count(srv, cmd.kind)])
            /\ UNCHANGED srv
       ELSE \E order \in [1..Cardinality(mine) -> mine] :
            /\ {order[i] : i \in DOMAIN order} = mine
            /\ srv' = srv \ mine
            /\ sock' = sock \o [i \in 1..Cardinality(mine) |->
                  [t |-> "unsubscribe", key |-> order[i], kind |-> cmd.kind,
                   n |-> Count(srv \ {order[j] : j \in 1..i}, cmd.kind)]]

\* The server executes the next command.
LEMMA ServerStep ==
  ASSUME Plain, Base, Flow, ServerExecutes
  PROVE  Base' /\ Flow'
<1>1. PICK cmd : cmd = Head(wire)
  BY Zenon
<1>2. /\ wire # <<>> /\ wire' = Tail(wire)
      /\ UNCHANGED <<ctxVars, issued, case, histVars>>
  BY DEF ServerExecutes
<1>3. cmd = wire[1] /\ cmd \in Cmd /\ 1 \in 1..Len(wire)
  <2>1. Head(wire) = wire[1] /\ wire[1] \in Cmd /\ Len(wire) >= 1 /\ Len(wire) \in Nat
    BY <1>2, TailDrops, LenProperties DEF Flow, Types
  <2>q. QED BY <1>1, <2>1
<1>4. cmd.id \in Nat /\ IsFiniteSet(srv) /\ sock \in Seq(Item)
  BY <1>3, CmdFacts DEF Flow, Types
<1>5. srv \subseteq Keys
  <2>1. srv \subseteq DOMAIN dict
    BY DEF Flow, Chan, Owned
  <2>q. QED BY <2>1 DEF Base, TypeOK
<1>6. CASE ServerReplied(cmd)
  <2>z. /\ cmd.t = "regular" /\ sock' = Append(sock, [t |-> "reply", id |-> cmd.id])
        /\ srv' = srv
    BY <1>6 DEF ServerReplied
  <2>1. PICK m : m = [t |-> "reply", id |-> cmd.id]
    OBVIOUS
  <2>2. m \in Item /\ Answer(m) /\ m.id = cmd.id
    BY <1>4, <2>1 DEF Item, Answer
  <2>q. QED BY <1>2, <1>3, <2>z, <2>1, <2>2, ServerAnswers
<1>7. CASE ServerRefused(cmd)
  <2>z. /\ \/ cmd.t = "regular"
           \/ cmd.t = "subscribe" /\ Kind[cmd.keys[1]] = "schannels"
        /\ \E kind \in case.refusals :
              sock' = Append(sock, [t |-> "error", id |-> cmd.id, kind |-> kind])
        /\ srv' = srv
    BY <1>7 DEF ServerRefused
  <2>1. PICK kind \in case.refusals :
                 sock' = Append(sock, [t |-> "error", id |-> cmd.id, kind |-> kind])
    BY <2>z
  <2>2. cmd.t = "regular"
    <3>1. ASSUME cmd.t = "subscribe" PROVE Kind[cmd.keys[1]] # "schannels"
      <4>1. cmd.keys[1] \in DOMAIN dict
        BY <1>3, <3>1 DEF Flow, Chan, Owned
      <4>q. QED BY <4>1 DEF Base, Plain
    <3>q. QED BY <2>z, <3>1
  <2>3. kind \in ErrorKinds
    BY PubSubConstants DEF Base, CaseType
  <2>4. PICK m : m = [t |-> "error", id |-> cmd.id, kind |-> kind]
    OBVIOUS
  <2>5. m \in Item /\ Answer(m) /\ m.id = cmd.id
    BY <1>4, <2>3, <2>4 DEF Item, Answer
  <2>q. QED BY <1>2, <1>3, <2>z, <2>1, <2>2, <2>4, <2>5, ServerAnswers
<1>8. ASSUME cmd.t \in {"subscribe", "unsubscribe"}
      PROVE  cmd.keys \in [1..1 -> Keys] /\ Len(cmd.keys) = 1 /\ cmd.keys[1] \in Keys
             /\ cmd.keys[1] \in DOMAIN dict
  BY <1>3, <1>8, CmdFacts, OneKey DEF Flow, Chan, Owned
<1>9. CASE ServerJoined(cmd)
  <2>z. /\ cmd.t = "subscribe"
        /\ LET upTo(i) == srv \cup {cmd.keys[j] : j \in 1..i} IN
           /\ srv' = upTo(Len(cmd.keys))
           /\ sock' = sock \o [i \in 1..Len(cmd.keys) |->
                 [t |-> "subscribe", key |-> cmd.keys[i],
                  n |-> Count(upTo(i), Kind[cmd.keys[i]])]]
    BY <1>9 DEF ServerJoined
  <2>0. cmd.keys \in [1..1 -> Keys] /\ Len(cmd.keys) = 1 /\ cmd.keys[1] \in Keys
    BY <1>8, <2>z
  <2>1. PICK k : k = cmd.keys[1]
    OBVIOUS
  <2>2. PICK n : n = Count(srv \cup {cmd.keys[j] : j \in 1..1}, Kind[k])
    OBVIOUS
  <2>3. PICK m : m = [t |-> "subscribe", key |-> k, n |-> n]
    OBVIOUS
  <2>4. {cmd.keys[j] : j \in 1..1} = {k}
    BY <2>1
  <2>5. srv' = srv \cup {k}
    BY <2>z, <2>0, <2>4
  <2>6. PICK f : f = [i \in 1..1 |->
                    [t |-> "subscribe", key |-> cmd.keys[i],
                     n |-> Count(srv \cup {cmd.keys[j] : j \in 1..i}, Kind[cmd.keys[i]])]]
    OBVIOUS
  <2>7. sock' = sock \o f
    BY <2>z, <2>0, <2>6
  <2>8. f[1] = m /\ DOMAIN f = 1..1
    BY <2>1, <2>2, <2>3, <2>6
  <2>9. n \in Nat
    <3>1. IsFiniteSet(srv \cup {k})
      BY <1>4, FS_AddElement
    <3>q. QED BY <2>2, <2>4, <3>1, CountFacts
  <2>10. m \in Item /\ SubItem(m, k)
    BY <2>0, <2>1, <2>3, <2>9 DEF Item, SubItem
  <2>11. f \in [1..1 -> Item]
    BY <2>6, <2>8, <2>10
  <2>12. f \in Seq(Item) /\ Len(f) = 1
    BY <2>11, OneKey
  <2>13. sock' \in Seq(Item) /\ Appends(sock, sock', m)
    <3>1. /\ sock' \in Seq(Item) /\ Extends(sock, sock') /\ Len(sock') = Len(sock) + 1
          /\ sock'[Len(sock) + 1] = f[1]
      <4>1. PICK c : c = sock \o f
        OBVIOUS
      <4>2. /\ c \in Seq(Item) /\ Extends(sock, c) /\ Len(c) = Len(sock) + 1
            /\ \A i \in 1..1 : c[Len(sock) + i] = f[i]
        BY <1>4, <2>12, <4>1, ConcatExtends, SMTT(30)
      <4>q. QED BY <2>7, <4>1, <4>2
    <3>q. QED BY <2>8, <3>1 DEF Appends
  <2>14. SubCmd(wire[1], k)
    BY <1>3, <2>z, <2>1 DEF SubCmd
  <2>q. QED BY <1>2, <2>5, <2>10, <2>13, <2>14, ServerJoins
<1>10. CASE ServerLeft(cmd)
  <2>z. /\ cmd.t = "unsubscribe"
        /\ LET upTo(i) == srv \ {cmd.keys[j] : j \in 1..i} IN
           /\ srv' = upTo(Len(cmd.keys))
           /\ sock' = sock \o [i \in 1..Len(cmd.keys) |->
                 [t |-> "unsubscribe", key |-> cmd.keys[i], kind |-> Kind[cmd.keys[i]],
                  n |-> Count(upTo(i), Kind[cmd.keys[i]])]]
    BY <1>10 DEF ServerLeft
  <2>0. cmd.keys \in [1..1 -> Keys] /\ Len(cmd.keys) = 1 /\ cmd.keys[1] \in Keys
    BY <1>8, <2>z
  <2>1. PICK k : k = cmd.keys[1]
    OBVIOUS
  <2>2. PICK n : n = Count(srv \ {cmd.keys[j] : j \in 1..1}, Kind[k])
    OBVIOUS
  <2>3. PICK m : m = [t |-> "unsubscribe", key |-> k, kind |-> Kind[k], n |-> n]
    OBVIOUS
  <2>4. srv' = srv \ {cmd.keys[j] : j \in 1..1} /\ {cmd.keys[j] : j \in 1..1} = {k}
    BY <2>z, <2>0, <2>1
  <2>6. PICK f : f = [i \in 1..1 |->
                    [t |-> "unsubscribe", key |-> cmd.keys[i], kind |-> Kind[cmd.keys[i]],
                     n |-> Count(srv \ {cmd.keys[j] : j \in 1..i}, Kind[cmd.keys[i]])]]
    OBVIOUS
  <2>7. sock' = sock \o f
    BY <2>z, <2>0, <2>6
  <2>8. f[1] = m /\ DOMAIN f = 1..1
    BY <2>1, <2>2, <2>3, <2>6
  <2>9. n \in Nat /\ (n # 0 => srv \ {cmd.keys[j] : j \in 1..1} # {})
    <3>1. IsFiniteSet(srv \ {k})
      BY <1>4, FS_RemoveElement
    <3>q. QED BY <2>2, <2>4, <3>1, CountFacts
  <2>10. m \in Item /\ m.t = "unsubscribe" /\ m.key = k /\ m.n = n
    <3>1. Kind[k] \in Kinds
      BY <2>0, <2>1, PubSubConstants
    <3>q. QED BY <2>0, <2>1, <2>3, <2>9, <3>1 DEF Item
  <2>11. f \in [1..1 -> Item]
    BY <2>6, <2>8, <2>10
  <2>12. f \in Seq(Item) /\ Len(f) = 1
    BY <2>11, OneKey
  <2>13. k \in srv
    <3>1. On(wire, srv, 1, k)
      BY <1>3, <2>z, <2>1 DEF Flow, Chan, Sent
    <3>q. QED BY <3>1 DEF On
  <2>14. PICK order : order = cmd.keys
    OBVIOUS
  <2>15. LeftInOrder(srv, srv', order, f)
    <3>1. \A i \in 1..Len(f) : i = 1
      BY <2>12
    <3>2. \A i \in 1..Len(f) : order[i] \in srv
      BY <2>1, <2>13, <2>14, <3>1
    <3>3. \A i, j \in 1..Len(f) : i # j => order[i] # order[j]
      BY <3>1
    <3>4. \A x : x \in srv' <=> (x \in srv /\ \A j \in 1..Len(f) : order[j] # x)
      BY <2>4, <2>12, <2>14
    <3>5. f[1].n # 0 => \E x \in srv : \A j \in 1..1 : order[j] # x
      BY <2>8, <2>9, <2>10, <2>14
    <3>6. \A i \in 1..Len(f) : f[i].t = "unsubscribe" /\ f[i].key = order[i]
      BY <2>1, <2>8, <2>10, <2>14, <3>1
    <3>7. \A i \in 1..Len(f) : f[i].n # 0 => \E x \in srv : \A j \in 1..i : order[j] # x
      BY <3>1, <3>5
    <3>q. QED BY <3>2, <3>3, <3>4, <3>6, <3>7 DEF LeftInOrder
  <2>16. Leaving(srv, srv', sock, sock') /\ sock' \in Seq(Item)
         /\ \A i \in (Len(sock) + 1)..Len(sock') : ~Answer(sock'[i])
    <3>1. PICK q : q = sock
      OBVIOUS
    <3>2. PICK c : c = q \o f
      OBVIOUS
    <3>3. PICK v, v2 : v = srv /\ v2 = srv'
      OBVIOUS
    <3>4. q \in Seq(Item) /\ f \in Seq(Item) /\ LeftInOrder(v, v2, order, f)
      BY <1>4, <2>12, <2>15, <3>1, <3>3
    <3>5. Leaving(v, v2, q, c) /\ c \in Seq(Item)
          /\ \A i \in (Len(q) + 1)..Len(c) : ~Answer(c[i])
      <4>1. Follows(q, f, c)
        BY <3>2, <3>4, ConcatFollows
      <4>q. QED BY <3>4, <4>1, LeavingInOrder
    <3>q. QED BY <2>7, <3>1, <3>2, <3>3, <3>5
  <2>17. \A x \in srv : ~UnsubCmd(wire[1], x) => x \in srv'
    BY <1>3, <2>z, <2>1, <2>4 DEF UnsubCmd
  <2>18. wire[1].t \in {"unsubscribe", "unsubscribe_all"}
    BY <1>3, <2>z
  <2>q. QED BY <1>2, <2>16, <2>17, <2>18, ServerLeaves
<1>11. CASE ServerLeftAll(cmd)
  <2>z. /\ cmd.t = "unsubscribe_all"
        /\ LET mine == {k \in srv : Kind[k] = cmd.kind} IN
           IF mine = {}
           THEN /\ sock' = Append(sock, [t |-> "unsubscribe", key |-> NoKey,
                                         kind |-> cmd.kind, n |-> Count(srv, cmd.kind)])
                /\ UNCHANGED srv
           ELSE \E order \in [1..Cardinality(mine) -> mine] :
                /\ {order[i] : i \in DOMAIN order} = mine
                /\ srv' = srv \ mine
                /\ sock' = sock \o [i \in 1..Cardinality(mine) |->
                      [t |-> "unsubscribe", key |-> order[i], kind |-> cmd.kind,
                       n |-> Count(srv \ {order[j] : j \in 1..i}, cmd.kind)]]
    BY <1>11 DEF ServerLeftAll
  <2>1. PICK mine : mine = {k \in srv : Kind[k] = cmd.kind}
    OBVIOUS
  <2>2. mine # {}
    <3>1. PICK k \in DOMAIN dict : Kind[k] = cmd.kind /\ On(wire, srv, 1, k)
      BY <1>3, <2>z DEF Flow, Chan, Sent
    <3>2. k \in srv
      BY <3>1 DEF On
    <3>q. QED BY <2>1, <3>1, <3>2
  <2>3. PICK order \in [1..Cardinality(mine) -> mine] :
                    /\ {order[i] : i \in DOMAIN order} = mine
                    /\ srv' = srv \ mine
                    /\ sock' = sock \o [i \in 1..Cardinality(mine) |->
                          [t |-> "unsubscribe", key |-> order[i], kind |-> cmd.kind,
                           n |-> Count(srv \ {order[j] : j \in 1..i}, cmd.kind)]]
    BY <2>z, <2>1, <2>2
  <2>4. mine \in SUBSET srv /\ IsFiniteSet(mine) /\ Cardinality(mine) \in Nat
    BY <1>4, <2>1, FS_Subset, FS_CardinalityType
  <2>5. PICK N : N = Cardinality(mine)
    OBVIOUS
  <2>6. PICK f : f = [i \in 1..N |->
                          [t |-> "unsubscribe", key |-> order[i], kind |-> cmd.kind,
                           n |-> Count(srv \ {order[j] : j \in 1..i}, cmd.kind)]]
    OBVIOUS
  <2>7. sock' = sock \o f
    BY <2>3, <2>5, <2>6
  <2>8. cmd.kind \in Kinds
    BY <1>3, <2>z, CmdFacts
  <2>9. ASSUME NEW i \in 1..N
        PROVE  /\ f[i] \in Item /\ f[i].t = "unsubscribe" /\ f[i].key = order[i]
               /\ f[i].n # 0 => \E x \in srv : \A j \in 1..i : order[j] # x
    <3>1. PICK S : S = srv \ {order[j] : j \in 1..i}
      OBVIOUS
    <3>2. S \in SUBSET srv
      BY <3>1
    <3>3. IsFiniteSet(S)
      BY <1>4, <3>2, FS_Subset
    <3>4. PICK n : n = Count(S, cmd.kind)
      OBVIOUS
    <3>5. n \in Nat /\ (n # 0 => S # {})
      BY <3>3, <3>4, CountFacts
    <3>6. f[i] = [t |-> "unsubscribe", key |-> order[i], kind |-> cmd.kind, n |-> n]
      BY <2>6, <3>1, <3>4
    <3>7. order[i] \in Keys
      BY <1>5, <2>3, <2>4, <2>5
    <3>8. f[i] \in Item
      BY <2>8, <3>5, <3>6, <3>7 DEF Item
    <3>9. f[i].t = "unsubscribe" /\ f[i].key = order[i] /\ f[i].n = n
      BY <3>6
    <3>q. QED BY <3>1, <3>5, <3>8, <3>9
  <2>10. f \in Seq(Item) /\ Len(f) = N
    <3>1. N \in Nat /\ DOMAIN f = 1..N
      BY <2>4, <2>5, <2>6
    <3>2. f \in [1..N -> Item]
      BY <2>6, <2>9
    <3>3. f \in Seq(Item)
      BY <3>1, <3>2, SeqDef
    <3>q. QED BY <3>1, <3>3, LenProperties
  <2>11. \A i, j \in 1..Len(f) : i # j => order[i] # order[j]
    BY <2>3, <2>4, <2>5, <2>10, OrderIsInjective
  <2>12. \A x : x \in srv' <=> (x \in srv /\ \A j \in 1..Len(f) : order[j] # x)
    <3>1. DOMAIN order = 1..Len(f)
      BY <2>3, <2>5, <2>10
    <3>q. QED BY <2>3, <3>1
  <2>13. \A i \in 1..Len(f) : order[i] \in srv
    BY <2>3, <2>4, <2>5, <2>10
  <2>14. \A i \in 1..Len(f) : /\ f[i].t = "unsubscribe"
                              /\ f[i].key = order[i]
                              /\ f[i].n # 0 => \E x \in srv : \A j \in 1..i : order[j] # x
    BY <2>9, <2>10
  <2>15. Leaving(srv, srv', sock, sock') /\ sock' \in Seq(Item)
         /\ \A i \in (Len(sock) + 1)..Len(sock') : ~Answer(sock'[i])
    <3>1. PICK q : q = sock
      OBVIOUS
    <3>2. PICK c : c = q \o f
      OBVIOUS
    <3>3. PICK v, v2 : v = srv /\ v2 = srv'
      OBVIOUS
    <3>4. LeftInOrder(srv, srv', order, f)
      BY <2>11, <2>12, <2>13, <2>14 DEF LeftInOrder
    <3>5. q \in Seq(Item) /\ f \in Seq(Item) /\ LeftInOrder(v, v2, order, f)
      BY <1>4, <2>10, <3>1, <3>3, <3>4
    <3>6. Leaving(v, v2, q, c) /\ c \in Seq(Item)
          /\ \A i \in (Len(q) + 1)..Len(c) : ~Answer(c[i])
      <4>1. Follows(q, f, c)
        BY <3>2, <3>5, ConcatFollows
      <4>q. QED BY <3>5, <4>1, LeavingInOrder
    <3>q. QED BY <2>7, <3>1, <3>2, <3>3, <3>6
  <2>16. \A x \in srv : ~UnsubCmd(wire[1], x) => x \in srv'
    BY <1>3, <2>z, <2>1, <2>3 DEF UnsubCmd
  <2>17. wire[1].t \in {"unsubscribe", "unsubscribe_all"}
    BY <1>3, <2>z
  <2>q. QED BY <1>2, <2>15, <2>16, <2>17, ServerLeaves, ZenonT(40)
<1>12. \/ ServerReplied(Head(wire))
       \/ ServerRefused(Head(wire))
       \/ ServerJoined(Head(wire))
       \/ ServerLeft(Head(wire))
       \/ ServerLeftAll(Head(wire))
  BY DEF ServerExecutes, ServerReplied, ServerRefused, ServerJoined, ServerLeft, ServerLeftAll
<1>q. QED BY <1>1, <1>6, <1>7, <1>9, <1>10, <1>11, <1>12

\* Somebody publishes.
LEMMA PublishStep ==
  ASSUME Base, Flow, ServerPublishes
  PROVE  Base' /\ Flow'
<1>1. PICK k \in srv : sock' = Append(sock, [t |-> "message", key |-> k])
  BY DEF ServerPublishes
<1>2. UNCHANGED <<ctxVars, issued, case, histVars>> /\ wire' = wire /\ srv' = srv
  BY DEF ServerPublishes
<1>3. PICK m : m = [t |-> "message", key |-> k]
  OBVIOUS
<1>4. k \in Keys
  <2>1. srv \subseteq DOMAIN dict
    BY DEF Flow, Chan, Owned
  <2>q. QED BY <2>1 DEF Base, TypeOK
<1>5. m \in Item /\ m.t = "message" /\ m.key = k
  BY <1>3, <1>4 DEF Item
<1>6. sock' \in Seq(Item) /\ Appends(sock, sock', m)
  BY <1>1, <1>3, <1>5, AppendAppends DEF Flow, Types
<1>7. /\ Extends(sock, sock')
      /\ \A i \in (Len(sock) + 1)..Len(sock') : ~Answer(sock'[i])
  <2>1. ~Answer(m)
    BY <1>5 DEF Answer
  <2>2. \A i \in (Len(sock) + 1)..Len(sock') : i = Len(sock) + 1
    BY <1>6 DEF Appends, Extends
  <2>q. QED BY <1>6, <2>1, <2>2 DEF Appends
<1>8. Chan(dict, srv', sock', wire', wanted)
  <2>1. Chan(dict, srv, sock', wire, wanted)
    BY <1>5, <1>6, ChanArrived DEF Flow
  <2>q. QED BY <1>2, <2>1
<1>9. Regs(sock', wire', replies, subReplies, issued)
  <2>1. Regs(sock', wire, replies, subReplies, issued)
    BY <1>7, RegsPublished DEF Flow
  <2>q. QED BY <1>2, <2>1
<1>10. Mixed(srv', sock', wire', replies)
  <2>1. \A a \in 1..Len(replies) : InSock(sock, replies[a].id)
    BY DEF Flow, Mixed
  <2>2. Mixed(srv, sock, wire, replies)
    BY DEF Flow
  <2>3. Mixed(srv, sock', wire, replies)
    BY <1>7, <2>1, <2>2, MixedArrived
  <2>q. QED BY <1>2, <2>3
<1>11. IsFiniteSet(srv') /\ wire' \in Seq(Cmd)
  BY <1>2 DEF Flow, Types
<1>q. QED BY <1>2, <1>6, <1>8, <1>9, <1>10, <1>11, FlowServed

-----------------------------------------------------------------------------
(* Replies and messages are processed: valkeyProcessCallbacks. *)

\* A step that gives callbacks their replies, in an entry's place at most a
\* changed one, and reports a message to nobody but its subscriber.
LEMMA BaseMoved ==
  ASSUME Base, UNCHANGED <<issued, case, subs>>,
         mode' \in Modes \ {"abort"}, pending_unsubs' \in Int, SUBSCRIBED' \in BOOLEAN,
         DOMAIN dict' \subseteq DOMAIN dict,
         \A x \in DOMAIN dict' : dict'[x] \in Entry(issued) /\ dict'[x].fn = dict[x].fn,
         \/ last' = last
         \/ last'.t = "none"
         \/ <<last'.key, last'.fn>> \in subs,
         DOMAIN calls' = DOMAIN calls,
         \A i \in DOMAIN calls :
             \/ calls'[i] = calls[i]
             \/ calls[i] = <<>> /\ calls'[i] \in {<<i>>, <<NullReply>>},
         Alive' \/ \A i \in DOMAIN calls' : calls'[i] # <<>>
  PROVE  Base'
<1>1. issued' = issued /\ case' = case /\ subs' = subs /\ issued \in Nat
  BY DEF Base
<1>2. TypeOK'
  <2>1. DOMAIN dict' \subseteq Keys
    BY DEF Base, TypeOK
  <2>2. \A x \in DOMAIN dict' : dict'[x] \in [fn : 0..issued', pending_subs : 0..issued',
                                              unsubscribe_sent : BOOLEAN, subscribed : BOOLEAN]
    BY <1>1 DEF Entry
  <2>3. mode' \in Modes
    OBVIOUS
  <2>q. QED BY <2>1, <2>2, <2>3 DEF TypeOK
<1>3. RegularGetsOwnReply'
  <2>1. \A i \in DOMAIN calls : calls[i] \in {<<>>, <<i>>, <<NullReply>>}
    BY DEF Base, RegularGetsOwnReply
  <2>2. \A i \in DOMAIN calls' : calls'[i] \in {<<>>, <<i>>, <<NullReply>>}
    BY <2>1
  <2>q. QED BY <2>2 DEF RegularGetsOwnReply
<1>4. MessageToSubscriber'
  <2>1. MessageToSubscriber
    BY DEF Base
  <2>q. QED BY <1>1, <2>1 DEF MessageToSubscriber
<1>5. DOMAIN dict' \subseteq case.keys
  BY DEF Base
<1>6. \A x \in DOMAIN dict' : <<x, dict'[x].fn>> \in subs
  <2>1. \A x \in DOMAIN dict : <<x, dict[x].fn>> \in subs
    BY DEF Base
  <2>2. \A x \in DOMAIN dict' : x \in DOMAIN dict /\ dict'[x].fn = dict[x].fn
    OBVIOUS
  <2>q. QED BY <2>1, <2>2
<1>7. case \in Cases /\ DOMAIN calls \subseteq 1..issued
  BY DEF Base
<1>q. QED BY <1>1, <1>2, <1>3, <1>4, <1>5, <1>6, <1>7 DEF Base

\* A callback of ac->replies that was given its reply waits no more, and no other
\* is concerned.
LEMMA ExpectingReplied ==
  ASSUME NEW c, NEW c2, NEW q, NEW w, NEW r, NEW r2, NEW u, NEW n,
         Expecting(c, r, u), Regs(q, w, r, u, n), Drops(r, r2),
         DOMAIN c2 = DOMAIN c, c2[r[1].id] # <<>>,
         \A i \in DOMAIN c : i # r[1].id => c2[i] = c[i]
  PROVE  Expecting(c2, r2, u)
<1>1. \A a : InQueue(r, a) <=> InQueue(r2, a) \/ r[1].id = a
  BY InQueueDropped
<1>2. Queued(r, u, n)
  BY DEF Regs
<1>3. /\ Len(r) \in Nat /\ Len(r2) \in Nat /\ Len(r) = Len(r2) + 1
      /\ \A i \in 1..Len(r2) : r2[i] = r[i + 1]
  BY DEF Drops
<1>4. ~InQueue(r2, r[1].id)
  <2> SUFFICES ASSUME NEW p \in 1..Len(r2), r2[p].id = r[1].id PROVE FALSE
    BY DEF InQueue
  <2>1. 1 \in 1..Len(r) /\ p + 1 \in 1..Len(r) /\ 1 < p + 1
    BY <1>3
  <2>2. r[1].id < r[p + 1].id
    BY <1>2, <2>1 DEF Queued
  <2>3. r[1].id \in 1..n /\ r[p + 1].id \in 1..n
    BY <1>2, <2>1 DEF Queued
  <2>q. QED BY <1>3, <2>2, <2>3
<1>5. ~InQueue(u, r[1].id)
  <2> SUFFICES ASSUME NEW p \in 1..Len(u), u[p].id = r[1].id PROVE FALSE
    BY DEF InQueue
  <2>1. 1 \in 1..Len(r)
    BY <1>3
  <2>2. r[1].id < u[p].id
    BY <1>2, <2>1 DEF Queued
  <2>3. r[1].id \in 1..n
    BY <1>2, <2>1 DEF Queued
  <2>q. QED BY <2>2, <2>3
<1>6. \A a : (InQueue(r, a) \/ InQueue(u, a)) <=> (a \in DOMAIN c /\ c[a] = <<>>)
  BY DEF Expecting
<1>7. ASSUME NEW a
      PROVE  (InQueue(r2, a) \/ InQueue(u, a)) <=> (a \in DOMAIN c2 /\ c2[a] = <<>>)
  <2>1. CASE a = r[1].id
    BY <1>4, <1>5, <2>1
  <2>2. CASE a # r[1].id
    <3>1. a \in DOMAIN c => c2[a] = c[a]
      BY <2>2
    <3>q. QED BY <1>1, <1>6, <2>2, <3>1
  <2>q. QED BY <2>1, <2>2
<1>q. QED BY <1>7 DEF Expecting

\* The same for ac->sub.replies.
LEMMA ExpectingRepliedSub ==
  ASSUME NEW c, NEW c2, NEW q, NEW w, NEW r, NEW u, NEW u2, NEW n,
         Expecting(c, r, u), Regs(q, w, r, u, n), Len(r) = 0, Drops(u, u2),
         DOMAIN c2 = DOMAIN c, c2[u[1].id] # <<>>,
         \A i \in DOMAIN c : i # u[1].id => c2[i] = c[i]
  PROVE  Expecting(c2, r, u2)
<1>1. \A a : InQueue(u, a) <=> InQueue(u2, a) \/ u[1].id = a
  BY InQueueDropped
<1>2. Queued(r, u, n)
  BY DEF Regs
<1>3. /\ Len(u) \in Nat /\ Len(u2) \in Nat /\ Len(u) = Len(u2) + 1
      /\ \A i \in 1..Len(u2) : u2[i] = u[i + 1]
  BY DEF Drops
<1>4. ~InQueue(u2, u[1].id)
  <2> SUFFICES ASSUME NEW p \in 1..Len(u2), u2[p].id = u[1].id PROVE FALSE
    BY DEF InQueue
  <2>1. 1 \in 1..Len(u) /\ p + 1 \in 1..Len(u) /\ 1 < p + 1
    BY <1>3
  <2>2. u[1].id < u[p + 1].id
    BY <1>2, <2>1 DEF Queued
  <2>3. u[1].id \in 1..n /\ u[p + 1].id \in 1..n
    BY <1>2, <2>1 DEF Queued
  <2>q. QED BY <1>3, <2>2, <2>3
<1>5. \A a : ~InQueue(r, a)
  BY DEF InQueue
<1>6. \A a : (InQueue(r, a) \/ InQueue(u, a)) <=> (a \in DOMAIN c /\ c[a] = <<>>)
  BY DEF Expecting
<1>7. ASSUME NEW a
      PROVE  (InQueue(r, a) \/ InQueue(u2, a)) <=> (a \in DOMAIN c2 /\ c2[a] = <<>>)
  <2>1. CASE a = u[1].id
    BY <1>4, <1>5, <2>1
  <2>2. CASE a # u[1].id
    <3>1. a \in DOMAIN c => c2[a] = c[a]
      BY <2>2
    <3>q. QED BY <1>1, <1>5, <1>6, <2>2, <3>1
  <2>q. QED BY <2>1, <2>2
<1>q. QED BY <1>7 DEF Expecting

\* A callback that waits was not called before.
LEMMA AnsweredOnce ==
  ASSUME Base, Flow, NEW a, InQueue(replies, a) \/ InQueue(subReplies, a),
         calls' = [calls EXCEPT ![a] = Append(@, a)]
  PROVE  /\ DOMAIN calls' = DOMAIN calls /\ calls'[a] = <<a>> /\ calls[a] = <<>>
         /\ \A i \in DOMAIN calls : i # a => calls'[i] = calls[i]
<1>1. a \in DOMAIN calls /\ calls[a] = <<>>
  BY DEF Flow, Expecting
<1>2. calls'[a] = Append(<<>>, a)
  BY <1>1
<1>3. Append(<<>>, a) = <<a>>
  OBVIOUS
<1>q. QED BY <1>1, <1>2, <1>3

\* What is known when a message is processed.
LEMMA Processing ==
  ASSUME Flow, sock # <<>>, sock' = Tail(sock)
  PROVE  /\ sock' \in Seq(Item) /\ Drops(sock, sock')
         /\ Head(sock) = sock[1] /\ sock[1] \in Item
         /\ Len(sock) \in Nat /\ Len(sock) >= 1
         /\ Len(wire) \in Nat /\ Len(replies) \in Nat /\ Len(subReplies) \in Nat
         /\ replies # <<>> => Len(replies) > 0
         /\ replies = <<>> => Len(replies) = 0
         /\ subReplies # <<>> => Len(subReplies) > 0
<1>1. sock \in Seq(Item) /\ wire \in Seq(Cmd) /\ replies \in Seq(Callback)
      /\ subReplies \in Seq(Callback)
  BY DEF Flow, Types
<1>2. sock' \in Seq(Item) /\ Drops(sock, sock') /\ Head(sock) = sock[1]
      /\ Len(sock) >= 1 /\ sock[1] \in Item
  BY <1>1, TailDrops
<1>3. Len(sock) \in Nat /\ Len(wire) \in Nat /\ Len(replies) \in Nat /\ Len(subReplies) \in Nat
  BY <1>1, LenProperties
<1>4. (replies # <<>> => Len(replies) >= 1) /\ (subReplies # <<>> => Len(subReplies) >= 1)
  BY <1>1, TailDrops
<1>q. QED BY <1>2, <1>3, <1>4, EmptySeq

\* The reply to the command whose callback is the first of ac->replies.
LEMMA ReplyStep ==
  ASSUME Base, Flow, sock # <<>>, sock' = Tail(sock), replies # <<>>,
         Becomes(RunCallback([Context EXCEPT !.replies = Tail(@)], Head(replies), Head(sock))),
         UNCHANGED <<mode, wire, srv, issued, case, wanted, subs>>, Alive
  PROVE  Base' /\ Flow'
<1>1. PICK m : m = Head(sock)
  OBVIOUS
<1>2. PICK cb : cb = Head(replies)
  OBVIOUS
<1>3. /\ sock' \in Seq(Item) /\ Drops(sock, sock') /\ m = sock[1] /\ m \in Item
      /\ Len(sock) \in Nat /\ Len(sock) >= 1 /\ Len(replies) \in Nat
      /\ Len(subReplies) \in Nat /\ Len(replies) > 0
  BY <1>1, Processing
<1>4. /\ Tail(replies) \in Seq(Callback) /\ Drops(replies, Tail(replies))
      /\ cb = replies[1] /\ cb \in Callback
  BY <1>2, TailDrops DEF Flow, Types
<1>5. cb.t = "regular"
  BY <1>4 DEF Callback
<1>6. Answer(m)
  <2>1. ~IsPush(sock[1])
    BY <1>3, HeadIsAnswer DEF Flow
  <2>q. QED BY <1>3, <2>1, ItemFacts
<1>7. cb.id = m.id
  BY <1>3, <1>4, <1>6, HeadMatches DEF Flow
<1>8. /\ replies' = Tail(replies)
      /\ calls' = [calls EXCEPT ![cb.id] = Append(@, Given(m))]
      /\ UNCHANGED <<dict, pending_unsubs, SUBSCRIBED, subReplies>>
      /\ last' = NoDelivery
  BY <1>1, <1>2, <1>5, RunEffect
<1>9. Given(m) = cb.id
  BY <1>3, <1>6, <1>7, ItemFacts DEF Given
<1>10. InQueue(replies, cb.id)
  <2>1. 1 \in 1..Len(replies)
    BY <1>3
  <2>q. QED BY <1>4, <2>1 DEF InQueue
<1>11. PICK a : a = cb.id
  OBVIOUS
<1>12. /\ DOMAIN calls' = DOMAIN calls /\ calls'[a] = <<a>> /\ calls[a] = <<>>
       /\ \A i \in DOMAIN calls : i # a => calls'[i] = calls[i]
  BY <1>8, <1>9, <1>10, <1>11, AnsweredOnce
<1>13. Base'
  <2>1. \A i \in DOMAIN calls :
             \/ calls'[i] = calls[i]
             \/ calls[i] = <<>> /\ calls'[i] \in {<<i>>, <<NullReply>>}
    BY <1>12
  <2>2. \A x \in DOMAIN dict' : dict'[x] \in Entry(issued) /\ dict'[x].fn = dict[x].fn
    BY <1>8, Entries
  <2>3. Alive' /\ mode' \in Modes \ {"abort"}
    BY DEF Alive, Base, Modes
  <2>4. last'.t = "none"
    BY <1>8 DEF NoDelivery
  <2>5. pending_unsubs' \in Int /\ SUBSCRIBED' \in BOOLEAN /\ DOMAIN dict' \subseteq DOMAIN dict
    BY <1>8 DEF Base, TypeOK
  <2>q. QED BY <1>12, <2>1, <2>2, <2>3, <2>4, <2>5, BaseMoved
<1>14. Chan(dict', srv', sock', wire', wanted')
  <2>1. sock[1].t # "subscribe" /\ \A k : ~UnsubItem(sock[1], k)
    BY <1>3, <1>6 DEF Answer, UnsubItem
  <2>2. Chan(dict, srv, sock', wire, wanted)
    BY <1>3, <2>1, ChanPassed DEF Flow
  <2>q. QED BY <1>8, <2>2
<1>15. Regs(sock', wire', replies', subReplies', issued')
  <2>1. Regs(sock', wire, replies', subReplies, issued)
    BY <1>3, <1>4, <1>6, <1>7, <1>8, RegsReplied DEF Flow
  <2>q. QED BY <1>8, <2>1
<1>16. Mixed(srv', sock', wire', replies')
  <2>1. Mixed(srv, sock', wire, replies')
    BY <1>3, <1>4, <1>7, <1>8, MixedReplied DEF Flow
  <2>q. QED BY <2>1
<1>17. Expecting(calls', replies', subReplies')
  <2>1. PICK c, c2, r2 : c = calls /\ c2 = calls' /\ r2 = replies'
    OBVIOUS
  <2>2. /\ Drops(replies, r2) /\ replies[1].id = a
        /\ DOMAIN c2 = DOMAIN c /\ c2[a] # <<>>
        /\ \A i \in DOMAIN c : i # a => c2[i] = c[i]
    <3>1. <<a>> # <<>>
      OBVIOUS
    <3>2. DOMAIN c2 = DOMAIN c /\ c2[a] # <<>>
      BY <1>12, <2>1, <3>1
    <3>3. \A i \in DOMAIN c : i # a => c2[i] = c[i]
      BY <1>12, <2>1
    <3>4. Drops(replies, r2) /\ replies[1].id = a
      BY <1>4, <1>8, <1>11, <2>1
    <3>q. QED BY <3>2, <3>3, <3>4
  <2>3. Expecting(c, replies, subReplies) /\ Regs(sock, wire, replies, subReplies, issued)
    BY <2>1 DEF Flow
  <2>4. Expecting(c2, r2, subReplies)
    BY <2>2, <2>3, ExpectingReplied, ZenonT(30)
  <2>q. QED BY <1>8, <2>1, <2>4
<1>18. Types'
  BY <1>3, <1>4, <1>8 DEF Flow, Types
<1>19. SUBSCRIBED' = (DOMAIN dict' # {}) /\ pending_unsubs' = 0
       /\ (subReplies' # <<>> => DOMAIN dict' # {})
  BY <1>8 DEF Flow
<1>q. QED BY <1>13, <1>14, <1>15, <1>16, <1>17, <1>18, <1>19 DEF Flow

\* The reply to the command whose callback is the first of ac->sub.replies.
LEMMA SubReplied ==
  ASSUME Base, Flow, sock # <<>>, sock' = Tail(sock), replies = <<>>, Answer(Head(sock)),
         subReplies' = Tail(subReplies),
         calls' = [calls EXCEPT ![subReplies[1].id] = Append(@, Given(Head(sock)))],
         UNCHANGED <<dict, pending_unsubs, SUBSCRIBED, replies>>, last' = NoDelivery,
         UNCHANGED <<mode, wire, srv, issued, case, wanted, subs>>, Alive
  PROVE  Base' /\ Flow'
<1>1. PICK m : m = Head(sock)
  OBVIOUS
<1>2. PICK cb : cb = subReplies[1]
  OBVIOUS
<1>3. /\ sock' \in Seq(Item) /\ Drops(sock, sock') /\ m = sock[1] /\ m \in Item
      /\ Len(sock) \in Nat /\ Len(sock) >= 1 /\ Len(replies) \in Nat /\ Len(replies) = 0
      /\ Len(subReplies) \in Nat
  BY <1>1, Processing
<1>4. Answer(m)
  BY <1>1
<1>5. Len(subReplies) > 0 /\ cb.id = m.id
  BY <1>2, <1>3, <1>4, HeadMatches DEF Flow
<1>6. subReplies # <<>>
  BY <1>5, EmptySeq
<1>7. /\ Tail(subReplies) \in Seq(Callback) /\ Drops(subReplies, Tail(subReplies))
  BY <1>6, TailDrops DEF Flow, Types
<1>8. Given(m) = cb.id
  BY <1>3, <1>4, <1>5, ItemFacts DEF Given
<1>9. InQueue(subReplies, cb.id)
  <2>1. 1 \in 1..Len(subReplies)
    BY <1>3, <1>5
  <2>q. QED BY <1>2, <2>1 DEF InQueue
<1>10. PICK a : a = cb.id
  OBVIOUS
<1>11. calls' = [calls EXCEPT ![a] = Append(@, a)]
  BY <1>1, <1>2, <1>8, <1>10
<1>12. /\ DOMAIN calls' = DOMAIN calls /\ calls'[a] = <<a>> /\ calls[a] = <<>>
       /\ \A i \in DOMAIN calls : i # a => calls'[i] = calls[i]
  BY <1>9, <1>10, <1>11, AnsweredOnce
<1>13. Base'
  <2>1. \A i \in DOMAIN calls :
             \/ calls'[i] = calls[i]
             \/ calls[i] = <<>> /\ calls'[i] \in {<<i>>, <<NullReply>>}
    BY <1>12
  <2>2. \A x \in DOMAIN dict' : dict'[x] \in Entry(issued) /\ dict'[x].fn = dict[x].fn
    BY Entries
  <2>3. Alive' /\ mode' \in Modes \ {"abort"}
    BY DEF Alive, Base, Modes
  <2>4. last'.t = "none"
    BY DEF NoDelivery
  <2>5. pending_unsubs' \in Int /\ SUBSCRIBED' \in BOOLEAN /\ DOMAIN dict' \subseteq DOMAIN dict
    BY DEF Base, TypeOK
  <2>q. QED BY <1>12, <2>1, <2>2, <2>3, <2>4, <2>5, BaseMoved
<1>14. Chan(dict', srv', sock', wire', wanted')
  <2>1. sock[1].t # "subscribe" /\ \A k : ~UnsubItem(sock[1], k)
    BY <1>3, <1>4 DEF Answer, UnsubItem
  <2>2. Chan(dict, srv, sock', wire, wanted)
    BY <1>3, <2>1, ChanPassed DEF Flow
  <2>q. QED BY <2>2
<1>15. Regs(sock', wire', replies', subReplies', issued')
  <2>1. Drops(subReplies, subReplies') /\ subReplies[1].id = sock[1].id
    BY <1>2, <1>3, <1>5, <1>7
  <2>2. Regs(sock', wire, replies, subReplies', issued)
    BY <1>3, <1>4, <2>1, RegsRepliedSub DEF Flow
  <2>q. QED BY <2>2
<1>16. Mixed(srv', sock', wire', replies')
  <2>1. Mixed(srv', sock', wire', replies)
    BY <1>3, MixedNoReplies
  <2>q. QED BY <2>1
<1>17. Expecting(calls', replies', subReplies')
  <2>1. PICK c, c2, u2 : c = calls /\ c2 = calls' /\ u2 = subReplies'
    OBVIOUS
  <2>2. /\ Drops(subReplies, u2) /\ subReplies[1].id = a
        /\ DOMAIN c2 = DOMAIN c /\ c2[a] # <<>>
        /\ \A i \in DOMAIN c : i # a => c2[i] = c[i]
    <3>1. <<a>> # <<>>
      OBVIOUS
    <3>2. DOMAIN c2 = DOMAIN c /\ c2[a] # <<>>
      BY <1>12, <2>1, <3>1
    <3>3. \A i \in DOMAIN c : i # a => c2[i] = c[i]
      BY <1>12, <2>1
    <3>4. Drops(subReplies, u2) /\ subReplies[1].id = a
      BY <1>2, <1>7, <1>10, <2>1
    <3>q. QED BY <3>2, <3>3, <3>4
  <2>3. Expecting(c, replies, subReplies) /\ Regs(sock, wire, replies, subReplies, issued)
    BY <2>1 DEF Flow
  <2>4. Expecting(c2, replies, u2)
    BY <1>3, <2>2, <2>3, ExpectingRepliedSub, ZenonT(30)
  <2>q. QED BY <2>1, <2>4
<1>18. Types'
  BY <1>3, <1>7 DEF Flow, Types
<1>19. SUBSCRIBED' = (DOMAIN dict' # {}) /\ pending_unsubs' = 0
       /\ (subReplies' # <<>> => DOMAIN dict' # {})
  BY <1>6 DEF Flow
<1>q. QED BY <1>13, <1>14, <1>15, <1>16, <1>17, <1>18, <1>19 DEF Flow

\* What the steps for a pushed message have in common.
LEMMA FlowPushed ==
  ASSUME Base, Flow, sock # <<>>, sock' = Tail(sock), replies = <<>>, IsPush(Head(sock)),
         calls' = calls, pending_unsubs' = pending_unsubs,
         SUBSCRIBED' = (DOMAIN dict' # {}), subReplies' # <<>> => DOMAIN dict' # {},
         \/ replies' = <<>> /\ subReplies' = subReplies
         \/ replies' = subReplies /\ subReplies' = <<>> /\ DOMAIN dict' = {},
         DOMAIN dict' \subseteq DOMAIN dict,
         \A x \in DOMAIN dict' : dict'[x] \in Entry(issued) /\ dict'[x].fn = dict[x].fn,
         Head(sock).key \in DOMAIN dict,
         last' = [t |-> Head(sock).t, key |-> Head(sock).key, fn |-> dict[Head(sock).key].fn],
         Chan(dict', srv, sock', wire, wanted),
         UNCHANGED <<mode, wire, srv, issued, case, wanted, subs>>, Alive
  PROVE  Base' /\ Flow'
<1>1. PICK m : m = Head(sock)
  OBVIOUS
<1>3. /\ sock' \in Seq(Item) /\ Drops(sock, sock') /\ m = sock[1] /\ m \in Item
      /\ Len(sock) \in Nat /\ Len(sock) >= 1 /\ Len(replies) = 0 /\ Len(subReplies) \in Nat
  BY <1>1, Processing
<1>4. ~Answer(m)
  BY <1>1, <1>3, ItemFacts
<1>5. Base'
  <2>1. Alive' /\ mode' \in Modes \ {"abort"}
    BY DEF Alive, Base, Modes
  <2>2. <<last'.key, last'.fn>> \in subs
    <3>1. last'.key = m.key /\ last'.fn = dict[m.key].fn
      BY <1>1
    <3>q. QED BY <1>1, <3>1 DEF Base
  <2>3. pending_unsubs' \in Int /\ SUBSCRIBED' \in BOOLEAN
    BY DEF Base, TypeOK
  <2>4. DOMAIN calls' = DOMAIN calls /\ \A i \in DOMAIN calls : calls'[i] = calls[i]
    OBVIOUS
  <2>q. QED BY <2>1, <2>2, <2>3, <2>4, BaseMoved
<1>6. Regs(sock', wire, replies, subReplies, issued)
  BY <1>3, <1>4, RegsPushed DEF Flow
<1>7. Len(<<>>) = 0 /\ \A a : ~InQueue(<<>>, a)
  BY EmptySeq DEF InQueue
<1>8. Types'
  BY <1>3, EmptySeq DEF Flow, Types
<1>9. \A p \in 1..Len(wire) : wire[p].t \in CmdKinds
  BY CmdFacts, ElementOfSeq DEF Flow, Types
<1>10. CASE replies' = <<>> /\ subReplies' = subReplies
  <2>1. Regs(sock', wire', replies', subReplies', issued')
    BY <1>6, <1>10
  <2>2. Mixed(srv', sock', wire', replies')
    BY <1>7, <1>10, MixedNoReplies
  <2>3. Expecting(calls', replies', subReplies')
    BY <1>10 DEF Flow
  <2>q. QED BY <1>5, <1>8, <1>10, <2>1, <2>2, <2>3 DEF Flow
<1>11. CASE replies' = subReplies /\ subReplies' = <<>> /\ DOMAIN dict' = {}
  <2>1. Regs(sock', wire', replies', subReplies', issued')
    <3>1. Len(replies) = 0 /\ replies' = subReplies /\ Len(subReplies') = 0
      BY <1>3, <1>7, <1>11
    <3>2. Regs(sock', wire, replies', subReplies', issued)
      BY <1>6, <3>1, RegsSwapped
    <3>q. QED BY <3>2
  <2>2. Mixed(srv', sock', wire', replies')
    <3>1. Calm(srv, sock', wire)
      BY <1>9, <1>11, CalmWhenEmpty
    <3>2. Mixed(srv, sock', wire, replies')
      BY <3>1, MixedCalm
    <3>q. QED BY <3>2
  <2>3. Expecting(calls', replies', subReplies')
    <3>1. Expecting(calls, <<>>, subReplies)
      BY DEF Flow
    <3>q. QED BY <1>7, <1>11, <3>1 DEF Expecting
  <2>q. QED BY <1>5, <1>8, <1>11, <2>1, <2>2, <2>3 DEF Flow
<1>q. QED BY <1>10, <1>11

\* A subscribe message under way is pending in its entry.
LEMMA PendingCounted ==
  ASSUME NEW d, NEW v, NEW q, NEW w, NEW wt, Chan(d, v, q, w, wt),
         Len(q) \in Nat, Len(q) >= 1, Len(w) \in Nat, NEW k \in DOMAIN d, SubItem(q[1], k)
  PROVE  d[k].pending_subs >= 1
<1>1. PICK S : S = SubItems(q, k)
  OBVIOUS
<1>2. PICK T : T = SubCmds(w, k)
  OBVIOUS
<1>3. S \in SUBSET (1..Len(q)) /\ 1 \in S
  BY <1>1 DEF SubItems
<1>4. T \in SUBSET (1..Len(w))
  BY <1>2 DEF SubCmds
<1>5. IsFiniteSet(S) /\ IsFiniteSet(T)
  BY <1>3, <1>4, Finite
<1>6. Cardinality(S) \in Nat /\ Cardinality(S) # 0 /\ Cardinality(T) \in Nat
  BY <1>3, <1>5, FS_CardinalityType, FS_EmptySet
<1>7. d[k].pending_subs = Cardinality(S) + Cardinality(T)
  BY <1>1, <1>2 DEF Chan, Counted
<1>q. QED BY <1>6, <1>7

\* A message on a channel.
LEMMA MessageStep ==
  ASSUME Base, Flow, sock # <<>>, sock' = Tail(sock), replies = <<>>,
         Head(sock).t = "message", Head(sock).key \in DOMAIN dict,
         Becomes(valkeyGetSubscribeCallback(Context, Head(sock))),
         UNCHANGED <<mode, wire, srv, issued, case, wanted, subs>>, Alive
  PROVE  Base' /\ Flow'
<1>1. PICK m : m = Head(sock)
  OBVIOUS
<1>2. sock' \in Seq(Item) /\ Drops(sock, sock') /\ m = sock[1]
  BY <1>1, Processing
<1>3. /\ UNCHANGED <<dict, pending_unsubs, SUBSCRIBED, replies, subReplies, calls>>
      /\ last' = [t |-> m.t, key |-> m.key, fn |-> dict[m.key].fn]
  BY <1>1, MessageEffect
<1>4. Chan(dict', srv, sock', wire, wanted)
  <2>1. sock[1].t # "subscribe" /\ \A k : ~UnsubItem(sock[1], k)
    BY <1>1, <1>2 DEF UnsubItem
  <2>2. Chan(dict, srv, sock', wire, wanted)
    BY <1>2, <2>1, ChanPassed DEF Flow
  <2>q. QED BY <1>3, <2>2
<1>5. \A x \in DOMAIN dict' : dict'[x] \in Entry(issued) /\ dict'[x].fn = dict[x].fn
  BY <1>3, Entries
<1>6. SUBSCRIBED' = (DOMAIN dict' # {}) /\ (subReplies' # <<>> => DOMAIN dict' # {})
  BY <1>3 DEF Flow
<1>7. IsPush(Head(sock))
  BY DEF IsPush
<1>8. last' = [t |-> Head(sock).t, key |-> Head(sock).key, fn |-> dict[Head(sock).key].fn]
  BY <1>1, <1>3
<1>9. DOMAIN dict' \subseteq DOMAIN dict
  BY <1>3
<1>q. QED BY <1>3, <1>4, <1>5, <1>6, <1>7, <1>8, <1>9, FlowPushed

\* The reply to a subscribe command.
LEMMA SubscribedStep ==
  ASSUME Base, Flow, sock # <<>>, sock' = Tail(sock), replies = <<>>,
         Head(sock).t = "subscribe", Head(sock).key \in DOMAIN dict,
         Becomes(valkeyGetSubscribeCallback(Context, Head(sock))),
         UNCHANGED <<mode, wire, srv, issued, case, wanted, subs>>, Alive
  PROVE  Base' /\ Flow'
<1>1. PICK m : m = Head(sock)
  OBVIOUS
<1>2. /\ sock' \in Seq(Item) /\ Drops(sock, sock') /\ m = sock[1]
      /\ Len(sock) \in Nat /\ Len(sock) >= 1 /\ Len(wire) \in Nat
  BY <1>1, Processing
<1>3. /\ UNCHANGED <<pending_unsubs, SUBSCRIBED, replies, subReplies, calls>>
      /\ dict' = [dict EXCEPT ![m.key].pending_subs = @ - 1, ![m.key].subscribed = TRUE]
      /\ last' = [t |-> m.t, key |-> m.key, fn |-> dict[m.key].fn]
  BY <1>1, SubscribeEffect
<1>4. PICK k : k = m.key
  OBVIOUS
<1>5. k \in DOMAIN dict /\ SubItem(sock[1], k)
  BY <1>1, <1>2, <1>4 DEF SubItem
<1>6. dict[k].pending_subs >= 1
  BY <1>2, <1>5, PendingCounted DEF Flow
<1>7. dict[k] \in Entry(issued) /\ issued \in Nat
  BY <1>5, Entries
<1>8. /\ DOMAIN dict' = DOMAIN dict
      /\ \A x \in DOMAIN dict : x # k => dict'[x] = dict[x]
      /\ dict'[k] = [dict[k] EXCEPT !.pending_subs = @ - 1, !.subscribed = TRUE]
  BY <1>3, <1>4, <1>5
<1>9. dict'[k] = [fn |-> dict[k].fn, pending_subs |-> dict[k].pending_subs - 1,
                  unsubscribe_sent |-> dict[k].unsubscribe_sent, subscribed |-> TRUE]
  BY <1>7, <1>8 DEF Entry
<1>10. dict'[k] \in Entry(issued)
  <2>1. dict[k].fn \in 0..issued /\ dict[k].pending_subs - 1 \in 0..issued
        /\ dict[k].unsubscribe_sent \in BOOLEAN
    BY <1>6, <1>7 DEF Entry
  <2>q. QED BY <1>9, <2>1 DEF Entry
<1>11. dict'[k].fn = dict[k].fn /\ dict'[k].pending_subs = dict[k].pending_subs - 1
       /\ dict'[k].unsubscribe_sent = dict[k].unsubscribe_sent
  BY <1>9
<1>12. Chan(dict', srv, sock', wire, wanted)
  BY <1>2, <1>5, <1>8, <1>11, ChanConfirmed, ZenonT(40) DEF Flow
<1>13. ASSUME NEW x \in DOMAIN dict'
       PROVE  dict'[x] \in Entry(issued) /\ dict'[x].fn = dict[x].fn
  <2>1. CASE x = k
    BY <1>10, <1>11, <2>1
  <2>2. CASE x # k
    BY <1>8, <2>2, Entries
  <2>q. QED BY <2>1, <2>2
<1>14. SUBSCRIBED' = (DOMAIN dict' # {}) /\ (subReplies' # <<>> => DOMAIN dict' # {})
  BY <1>3, <1>8 DEF Flow
<1>15. IsPush(Head(sock))
  BY DEF IsPush
<1>16. last' = [t |-> Head(sock).t, key |-> Head(sock).key, fn |-> dict[Head(sock).key].fn]
  BY <1>1, <1>3
<1>17. DOMAIN dict' \subseteq DOMAIN dict
  BY <1>8
<1>q. QED BY <1>3, <1>12, <1>13, <1>14, <1>15, <1>16, <1>17, FlowPushed

\* The reply to an unsubscribe command.
LEMMA UnsubscribedStep ==
  ASSUME Base, Flow, sock # <<>>, sock' = Tail(sock), replies = <<>>,
         Head(sock).t = "unsubscribe", Head(sock).key \in DOMAIN dict,
         Becomes(valkeyGetSubscribeCallback(Context, Head(sock))),
         UNCHANGED <<mode, wire, srv, issued, case, wanted, subs>>, Alive
  PROVE  Base' /\ Flow'
<1>1. PICK m : m = Head(sock)
  OBVIOUS
<1>2. /\ sock' \in Seq(Item) /\ Drops(sock, sock') /\ m = sock[1] /\ m.t = "unsubscribe"
      /\ Len(sock) \in Nat /\ Len(sock) >= 1 /\ Len(wire) \in Nat
  BY <1>1, Processing
<1>3. PICK k : k = m.key
  OBVIOUS
<1>4. k \in DOMAIN dict /\ UnsubItem(sock[1], k) /\ \A x : UnsubItem(sock[1], x) => x = k
  BY <1>1, <1>2, <1>3 DEF UnsubItem
<1>5. /\ UNCHANGED <<pending_unsubs, calls>>
      /\ dict' = IF dict[k].pending_subs = 0 THEN Without(dict, k) ELSE dict
      /\ IF m.n = 0 /\ DOMAIN dict' = {}
         THEN SUBSCRIBED' = FALSE /\ replies' = replies \o subReplies /\ subReplies' = <<>>
         ELSE UNCHANGED <<SUBSCRIBED, replies, subReplies>>
      /\ last' = [t |-> m.t, key |-> m.key, fn |-> dict[m.key].fn]
  <2>1. pending_unsubs = 0
    BY DEF Flow
  <2>q. QED BY <1>1, <1>3, <2>1, UnsubscribeEffect
<1>6. /\ DOMAIN dict' \subseteq DOMAIN dict
      /\ \A x \in DOMAIN dict : x # k => x \in DOMAIN dict'
      /\ \A x \in DOMAIN dict' : dict'[x] = dict[x]
      /\ dict[k].pending_subs = 0 => DOMAIN dict' = DOMAIN dict \ {k}
  BY <1>5 DEF Without
<1>7. Chan(dict', srv, sock', wire, wanted)
  <2>1. CASE dict[k].pending_subs = 0
    <3>1. DOMAIN dict' = DOMAIN dict \ {k}
      BY <1>6, <2>1
    <3>q. QED BY <1>2, <1>4, <1>6, <2>1, <3>1, ChanRemoved DEF Flow
  <2>2. CASE dict[k].pending_subs # 0
    <3>1. \A x \in DOMAIN dict : dict[x].pending_subs = 0 => ~UnsubItem(sock[1], x)
      BY <1>4, <2>2
    <3>2. sock[1].t # "subscribe"
      BY <1>2
    <3>3. Chan(dict, srv, sock', wire, wanted)
      BY <1>2, <3>1, <3>2, ChanPassed DEF Flow
    <3>q. QED BY <1>5, <2>2, <3>3
  <2>q. QED BY <2>1, <2>2
<1>8. \A x \in DOMAIN dict' : dict'[x] \in Entry(issued) /\ dict'[x].fn = dict[x].fn
  BY <1>6, Entries
<1>9. IsPush(Head(sock))
  BY DEF IsPush
<1>10. last' = [t |-> Head(sock).t, key |-> Head(sock).key, fn |-> dict[Head(sock).key].fn]
  BY <1>1, <1>5
<1>11. CASE m.n = 0 /\ DOMAIN dict' = {}
  <2>1. SUBSCRIBED' = FALSE /\ replies' = replies \o subReplies /\ subReplies' = <<>>
    BY <1>5, <1>11
  <2>2. replies' = subReplies
    BY <2>1, ConcatEmptySeq DEF Flow, Types
  <2>3. SUBSCRIBED' = (DOMAIN dict' # {}) /\ (subReplies' # <<>> => DOMAIN dict' # {})
    BY <1>11, <2>1
  <2>q. QED BY <1>5, <1>6, <1>7, <1>8, <1>9, <1>10, <1>11, <2>1, <2>2, <2>3, FlowPushed
<1>12. CASE ~(m.n = 0 /\ DOMAIN dict' = {})
  <2>1. UNCHANGED <<SUBSCRIBED, replies, subReplies>>
    BY <1>5, <1>12
  <2>2. DOMAIN dict' # {}
    <3>1. CASE m.n = 0
      BY <1>12, <3>1
    <3>2. CASE m.n # 0
      <4>1. Lasting(dict, sock)
        BY DEF Flow, Chan
      <4>2. 1 \in 1..Len(sock) /\ sock[1].t = "unsubscribe" /\ sock[1].n # 0
        BY <1>2, <3>2
      <4>3. PICK x \in DOMAIN dict : x # sock[1].key
        BY <4>1, <4>2 DEF Lasting
      <4>q. QED BY <1>2, <1>3, <1>6, <4>3
    <3>q. QED BY <3>1, <3>2
  <2>3. SUBSCRIBED' = (DOMAIN dict' # {}) /\ (subReplies' # <<>> => DOMAIN dict' # {})
    BY <1>4, <2>1, <2>2 DEF Flow
  <2>q. QED BY <1>5, <1>6, <1>7, <1>8, <1>9, <1>10, <2>1, <2>3, FlowPushed
<1>q. QED BY <1>11, <1>12

\* Every waiting callback is given a NULL reply when the context goes.
LEMMA FreeStep ==
  ASSUME Base, Flow, NEW why \in {"disconnected", "freed", "dropped"},
         valkeyAsyncFreeInternal(why),
         UNCHANGED <<SUBSCRIBED, pending_unsubs, issued, case, subs, last>>
  PROVE  Base' /\ ~Alive'
<1>1. PICK pending : pending = replies \o subReplies
  OBVIOUS
<1>2. PICK given : given = {pending[i].id :
                            i \in {j \in DOMAIN pending : pending[j].t = "regular"}}
  OBVIOUS
<1>3. /\ Len(replies) \in Nat /\ Len(subReplies) \in Nat
      /\ pending \in Seq(Callback) /\ Len(pending) = Len(replies) + Len(subReplies)
      /\ DOMAIN pending = 1..Len(pending)
      /\ \A i \in 1..Len(pending) : pending[i] = IF i <= Len(replies) THEN replies[i]
                                                 ELSE subReplies[i - Len(replies)]
  <2>1. replies \in Seq(Callback) /\ subReplies \in Seq(Callback)
    BY DEF Flow, Types
  <2>2. Len(replies) \in Nat /\ Len(subReplies) \in Nat
    BY <2>1, LenProperties
  <2>3. /\ pending \in Seq(Callback) /\ Len(pending) = Len(replies) + Len(subReplies)
        /\ \A i \in 1..Len(pending) : pending[i] = IF i <= Len(replies) THEN replies[i]
                                                   ELSE subReplies[i - Len(replies)]
    BY <1>1, <2>1, ConcatProperties
  <2>4. DOMAIN pending = 1..Len(pending)
    BY <2>3, LenProperties
  <2>q. QED BY <2>2, <2>3, <2>4
<1>4. \A i \in DOMAIN pending : pending[i].t = "regular"
  <2>1. \A i \in 1..Len(pending) : pending[i] \in Callback
    BY <1>3, ElementOfSeq
  <2>q. QED BY <1>3, <2>1 DEF Callback
<1>5. mode' = why /\ dict' = <<>>
      /\ calls' = [i \in DOMAIN calls |-> IF i \in given THEN Append(calls[i], NullReply)
                                                         ELSE calls[i]]
  <2>1. ~ \E i \in DOMAIN pending : pending[i].t = "ssubscribe"
    BY <1>4
  <2>q. QED BY <1>1, <1>2, <2>1 DEF valkeyAsyncFreeInternal
<1>6. \A a : a \in given <=> \E i \in 1..Len(pending) : pending[i].id = a
  BY <1>2, <1>3, <1>4
<1>7. ASSUME NEW a, InQueue(replies, a) \/ InQueue(subReplies, a)
      PROVE  a \in given
  <2>1. CASE InQueue(replies, a)
    <3>1. PICK p \in 1..Len(replies) : replies[p].id = a
      BY <2>1 DEF InQueue
    <3>2. p \in 1..Len(pending) /\ pending[p] = replies[p]
      BY <1>3
    <3>q. QED BY <1>6, <3>1, <3>2
  <2>2. CASE InQueue(subReplies, a)
    <3>1. PICK p \in 1..Len(subReplies) : subReplies[p].id = a
      BY <2>2 DEF InQueue
    <3>2. Len(replies) + p \in 1..Len(pending) /\ ~(Len(replies) + p <= Len(replies))
          /\ (Len(replies) + p) - Len(replies) = p
      BY <1>3
    <3>3. pending[Len(replies) + p] = subReplies[p]
      BY <1>3, <3>2
    <3>q. QED BY <1>6, <3>1, <3>2, <3>3
  <2>q. QED BY <1>7, <2>1, <2>2
<1>8. ASSUME NEW a \in given
      PROVE  InQueue(replies, a) \/ InQueue(subReplies, a)
  <2>1. PICK i \in 1..Len(pending) : pending[i].id = a
    BY <1>6
  <2>2. CASE i <= Len(replies)
    <3>1. i \in 1..Len(replies) /\ pending[i] = replies[i]
      BY <1>3, <2>2
    <3>q. QED BY <2>1, <3>1 DEF InQueue
  <2>3. CASE ~(i <= Len(replies))
    <3>1. i - Len(replies) \in 1..Len(subReplies)
          /\ pending[i] = subReplies[i - Len(replies)]
      BY <1>3, <2>3
    <3>q. QED BY <2>1, <3>1 DEF InQueue
  <2>q. QED BY <2>2, <2>3
<1>9. ASSUME NEW i \in DOMAIN calls
      PROVE  /\ \/ calls'[i] = calls[i]
                \/ calls[i] = <<>> /\ calls'[i] \in {<<i>>, <<NullReply>>}
             /\ calls'[i] # <<>>
  <2>1. i \in given <=> calls[i] = <<>>
    BY <1>7, <1>8 DEF Flow, Expecting
  <2>2. CASE i \in given
    <3>1. calls'[i] = Append(<<>>, NullReply) /\ calls[i] = <<>>
      BY <1>5, <2>1, <2>2
    <3>2. Append(<<>>, NullReply) = <<NullReply>> /\ <<NullReply>> # <<>>
      OBVIOUS
    <3>q. QED BY <3>1, <3>2
  <2>3. CASE i \notin given
    BY <1>5, <2>1, <2>3
  <2>q. QED BY <2>2, <2>3
<1>10. DOMAIN calls' = DOMAIN calls /\ DOMAIN dict' = {}
  BY <1>5
<1>11. ~Alive' /\ mode' \in Modes \ {"abort"}
  BY <1>5 DEF Alive, Modes
<1>12. pending_unsubs' \in Int /\ SUBSCRIBED' \in BOOLEAN
  BY DEF Base, TypeOK
<1>13. Base'
  BY <1>9, <1>10, <1>11, <1>12, BaseMoved
<1>q. QED BY <1>11, <1>13

\* A turn of valkeyProcessCallbacks, by what it finds.
LEMMA ProcessStep ==
  ASSUME Base, Flow, valkeyProcessCallbacks
  PROVE  Base' /\ (Alive' => Flow')
<1>1. PICK m : m = Head(sock)
  OBVIOUS
<1>2. /\ Alive /\ sock # <<>> /\ sock' = Tail(sock)
      /\ UNCHANGED <<wire, srv, issued, published, case, wanted, subs>>
  BY DEF valkeyProcessCallbacks
<1>3. /\ m = sock[1] /\ m \in Item /\ Drops(sock, sock')
      /\ Len(sock) \in Nat /\ Len(sock) >= 1 /\ 1 \in 1..Len(sock)
      /\ Len(replies) \in Nat /\ Len(subReplies) \in Nat
      /\ replies = <<>> => Len(replies) = 0
  BY <1>1, <1>2, Processing
<1>4. \A i \in DOMAIN subReplies : subReplies[i].t = "regular"
  <2>1. subReplies \in Seq(Callback)
    BY DEF Flow, Types
  <2>2. \A i \in DOMAIN subReplies : subReplies[i] \in Callback
    BY <2>1, LenProperties, ElementOfSeq
  <2>q. QED BY <2>2 DEF Callback
<1>5. SUBSCRIBED = (DOMAIN dict # {}) /\ (subReplies # <<>> => DOMAIN dict # {})
  BY DEF Flow
<1>6. CASE replies # <<>>
  <2>1. Head(replies).t = "regular"
    <3>1. Head(replies) = replies[1] /\ replies[1] \in Callback
      BY <1>6, TailDrops DEF Flow, Types
    <3>q. QED BY <3>1 DEF Callback
  <2>2. /\ Becomes(RunCallback([Context EXCEPT !.replies = Tail(@)], Head(replies), Head(sock)))
        /\ mode' = mode
    BY <1>6, <2>1 DEF valkeyProcessCallbacks
  <2>q. QED BY <1>2, <1>6, <2>2, ReplyStep
<1>7. CASE replies = <<>> /\ Answer(m)
  <2>1. Len(subReplies) > 0 /\ subReplies[1].id = m.id
    <3>1. Answer(sock[1]) /\ Len(replies) = 0
      BY <1>3, <1>7
    <3>2. Regs(sock, wire, replies, subReplies, issued)
      BY DEF Flow
    <3>3. Len(subReplies) > 0 /\ subReplies[1].id = sock[1].id
      BY <1>3, <3>1, <3>2, HeadMatches
    <3>q. QED BY <1>3, <3>3
  <2>2. subReplies # <<>> /\ SUBSCRIBED
    <3>1. subReplies # <<>>
      BY <2>1, EmptySeq
    <3>2. SUBSCRIBED
      BY <1>5, <3>1, Zenon
    <3>q. QED BY <3>1, <3>2
  <2>3. CASE m.t = "reply"
    <3>1. ~IsPush(m) /\ SubscribeAssert(Context, m)
      BY <2>3 DEF IsPush, SubscribeAssert
    <3>2. Becomes(ShiftSubReplies(Context, m)) /\ mode' = mode
      BY <1>1, <1>7, <2>2, <2>3, <3>1 DEF valkeyProcessCallbacks
    <3>3. /\ subReplies' = Tail(subReplies)
          /\ calls' = [calls EXCEPT ![subReplies[1].id] = Append(@, Given(m))]
          /\ UNCHANGED <<dict, pending_unsubs, SUBSCRIBED, replies>>
          /\ last' = NoDelivery
      BY <1>4, <2>2, <3>2, ShiftEffect DEF Flow, Types
    <3>q. QED BY <1>1, <1>2, <1>7, <3>2, <3>3, SubReplied
  <2>4. CASE m.t = "error" /\ m.kind = "moved"
    <3>1. Head(subReplies) = subReplies[1] /\ subReplies[1].t = "regular"
      <4>1. Head(subReplies) = subReplies[1] /\ subReplies[1] \in Callback
        BY <2>2, TailDrops DEF Flow, Types
      <4>q. QED BY <4>1 DEF Callback
    <3>2. Becomes(RunCallback([Context EXCEPT !.subReplies = Tail(@)], Head(subReplies), m))
          /\ mode' = mode
      BY <1>1, <1>7, <2>2, <2>4 DEF valkeyProcessCallbacks
    <3>3. /\ subReplies' = Tail(subReplies)
          /\ calls' = [calls EXCEPT ![subReplies[1].id] = Append(@, Given(m))]
          /\ UNCHANGED <<dict, pending_unsubs, SUBSCRIBED, replies>>
          /\ last' = NoDelivery
      BY <3>1, <3>2, RunEffectSub
    <3>q. QED BY <1>1, <1>2, <1>7, <3>2, <3>3, SubReplied
  <2>5. CASE m.t = "error" /\ m.kind # "moved"
    <3>1. /\ valkeyAsyncFreeInternal("dropped")
          /\ UNCHANGED <<SUBSCRIBED, pending_unsubs, last>>
      BY <1>1, <1>7, <2>5 DEF valkeyProcessCallbacks
    <3>q. QED BY <1>2, <3>1, FreeStep
  <2>6. m.t \in {"reply", "error"}
    BY <1>7 DEF Answer
  <2>q. QED BY <2>3, <2>4, <2>5, <2>6
<1>8. CASE replies = <<>> /\ ~Answer(m)
  <2>1. IsPush(m) /\ m.t \in {"subscribe", "unsubscribe", "message"}
    BY <1>3, <1>8, ItemFacts
  <2>2. m.key \in DOMAIN dict
    BY <1>3, <2>1 DEF Flow, Chan, Owned
  <2>3. SUBSCRIBED /\ SubscribeAssert(Context, m)
    BY <1>5, <2>2 DEF SubscribeAssert, Context
  <2>4. Becomes(valkeyGetSubscribeCallback(Context, m)) /\ mode' = mode
    BY <1>1, <1>8, <2>1, <2>3 DEF valkeyProcessCallbacks
  <2>5. CASE m.t = "message"
    BY <1>1, <1>2, <1>8, <2>2, <2>4, <2>5, MessageStep
  <2>6. CASE m.t = "subscribe"
    BY <1>1, <1>2, <1>8, <2>2, <2>4, <2>6, SubscribedStep
  <2>7. CASE m.t = "unsubscribe"
    BY <1>1, <1>2, <1>8, <2>2, <2>4, <2>7, UnsubscribedStep
  <2>q. QED BY <2>1, <2>5, <2>6, <2>7
<1>q. QED BY <1>6, <1>7, <1>8

\* The steps that end the context, or mark it to be ended.
LEMMA ShutdownStep ==
  ASSUME Base, Flow, valkeyAsyncDisconnect \/ DisconnectCue \/ valkeyAsyncFree
  PROVE  Base' /\ (Alive' => Flow')
<1>1. /\ UNCHANGED <<SUBSCRIBED, pending_unsubs, issued, case, subs, last>>
      /\ UNCHANGED <<wire, srv, sock, published, wanted>>
  BY DEF valkeyAsyncDisconnect, DisconnectCue, valkeyAsyncFree, netVars
<1>2. CASE \E why \in {"disconnected", "freed", "dropped"} : valkeyAsyncFreeInternal(why)
  BY <1>1, <1>2, FreeStep
<1>3. CASE mode' = "disconnecting" /\ UNCHANGED <<replies, subReplies, dict, calls>>
  <2>1. Alive' /\ mode' \in Modes \ {"abort"}
    BY <1>3 DEF Alive, Modes
  <2>2. pending_unsubs' \in Int /\ SUBSCRIBED' \in BOOLEAN
    BY <1>1 DEF Base, TypeOK
  <2>3. \A x \in DOMAIN dict' : dict'[x] \in Entry(issued) /\ dict'[x].fn = dict[x].fn
    BY <1>3, Entries
  <2>4. Base'
    BY <1>1, <1>3, <2>1, <2>2, <2>3, BaseMoved
  <2>5. Types' /\ SUBSCRIBED' = (DOMAIN dict' # {}) /\ pending_unsubs' = 0
        /\ (subReplies' # <<>> => DOMAIN dict' # {})
    BY <1>1, <1>3 DEF Flow, Types
  <2>6. Chan(dict', srv', sock', wire', wanted') /\ Mixed(srv', sock', wire', replies')
    BY <1>1, <1>3 DEF Flow
  <2>7. Regs(sock', wire', replies', subReplies', issued')
        /\ Expecting(calls', replies', subReplies')
    BY <1>1, <1>3 DEF Flow
  <2>q. QED BY <2>4, <2>5, <2>6, <2>7 DEF Flow
<1>q. QED BY <1>2, <1>3 DEF valkeyAsyncDisconnect, DisconnectCue, valkeyAsyncFree

-----------------------------------------------------------------------------
(* The invariant holds. *)

\* Initially nothing is subscribed and nothing is under way.
LEMMA InitLemma == Init => IInv
<1> SUFFICES ASSUME Init, Plain PROVE Base /\ Flow
  BY DEF IInv
<1>1. /\ mode = "open" /\ SUBSCRIBED = FALSE
      /\ replies = <<>> /\ subReplies = <<>> /\ dict = <<>> /\ pending_unsubs = 0
      /\ wire = <<>> /\ srv = {} /\ sock = <<>>
      /\ issued = 0 /\ published = 0 /\ case \in Cases
      /\ wanted = {} /\ subs = {} /\ calls = <<>> /\ last = NoDelivery
  BY DEF Init
<1>2. DOMAIN dict = {} /\ DOMAIN calls = {} /\ Len(<<>>) = 0
  BY <1>1, EmptySeq
<1>3. Base
  <2>1. TypeOK
    <3>1. mode \in Modes /\ pending_unsubs \in Int
      BY <1>1 DEF Modes
    <3>2. SUBSCRIBED \in BOOLEAN
      BY <1>1, Zenon
    <3>q. QED BY <1>2, <3>1, <3>2 DEF TypeOK
  <2>2. RegularGetsOwnReply
    BY <1>2 DEF RegularGetsOwnReply
  <2>3. MessageToSubscriber
    <3>1. last.t = "none"
      BY <1>1 DEF NoDelivery
    <3>q. QED BY <3>1 DEF MessageToSubscriber
  <2>q. QED BY <1>1, <1>2, <2>1, <2>2, <2>3 DEF Base, Alive
<1>4. Types
  BY <1>1, EmptySeq, FS_EmptySet DEF Types
<1>5. Chan(dict, srv, sock, wire, wanted)
  <2>1. Owned(dict, srv, sock, wire, wanted)
    BY <1>1, <1>2 DEF Owned
  <2>2. Ordered(srv, sock)
    BY <1>1, <1>2 DEF Ordered
  <2>3. Ending(dict, srv, sock) /\ Lasting(dict, sock)
    BY <1>1, <1>2 DEF Ending, Lasting
  <2>4. Sent(dict, srv, wire, wanted)
    BY <1>1, <1>2 DEF Sent
  <2>5. Unmarked(dict, wanted) /\ Counted(dict, sock, wire)
    BY <1>1, <1>2 DEF Unmarked, Counted
  <2>q. QED BY <2>1, <2>2, <2>3, <2>4, <2>5 DEF Chan
<1>6. Regs(sock, wire, replies, subReplies, issued)
  <2>1. Queued(replies, subReplies, issued)
    BY <1>1, <1>2 DEF Queued
  <2>2. UnderWay(sock, wire, issued)
    BY <1>1, <1>2 DEF UnderWay
  <2>3. Matched(sock, wire, replies, subReplies)
    BY <1>1, <1>2 DEF Matched, InQueue, InSock, InWire
  <2>q. QED BY <1>1, <2>1, <2>2, <2>3 DEF Regs
<1>7. Mixed(srv, sock, wire, replies)
  BY <1>1, <1>2 DEF Mixed
<1>8. Expecting(calls, replies, subReplies)
  BY <1>1, <1>2 DEF Expecting, InQueue
<1>q. QED BY <1>1, <1>2, <1>3, <1>4, <1>5, <1>6, <1>7, <1>8 DEF Flow

\* Every step keeps it.
LEMMA NextLemma == IInv /\ [Next]_vars => IInv'
<1> SUFFICES ASSUME IInv, [Next]_vars, Plain' PROVE Base' /\ (Alive' => Flow')
  BY DEF IInv
<1>1. CASE UNCHANGED vars
  <2>1. Plain
    BY <1>1 DEF Plain, vars
  <2>2. Base /\ (Alive => Flow)
    BY <2>1 DEF IInv
  <2>3. /\ mode' = mode /\ SUBSCRIBED' = SUBSCRIBED /\ replies' = replies
        /\ subReplies' = subReplies /\ dict' = dict /\ pending_unsubs' = pending_unsubs
        /\ wire' = wire /\ srv' = srv /\ sock' = sock /\ issued' = issued /\ case' = case
        /\ wanted' = wanted /\ subs' = subs /\ calls' = calls /\ last' = last
    BY <1>1 DEF vars, ctxVars, netVars, histVars
  <2>4. Base' /\ (Alive' <=> Alive)
    BY <2>2, <2>3, BaseServed DEF ctxVars, histVars
  <2>5. ASSUME Flow PROVE Flow'
    <3>1. Types' /\ SUBSCRIBED' = (DOMAIN dict' # {}) /\ pending_unsubs' = 0
          /\ (subReplies' # <<>> => DOMAIN dict' # {})
      BY <2>3, <2>5 DEF Flow, Types
    <3>2. Chan(dict', srv', sock', wire', wanted') /\ Mixed(srv', sock', wire', replies')
      BY <2>3, <2>5 DEF Flow
    <3>3. Regs(sock', wire', replies', subReplies', issued')
          /\ Expecting(calls', replies', subReplies')
      BY <2>3, <2>5 DEF Flow
    <3>q. QED BY <3>1, <3>2, <3>3 DEF Flow
  <2>q. QED BY <2>2, <2>4, <2>5
<1>2. CASE Next
  <2>1. case' = case /\ Alive
    BY <1>2 DEF Next, Subscribe, Unsubscribe, UnsubscribeAll, Regular, ServerExecutes,
       ServerPublishes, valkeyProcessCallbacks, valkeyAsyncDisconnect, DisconnectCue,
       valkeyAsyncFree, Accept, Alive
  <2>2. Plain /\ Base /\ Flow
    BY <2>1 DEF Plain, IInv
  <2>3. ASSUME NEW keys \in ArgLists, Subscribe(keys) PROVE Base' /\ Flow'
    BY <2>2, <2>3, SubscribeStep
  <2>4. ASSUME NEW keys \in ArgLists, Unsubscribe(keys) PROVE Base' /\ Flow'
    BY <2>2, <2>4, UnsubscribeStep
  <2>5. ASSUME NEW kind \in Kinds, UnsubscribeAll(kind) PROVE Base' /\ Flow'
    BY <2>2, <2>5, UnsubscribeAllStep
  <2>6. CASE Regular
    BY <2>2, <2>6, RegularStep
  <2>7. CASE ServerExecutes
    BY <2>2, <2>7, ServerStep
  <2>8. CASE ServerPublishes
    BY <2>2, <2>8, PublishStep
  <2>9. CASE valkeyProcessCallbacks
    BY <2>2, <2>9, ProcessStep
  <2>10. CASE valkeyAsyncDisconnect \/ DisconnectCue \/ valkeyAsyncFree
    BY <2>2, <2>10, ShutdownStep
  <2>q. QED BY <1>2, <2>3, <2>4, <2>5, <2>6, <2>7, <2>8, <2>9, <2>10, ZenonT(40) DEF Next
<1>q. QED BY <1>1, <1>2

-----------------------------------------------------------------------------
(* What follows from it. *)

\* When nothing is under way no callback waits, and when the context is gone
\* none was forgotten.
LEMMA NoneForgotten ==
  ASSUME Base, Alive => Flow
  PROVE  RegularNotLost
<1>1. CASE ~Alive
  BY <1>1 DEF Base, RegularNotLost, Quiet, Alive
<1>2. CASE Alive /\ ~Quiet
  BY <1>2 DEF Alive, RegularNotLost
<1>3. CASE Alive /\ Quiet
  <2>1. Len(sock) = 0 /\ Len(wire) = 0
    BY <1>3, EmptySeq DEF Quiet
  <2>2. \A a : ~InSock(sock, a) /\ ~InWire(wire, a)
    BY <2>1 DEF InSock, InWire
  <2>3. \A a : ~InQueue(replies, a) /\ ~InQueue(subReplies, a)
    BY <1>3, <2>2 DEF Flow, Regs, Matched
  <2>4. \A a \in DOMAIN calls : calls[a] # <<>>
    BY <1>3, <2>3 DEF Flow, Expecting
  <2>q. QED BY <2>4 DEF RegularNotLost
<1>q. QED BY <1>1, <1>2, <1>3

\* When nothing is under way the dictionary holds what the server has.
LEMMA QuietAgrees ==
  ASSUME Base, Flow, Quiet
  PROVE  DOMAIN dict = srv
<1>1. Len(sock) = 0 /\ Len(wire) = 0
  BY EmptySeq DEF Quiet
<1>2. srv \subseteq DOMAIN dict
  BY DEF Flow, Chan, Owned
<1>3. ASSUME NEW k \in DOMAIN dict \ srv PROVE FALSE
  <2>1. SubItems(sock, k) = {} /\ SubCmds(wire, k) = {}
    BY <1>1 DEF SubItems, SubCmds
  <2>2. Cardinality(SubItems(sock, k)) = 0 /\ Cardinality(SubCmds(wire, k)) = 0
    BY <2>1, FS_EmptySet
  <2>3. dict[k].pending_subs = 0
    BY <2>2 DEF Flow, Chan, Counted
  <2>4. \E i \in 1..Len(sock) : UnsubItem(sock[i], k)
    BY <2>3 DEF Flow, Chan, Ending
  <2>q. QED BY <1>1, <2>4
<1>q. QED BY <1>2, <1>3

\* The callback of a regular command is called once and with its own reply,
\* NULL if the context goes first, and none is left waiting.
THEOREM RegularAlwaysSound == Spec => [](Plain => RegularSound)
<1>1. IInv => (Plain => RegularSound)
  <2> SUFFICES ASSUME Base, Alive => Flow PROVE RegularSound
    BY DEF IInv
  <2>1. RegularNotLost
    BY NoneForgotten
  <2>q. QED BY <2>1 DEF Base, RegularSound
<1>q. QED BY <1>1, InitLemma, NextLemma, PTL DEF Spec

\* When all is quiet the client's subscriptions are the server's, the context is
\* in subscribed mode exactly when it has some, and no assertion ever fails.
THEOREM SubscriptionsAlwaysFollow == Spec => [](Plain => SubscriptionsFollow)
<1>1. IInv => (Plain => SubscriptionsFollow)
  <2> SUFFICES ASSUME Base, Alive => Flow PROVE SubscriptionsFollow
    BY DEF IInv
  <2>1. AssertsHold
    BY DEF Base, AssertsHold
  <2>2. Quiet => Alive
    BY DEF Quiet, Alive
  <2>3. SubscriptionsAgree
    BY <2>2, QuietAgrees DEF SubscriptionsAgree
  <2>4. ModeAgrees
    <3> SUFFICES ASSUME Quiet PROVE SUBSCRIBED = (srv # {}) /\ pending_unsubs = 0
      BY DEF ModeAgrees
    <3>1. DOMAIN dict = srv
      BY <2>2, QuietAgrees
    <3>q. QED BY <2>2, <3>1 DEF Flow
  <2>q. QED BY <2>1, <2>3, <2>4 DEF SubscriptionsFollow
<1>q. QED BY <1>1, InitLemma, NextLemma, PTL DEF Spec

\* Whatever arrives for a channel goes to a function that was given for it.
THEOREM MessagesReachSubscribers == Spec => [](Plain => MessageToSubscriber)
<1>1. IInv => (Plain => MessageToSubscriber)
  BY DEF IInv, Base
<1>q. QED BY <1>1, InitLemma, NextLemma, PTL DEF Spec
=============================================================================
