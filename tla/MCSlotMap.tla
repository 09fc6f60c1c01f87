------------------------------ MODULE MCSlotMap ------------------------------
(****************************************************************************)
(* Five addresses, one of them a replica's, of which n2 and n4 share a      *)
(* bucket; four slots.  With n1 to n4 known the dictionary is full,         *)
(* so that a redirect to n5 makes it grow.                                  *)
(****************************************************************************)
EXTENDS SlotMap

CONSTANTS n1, n2, n3, n4, n5, r1

MCHashOf == [x \in {n1, n2, n3, n4, n5, r1} |->
               CASE x = n1 -> 0 [] x = n2 -> 1 [] x = n3 -> 2 [] x = n4 -> 5
                 [] x = n5 -> 9 [] x = r1 -> 3]

MCInitialNodes == {<<n1, n2, n1>>}

Rng(x, y) == [start |-> x, end |-> y]
Ent(x, y, ns) == [start |-> x, end |-> y, nodes |-> ns]
Owner(o0, o1, o2, o3) == [s \in 0..3 |-> CASE s = 0 -> o0 [] s = 1 -> o1
                                           [] s = 2 -> o2 [] s = 3 -> o3]
Told(owner, f) == [owner |-> owner, replicas |-> f]
NoReplicas == [x \in {n1, n2, n3, n4, n5} |-> <<>>]
\* Two primaries, one of them with two ranges and a replica.
T1 == Told(Owner(n1, n1, n2, n1), [NoReplicas EXCEPT ![n1] = <<r1>>])
\* One slot each.
T2 == Told(Owner(n1, n2, n3, n4), NoReplicas)
\* Two slots of node n2, the others not served.
T3 == Told(Owner(NULL, n2, n2, NULL), NoReplicas)
Refusable == Told(Owner(NULL, NULL, NULL, NULL), NoReplicas)

MCSlotsReplies ==
    {[asked |-> NULL, truth |-> T1,
      entries |-> <<Ent(0, 1, <<n1, r1>>), Ent(2, 2, <<n2>>), Ent(3, 3, <<n1, r1>>)>>],
     [asked |-> NULL, truth |-> T2,
      entries |-> <<Ent(0, 0, <<n1>>), Ent(1, 1, <<n2>>), Ent(2, 2, <<n3>>),
                    Ent(3, 3, <<n4>>)>>],
     [asked |-> n2, truth |-> T3, entries |-> <<Ent(65, 2, <<SELF>>)>>]}
    \cup {[asked |-> NULL, truth |-> Refusable, entries |-> x] : x \in {
            <<>>, <<Ent(0, 2, <<n1>>), Ent(2, 3, <<n2>>)>>,
            <<Ent(0, 1, <<n1>>), Ent(3, 2, <<n2>>)>>, <<Ent(0, 4, <<n1>>)>>,
            <<Ent(0, -1, <<n1>>)>>, <<Ent(-2, 1, <<n1>>)>>,
            <<Ent(0, 1, <<n1>>), Ent(BAD, 3, <<n2>>)>>, <<Ent(0, 1, <<n1, BAD>>)>>,
            <<Ent(0, 1, <<>>)>>, <<Ent(0, 1, <<BAD>>)>>}}

Line(id, x, role, primary, ranges) ==
    [id |-> id, addr |-> x, role |-> role, primary_id |-> primary, slots |-> ranges]

MCNodesReplies ==
    {[asked |-> NULL, truth |-> T1,
      lines |-> <<Line("R", r1, "replica", "A", <<>>),
                  Line("A", n1, "primary", "-", <<Rng(3, 3), Rng(0, 1)>>),
                  Line("G", BAD, "noaddr", "-", <<Rng(0, 3)>>),
                  Line("B", n2, "primary", "-", <<Rng(2, 2)>>),
                  Line("C", n3, "primary", "-", <<>>)>>],
     [asked |-> n2, truth |-> T3,
      lines |-> <<Line("B", SELF, "primary", "-", <<Rng(1, 2)>>)>>]}
    \cup {[asked |-> NULL, truth |-> Refusable, lines |-> x] : x \in {
            <<>>, <<Line("A", n1, "primary", "-", <<>>)>>,
            <<Line("A", n1, "primary", "-", <<Rng(0, 1)>>),
              Line("B", n1, "primary", "-", <<Rng(2, 3)>>)>>,
            <<Line("A", n1, "primary", "-", <<Rng(0, 2)>>),
              Line("B", n2, "primary", "-", <<Rng(2, 3)>>)>>,
            <<Line("A", n1, "primary", "-", <<Rng(0, 1)>>), Line("B", n2, BAD, "-", <<>>)>>,
            <<Line("A", BAD, "primary", "-", <<Rng(0, 1)>>)>>}}

MCRedirects == {[slot |-> 1, addr |-> n5]}
=============================================================================
