--------------------------- MODULE MCClusterAsync ---------------------------
EXTENDS ClusterAsync

CONSTANTS n1, n2, n3, s1, s2

MCFirstOwner == [s \in {s1, s2} |-> IF s = s1 THEN n1 ELSE n2]

Case(m, d, e, b, t, s) == [moves |-> m, drops |-> d, errors |-> e, bad |-> b, ticks |-> t,
                          select |-> s]
MCScenarios == {Case(1, 1, 0, 0, 1, FALSE), Case(0, 0, 2, 1, 0, FALSE), Case(0, 1, 0, 1, 1, TRUE)}
=============================================================================
