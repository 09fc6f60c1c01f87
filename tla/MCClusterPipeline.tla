-------------------------- MODULE MCClusterPipeline --------------------------
EXTENDS ClusterPipeline

CONSTANTS n1, n2, n3, s1, s2

MCFirstOwner == [s \in {s1, s2} |-> IF s = s1 THEN n1 ELSE n2]
=============================================================================
