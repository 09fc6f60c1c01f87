---------------------------- MODULE MCClusterSync ----------------------------
(* Instances of ClusterSync for TLC. *)
EXTENDS ClusterSync

Case(m, f, e, r) == [moves |-> m, crashes |-> f, errors |-> e, returns |-> r]

\* Migrations with nodes that ask to try again; crashes and migrations.
Cases == {Case(2, 0, RetryErrors, FALSE), Case(2, 1, {}, FALSE), Case(0, 2, {}, FALSE)}

\* A crash and a migration with a node that asks to try again.
RetryCases == {Case(1, 1, {"TRYAGAIN"}, FALSE)}
\* A node that sent a redirection crashes.
CrashCases == {Case(1, 1, {}, FALSE)}
=============================================================================
