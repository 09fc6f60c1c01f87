----------------------------- MODULE MCBlocking -----------------------------
(* Option sets that differ in one thing each from a plain TCP connection. *)
EXTENDS Blocking

Plain == [type |-> "tcp", block |-> TRUE, source |-> FALSE, reuse |-> FALSE,
          timed |-> FALSE, mptcp |-> FALSE, push |-> TRUE, cares |-> FALSE]

MCOptionSets == {
    [Plain EXCEPT !.timed = TRUE],
    [Plain EXCEPT !.cares = TRUE, !.push = FALSE],
    [Plain EXCEPT !.block = FALSE],
    [Plain EXCEPT !.source = TRUE, !.reuse = TRUE],
    [Plain EXCEPT !.mptcp = TRUE],
    [Plain EXCEPT !.type = "unix", !.timed = TRUE],
    [Plain EXCEPT !.type = "userfd"]}
=============================================================================
