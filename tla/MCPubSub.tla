------------------------------ MODULE MCPubSub ------------------------------
(* The instance of PubSub for TLC. *)
EXTENDS PubSub

FourNames == [a |-> "channels", p |-> "patterns", s |-> "schannels", t |-> "schannels"]

\* A channel and a pattern, in any pipelined order, with regular commands; and
\* sharded channels, one at a time, that the server may refuse.
TwoCases ==
    {[keys |-> {"a", "p"}, cmds |-> 5, refusals |-> {}, repeats |-> FALSE, nested |-> FALSE],
     [keys |-> {"s", "t"}, cmds |-> 4, refusals |-> ErrorKinds, repeats |-> FALSE,
      nested |-> FALSE]}

\* What the cases above leave out, one at a time.

OneSharded == {[keys |-> {"s"}, cmds |-> 1, refusals |-> {}, repeats |-> FALSE, nested |-> FALSE]}
NestedSharded ==
    {[keys |-> {"a", "s"}, cmds |-> 3, refusals |-> {}, repeats |-> FALSE, nested |-> TRUE]}
OneChannel == {[keys |-> {"a"}, cmds |-> 2, refusals |-> {}, repeats |-> FALSE, nested |-> FALSE]}
TwoNames == [a |-> "channels", b |-> "channels"]
TwoChannels ==
    {[keys |-> {"a", "b"}, cmds |-> 4, refusals |-> {}, repeats |-> FALSE, nested |-> FALSE]}
=============================================================================
