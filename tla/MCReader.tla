------------------------------ MODULE MCReader ------------------------------
(***************************************************************************)
(* Connections for the reader: nested and empty aggregates, every type of   *)
(* reply, bulk strings with line ends inside them, every short text as an   *)
(* integer, and malformed items at the root and inside of an aggregate.     *)
(* The commands: every mixture of text, conversions and spaces in two words, *)
(* and every short vector of the words that mean something to some command. *)
(***************************************************************************)
EXTENDS Command

Leaf(type, val) == [type |-> type, val |-> val, elems |-> <<>>]
Node(type, elems) == [type |-> type, val |-> <<>>, elems |-> elems]

Int1 == Leaf("integer", 1)
Bulk == Leaf("string", <<"x", CR, LF, "+">>)
Empty == Leaf("string", <<>>)
Deep == Node("array", <<Node("set", <<Node("array", <<Node("push", <<Int1>>)>>), Int1>>),
                        Node("array", <<>>)>>)

WellFormed == {
    Connection(<<Deep, Leaf("status", <<"x">>)>>, <<>>, 0),
    Connection(<<Node("map", <<Leaf("status", <<"x">>), Bulk>>), Leaf("bool", 1)>>, <<>>, 0),
    Connection(<<Node("array", <<Empty, Leaf("nil", "$"), Leaf("nil", "*"), Node("map", <<>>)>>),
                 Leaf("nil", "*")>>, <<>>, 0),
    Connection(<<Leaf("verb", <<<<"t", "x", "t">>, <<CR, LF>>>>), Leaf("nil", "_"),
                 Node("attr", <<Int1, Int1>>), Leaf("error", <<"-">>)>>, <<>>, 0),
    Connection(<<Leaf("bignum", <<"-", "1", "2">>), Leaf("double", <<"-", "i", "n", "f">>),
                 Leaf("status", <<>>), Node("array", <<>>), Empty>>, <<>>, 0)}

\* Each item alone and as the second element of an array.
BadItems == {
    <<"x">>, Line("_", <<"x">>), Line("#", <<"x">>), Line("(", <<"1", "x">>),
    Line("+", <<"x", LF>>), Line("+", <<CR, "x">>), Line(",", <<"x">>), Line("$", <<"-", "2">>), Line("$", <<>>),
    Line("*", <<"-", "2">>), Line("*", <<"9">>),
    Line("=", <<"3">>) \o <<"t", "x", "t", CR, LF>>,
    Line("=", <<"4">>) \o <<"t", "x", "t", "x", CR, LF>>}

Malformed ==
    {Connection(<<Int1>>, bad, 8) : bad \in BadItems}
    \cup {Connection(<<>>, Line("*", <<"3">>) \o Line("+", <<"x">>) \o bad, 8) : bad \in BadItems}
    \cup {Connection(<<>>, Line("%", <<"6", "4">>), 0)}

Alphabet == {"-", "0", "1", "2", "5", "7", "8"}
Texts == UNION {[1..n -> Alphabet] : n \in 0..4}
Probes == {IntegerProbe(t) : t \in Texts}

Chars(s) == [i \in 1..Len(s) |-> SubSeq(s, i, i)]
Entry(name, subname, arity, method, pos) ==
    [name |-> Chars(name), subname |-> IF subname = "" THEN NULL ELSE Chars(subname),
     arity |-> arity, method |-> method, pos |-> pos, migrate |-> name = "MIGRATE"]

\* Entries of cmddef.h, one of every kind and the ones whose names begin alike.
\* pos of the two without a fixed position is startfrom.
MCCommands == <<
    Entry("EVAL", "", -3, "KEYNUM", 2), Entry("EVALSHA", "", -3, "KEYNUM", 2),
    Entry("EVALSHA_RO", "", -3, "KEYNUM", 2), Entry("EVAL_RO", "", -3, "KEYNUM", 2),
    Entry("GET", "", 2, "INDEX", 1), Entry("MIGRATE", "", -6, "INDEX", 3),
    Entry("PING", "", -1, "NONE", 0),
    Entry("RESTORE", "", -4, "INDEX", 1), Entry("RESTORE-ASKING", "", -4, "INDEX", 1),
    Entry("XGROUP", "CREATE", -5, "INDEX", 2), Entry("XGROUP", "CREATECONSUMER", 5, "INDEX", 2),
    Entry("XGROUP", "HELP", 2, "NONE", 0),
    Entry("XREAD", "", -4, "UNKNOWN", 1), Entry("XREADGROUP", "", -7, "UNKNOWN", 4),
    Entry("ZUNION", "", -3, "KEYNUM", 1)>>

Piece(format, args, text) == [format |-> Chars(format), args |-> args, text |-> text]
Text(s) == Piece(s, <<>>, Chars(s))
Arg(format, text) == Piece(format, <<text>>, text)
Pieces == {
    Text("s"), Piece("%%", <<>>, <<"%">>), Arg("%s", <<>>), Arg("%s", NULL),
    Arg("%b", <<"a", " ", CR, LF>>), Arg("%d", Chars("12345678901")),
    Arg("% -08.3f", Chars(" 1.000")), Arg("%lld", <<"7">>), Arg("%hhu", <<"7">>)}
Words == {<<p>> : p \in Pieces} \cup (Pieces \X Pieces) \cup {<<>>}
MCFormats == {<<>>} \cup {<<w>> : w \in Words} \cup (Words \X Words)

Names == {MCCommands[i].name : i \in DOMAIN MCCommands}
         \cup {Chars(n) : n \in {"evalsha", "EVALSH", "EVALSHA_", "XGROU", "XREADX", "A", "ZZ"}}
Arguments == {Chars(a) : a \in {"0", "k", "streams", "CREATE", "createC", "HELP", "$"}}
MCVectors ==
    {<<n>> \o a : n \in Names, a \in BoundedSeq(Arguments, 3)}
    \cup {<<n, s>> \o <<t>> \o a : n \in {<<"Z">>} \cup {MCCommands[i].name : i \in 8..14},
             s \in {<<"k">>, Chars("create"), Chars("CREATECONSUMER")}, t \in {<<"k">>},
             a \in UNION {[1..k -> {<<"k">>, Chars("Streams"), Chars("x")}] : k \in 0..4}}
    \cup {<<Chars("migrate"), <<"h">>, <<"1">>, k, <<"0">>, <<"9">>>> : k \in {<<>>, <<"k">>}}

MCKeys == UNION {[1..n -> {"{", "}", "a"}] : n \in 0..5}
          \cup {<<c, d>> : c \in {"0", "Z", "a"}, d \in DOMAIN Code}

\* The shortest commands with the keyword in its first position.
StreamsFirst ==
    {<<Chars("XREAD"), Chars("STREAMS"), <<"k">>, <<"0">>>>,
     <<Chars("XREADGROUP"), Chars("GROUP"), <<"g">>, <<"c">>, Chars("STREAMS"), <<"k">>, <<">">>>>}

MCStreams == WellFormed \cup Malformed \cup Probes \cup {Connection(<<>>, <<>>, 0)}
MCMemories == {0, 2, 3, 5, 7, 99}
=============================================================================
