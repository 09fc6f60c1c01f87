------------------------------ MODULE Command ------------------------------
(***************************************************************************)
(* What the library writes: a command formatted from a printf-like format   *)
(* (valkeyvFormatCommand) or from an argument vector, and what the cluster  *)
(* client reads back from the formatted bytes to route them: the command's  *)
(* entry in the table of src/src/cmddef.h, its first key (src/src/command.c) *)
(* and the key's slot (keyHashSlot and src/src/crc16.c).  All of it is pure; *)
(* the properties compare it with declarative definitions.                  *)
(*                                                                         *)
(* Out of memory is left out, and so is what printf makes of a conversion:  *)
(* an argument carries its text.                                            *)
(***************************************************************************)
EXTENDS Reader, Bitwise

CONSTANTS
    server_commands,    \* the table: [name, subname, arity, method, pos], sorted
    FormatMax,          \* sizeof(_format) - 2
    Formats,            \* templates of formatted commands
    Vectors,            \* argument vectors
    Keys

Upper == <<"A", "B", "C", "D", "E", "F", "G", "H", "I", "J", "K", "L", "M", "N",
           "O", "P", "Q", "R", "S", "T", "U", "V", "W", "X", "Y", "Z">>
Lower == <<"a", "b", "c", "d", "e", "f", "g", "h", "i", "j", "k", "l", "m", "n",
           "o", "p", "q", "r", "s", "t", "u", "v", "w", "x", "y", "z">>
\* The code of a character.
Code ==
    (" " :> 32) @@ ("$" :> 36) @@ ("-" :> 45) @@ ("_" :> 95) @@ ("{" :> 123) @@ ("}" :> 125)
    @@ [c \in DigitSet |-> 48 + DigitValue(c)]
    @@ [c \in Range(Upper) |-> 64 + CHOOSE i \in DOMAIN Upper : Upper[i] = c]
    @@ [c \in Range(Lower) |-> 96 + CHOOSE i \in DOMAIN Lower : Lower[i] = c]

ToUpper(ch) == IF ch \in Range(Lower) THEN Upper[Code[ch] - 96] ELSE ch
to_upper(s) == [i \in DOMAIN s |-> ToUpper(s[i])]
At(s, i) == IF i \in DOMAIN s THEN s[i] ELSE NULL       \* NULL: the end of a string
-----------------------------------------------------------------------------
(* Formatting *)

RECURSIVE countDigits(_)
countDigits(v) ==
    IF v < 10 THEN 1 ELSE IF v < 100 THEN 2 ELSE IF v < 1000 THEN 3
    ELSE IF v < 10000 THEN 4 ELSE 4 + countDigits(v \div 10000)

bulklen(len) == 1 + countDigits(len) + 2 + len + 2

\* The bytes of an argument vector.
Written(argv) ==
    FoldLeft(LAMBDA out, arg : out \o Line("$", Decimal(Len(arg))) \o arg \o <<CR, LF>>,
             Line("*", Decimal(Len(argv))), argv)

\* The length computed beforehand, which the assert compares with what was written.
totlen(argv) == FoldLeft(LAMBDA n, arg : n + bulklen(Len(arg)),
                         1 + countDigits(Len(argv)) + 2, argv)

valkeyFormatCommandArgv(argv) == [bytes |-> Written(argv), len |-> totlen(argv)]

\* Where a run of characters of a set ends.
RECURSIVE Skip(_, _, _)
Skip(format, i, set) == IF At(format, i) \in set THEN Skip(format, i + 1, set) ELSE i

IntFmts == {"d", "i", "o", "u", "x", "X"}
DoubleFmts == {"e", "E", "f", "F", "g", "G", "a", "A"}

\* The last character of the printf conversion that starts with the % at i: flags,
\* width, precision, size and type; 0 if it is none.
Conversion(format, i) ==
    LET flags == Skip(format, i + 1, {"#", "0", "-", "+", " "})
        width == Skip(format, flags, DigitSet)
        p == IF At(format, width) = "." THEN Skip(format, width + 1, DigitSet) ELSE width
        sized == IF At(format, p) \notin {"h", "l"} THEN p
                 ELSE IF At(format, p + 1) = At(format, p) THEN p + 2 ELSE p + 1
        types == IF sized = p THEN IntFmts \cup DoubleFmts ELSE IntFmts
    IN  IF At(format, sized) \in types THEN sized ELSE 0

NextArg(x) == [x EXCEPT !.args = Tail(@)]
Cat(x, text, n) == [x EXCEPT !.curarg = @ \o text, !.touched = TRUE, !.c = @ + n]

\* A space of the format ends the argument, if there is one.
Space(x) ==
    IF x.touched
    THEN [x EXCEPT !.argv = Append(@, x.curarg), !.curarg = <<>>, !.touched = FALSE, !.c = @ + 1]
    ELSE [x EXCEPT !.c = @ + 1]

\* A conversion that does not fit into _format consumes its argument, and the
\* rest of it is taken for text.
Percent(x) ==
    LET ch == At(x.format, x.c + 1)
        last == Conversion(x.format, x.c)
    IN  CASE ch \in {"s", "b"} /\ Head(x.args) = NULL -> [x EXCEPT !.err = TRUE]
          [] ch \in {"s", "b"} /\ Head(x.args) # NULL -> NextArg(Cat(x, Head(x.args), 2))
          [] ch = "%" -> Cat(x, <<"%">>, 2)
          [] ch \notin {"s", "b", "%"} /\ last = 0 -> [x EXCEPT !.err = TRUE]
          [] OTHER -> IF last + 1 - x.c < FormatMax
                      THEN NextArg(Cat(x, Head(x.args), last + 1 - x.c))
                      ELSE NextArg(Cat(x, <<>>, 2))

RECURSIVE FormatLoop(_)
FormatLoop(x) ==
    LET ch == At(x.format, x.c)
    IN  IF ch = NULL \/ x.err THEN x
        ELSE FormatLoop(IF ch = "%" /\ At(x.format, x.c + 1) # NULL THEN Percent(x)
                        ELSE IF ch = " " THEN Space(x) ELSE Cat(x, <<ch>>, 1))

\* NULL for a format error.
valkeyvFormatCommand(format, args) ==
    LET x == FormatLoop([format |-> format, c |-> 1, args |-> args, curarg |-> <<>>,
                         touched |-> FALSE, argv |-> <<>>, err |-> FALSE])
    IN  IF x.err THEN NULL
        ELSE valkeyFormatCommandArgv(IF x.touched THEN Append(x.argv, x.curarg) ELSE x.argv)
-----------------------------------------------------------------------------
(* Finding the key *)

\* strncmp(s, t, Len(t)) = 0.
Begins(s, t) == \A i \in DOMAIN t : At(s, i) = t[i]

\* strncmp(s, t, Len(t)): the sign of the first difference.
strncmp(s, t) ==
    IF Begins(s, t) THEN 0
    ELSE LET i == Min({j \in DOMAIN t : At(s, j) # t[j]})
         IN  IF At(s, i) = NULL \/ Code[s[i]] < Code[t[i]] THEN -1 ELSE 1

\* Faulty variant: the beginning of a name is enough.
Compare_Prefix(name, t) == strncmp(name, t)

\* The longer of two names with a common beginning is the greater one.
Compare(name, t) == IF strncmp(name, t) = 0 /\ Len(name) > Len(t) THEN 1 ELSE strncmp(name, t)

RECURSIVE Search(_, _, _, _)
Search(cmd, sub, left, right) ==
    LET i == (left + right) \div 2
        e == server_commands[i]
        cmp == Compare(e.name, cmd)
        order == IF cmp = 0 /\ e.subname # NULL THEN Compare(e.subname, sub) ELSE cmp
    IN  IF left > right THEN NULL
        ELSE IF cmp = 0 /\ e.subname # NULL /\ sub = <<>> THEN NULL
        ELSE IF order < 0 THEN Search(cmd, sub, i + 1, right)
        ELSE IF order > 0 THEN Search(cmd, sub, left, i - 1)
        ELSE e

valkey_lookup_cmd(arg0, arg1) ==
    Search(to_upper(arg0), to_upper(arg1), 1, Len(server_commands))

\* The value of the digits at position p, and where they end.
Number(bytes, p) ==
    LET e == Skip(bytes, p, DigitSet)
    IN  [val |-> FoldLeft(LAMBDA n, ch : 10 * n + DigitValue(ch), 0, SubSeq(bytes, p, e - 1)),
         p |-> e]
CrLf(bytes, p) == At(bytes, p) = CR /\ At(bytes, p + 1) = LF

\* The bulk string at p and the position after it, or NULL.
valkey_parse_bulk(bytes, p) ==
    LET n == Number(bytes, p + 1)
        start == n.p + 2
    IN  IF At(bytes, p) # "$" \/ ~ CrLf(bytes, n.p) \/ ~ CrLf(bytes, start + n.val) THEN NULL
        ELSE [str |-> SubSeq(bytes, start, start + n.val - 1), p |-> start + n.val + 2]

Error == [ok |-> FALSE, key |-> NULL]
Key(str) == [ok |-> TRUE, key |-> str]

\* The argument after the keyword.  argidx is the index of the argument parsed
\* last, counted from 0; an argument at startfrom or before it is not looked at,
\* and a beginning of the keyword is taken for it.
RECURSIVE KeywordSearch(_, _, _, _, _)
KeywordSearch(bytes, p, argidx, startfrom, rnarg) ==
    LET b == valkey_parse_bulk(bytes, p)
        STREAMS == <<"S", "T", "R", "E", "A", "M", "S">>
    IN  IF argidx >= rnarg - 1 \/ b = NULL THEN Error
        ELSE IF argidx < startfrom \/ ~ Begins(STREAMS, to_upper(b.str))
        THEN KeywordSearch(bytes, b.p, argidx + 1, startfrom, rnarg)
        ELSE LET k == valkey_parse_bulk(bytes, b.p)
             IN  IF k = NULL THEN Error ELSE Key(k.str)

\* The argument at index n, from the one parsed last.
RECURSIVE ArgAt(_, _, _, _)
ArgAt(bytes, arg, argidx, n) ==
    IF argidx >= n \/ arg = NULL THEN arg
    ELSE ArgAt(bytes, valkey_parse_bulk(bytes, arg.p), argidx + 1, n)

\* The first key by its position, or by the number of keys in front of it.
FirstKey(bytes, info, arg1) ==
    LET arg == ArgAt(bytes, arg1, 1, info.pos)
        k == IF info.method = "KEYNUM" THEN valkey_parse_bulk(bytes, arg.p) ELSE arg
    IN  IF arg = NULL THEN Error
        ELSE IF info.method = "KEYNUM" /\ Begins(<<"0">>, arg.str) THEN Key(NULL)
        ELSE IF k = NULL \/ (info.migrate /\ k.str = <<>>) THEN Error
        ELSE Key(k.str)

\* ok and no key: the command takes none.
valkey_parse_cmd(bytes) ==
    LET n == Number(bytes, 2)
        arg0 == valkey_parse_bulk(bytes, n.p + 2)
        arg1 == IF n.val > 1 /\ arg0 # NULL THEN valkey_parse_bulk(bytes, arg0.p) ELSE NULL
        info == valkey_lookup_cmd(arg0.str, IF arg1 = NULL THEN <<>> ELSE arg1.str)
    IN  IF \/ At(bytes, 1) # "*" \/ ~ CrLf(bytes, n.p) \/ n.val = 0 \/ arg0 = NULL
           \/ n.val > 1 /\ arg1 = NULL
           \/ info = NULL THEN Error
        ELSE IF \/ info.arity >= 0 /\ n.val # info.arity
                \/ info.arity < 0 /\ n.val < -info.arity THEN Error
        ELSE IF info.method = "NONE" THEN Key(NULL)
        ELSE IF arg1 = NULL THEN Error
        ELSE IF info.method = "UNKNOWN"
        THEN KeywordSearch(bytes, arg1.p, 1, info.pos, n.val)
        ELSE FirstKey(bytes, info, arg1)
-----------------------------------------------------------------------------
(* The slot of a key *)

crc16tab == <<
    \h0000, \h1021, \h2042, \h3063, \h4084, \h50a5, \h60c6, \h70e7, \h8108,
    \h9129, \ha14a, \hb16b, \hc18c, \hd1ad, \he1ce, \hf1ef, \h1231, \h0210,
    \h3273, \h2252, \h52b5, \h4294, \h72f7, \h62d6, \h9339, \h8318, \hb37b,
    \ha35a, \hd3bd, \hc39c, \hf3ff, \he3de, \h2462, \h3443, \h0420, \h1401,
    \h64e6, \h74c7, \h44a4, \h5485, \ha56a, \hb54b, \h8528, \h9509, \he5ee,
    \hf5cf, \hc5ac, \hd58d, \h3653, \h2672, \h1611, \h0630, \h76d7, \h66f6,
    \h5695, \h46b4, \hb75b, \ha77a, \h9719, \h8738, \hf7df, \he7fe, \hd79d,
    \hc7bc, \h48c4, \h58e5, \h6886, \h78a7, \h0840, \h1861, \h2802, \h3823,
    \hc9cc, \hd9ed, \he98e, \hf9af, \h8948, \h9969, \ha90a, \hb92b, \h5af5,
    \h4ad4, \h7ab7, \h6a96, \h1a71, \h0a50, \h3a33, \h2a12, \hdbfd, \hcbdc,
    \hfbbf, \heb9e, \h9b79, \h8b58, \hbb3b, \hab1a, \h6ca6, \h7c87, \h4ce4,
    \h5cc5, \h2c22, \h3c03, \h0c60, \h1c41, \hedae, \hfd8f, \hcdec, \hddcd,
    \had2a, \hbd0b, \h8d68, \h9d49, \h7e97, \h6eb6, \h5ed5, \h4ef4, \h3e13,
    \h2e32, \h1e51, \h0e70, \hff9f, \hefbe, \hdfdd, \hcffc, \hbf1b, \haf3a,
    \h9f59, \h8f78, \h9188, \h81a9, \hb1ca, \ha1eb, \hd10c, \hc12d, \hf14e,
    \he16f, \h1080, \h00a1, \h30c2, \h20e3, \h5004, \h4025, \h7046, \h6067,
    \h83b9, \h9398, \ha3fb, \hb3da, \hc33d, \hd31c, \he37f, \hf35e, \h02b1,
    \h1290, \h22f3, \h32d2, \h4235, \h5214, \h6277, \h7256, \hb5ea, \ha5cb,
    \h95a8, \h8589, \hf56e, \he54f, \hd52c, \hc50d, \h34e2, \h24c3, \h14a0,
    \h0481, \h7466, \h6447, \h5424, \h4405, \ha7db, \hb7fa, \h8799, \h97b8,
    \he75f, \hf77e, \hc71d, \hd73c, \h26d3, \h36f2, \h0691, \h16b0, \h6657,
    \h7676, \h4615, \h5634, \hd94c, \hc96d, \hf90e, \he92f, \h99c8, \h89e9,
    \hb98a, \ha9ab, \h5844, \h4865, \h7806, \h6827, \h18c0, \h08e1, \h3882,
    \h28a3, \hcb7d, \hdb5c, \heb3f, \hfb1e, \h8bf9, \h9bd8, \habbb, \hbb9a,
    \h4a75, \h5a54, \h6a37, \h7a16, \h0af1, \h1ad0, \h2ab3, \h3a92, \hfd2e,
    \hed0f, \hdd6c, \hcd4d, \hbdaa, \had8b, \h9de8, \h8dc9, \h7c26, \h6c07,
    \h5c64, \h4c45, \h3ca2, \h2c83, \h1ce0, \h0cc1, \hef1f, \hff3e, \hcf5d,
    \hdf7c, \haf9b, \hbfba, \h8fd9, \h9ff8, \h6e17, \h7e36, \h4e55, \h5e74,
    \h2e93, \h3eb2, \h0ed1, \h1ef0>>

crc16(key) ==
    FoldLeft(LAMBDA crc, ch : ((256 * crc) % 65536) ^^ crc16tab[1 + (((crc \div 256) ^^ Code[ch]) % 256)],
             0, key)

\* The index of the first ch from position s on, or one past the end.
Index(key, s, ch) ==
    LET found == {i \in s..Len(key) : key[i] = ch}
    IN  IF found = {} THEN Len(key) + 1 ELSE Min(found)

keyHashSlot(key) ==
    LET s == Index(key, 1, "{")
        e == Index(key, s + 1, "}")
    IN  crc16(IF e > Len(key) \/ e = s + 1 THEN key ELSE SubSeq(key, s + 1, e - 1)) % 16384
-----------------------------------------------------------------------------
(* What commands and keys are for: the definitions to compare with. *)

\* A template is a sequence of words, a word a sequence of pieces, a piece its
\* text in the format, its arguments and the bytes it stands for.  Words are
\* joined by spaces, and a word without pieces makes two of them meet.
FormatOf(words) ==
    FlattenSeq([i \in DOMAIN words |->
        (IF i = 1 THEN <<>> ELSE <<" ">>)
            \o FlattenSeq([j \in DOMAIN words[i] |-> words[i][j].format])])
ArgsOf(words) ==
    FlattenSeq([i \in DOMAIN words |-> FlattenSeq([j \in DOMAIN words[i] |-> words[i][j].args])])
ArgvOf(words) ==
    LET some == SelectSeq(words, LAMBDA w : w # <<>>)
    IN  [i \in DOMAIN some |-> FlattenSeq([j \in DOMAIN some[i] |-> some[i][j].text])]

\* The entry of a command, and the first key its description gives.
EntryOf(argv) ==
    LET found == {e \in Range(server_commands) :
                    /\ to_upper(argv[1]) = e.name
                    /\ e.subname # NULL => Len(argv) > 1 /\ to_upper(argv[2]) = e.subname}
    IN  IF found = {} THEN NULL ELSE CHOOSE e \in found : TRUE

\* The positions at which the keyword STREAMS may stand: from the argument
\* `startfrom' on, which is the first behind the name, or behind GROUP, group and
\* consumer.  The name itself is argv[1].
StreamsAt(argv, info) ==
    {i \in (info.pos + 1)..(Len(argv) - 1) :
        to_upper(argv[i]) = <<"S", "T", "R", "E", "A", "M", "S">>}
KeywordFirst(argv) ==
    LET info == EntryOf(argv)
    IN  info # NULL /\ info.method = "UNKNOWN" /\ info.pos + 1 \in StreamsAt(argv, info)

KeyOf(argv) ==
    LET info == EntryOf(argv)
    IN  CASE info = NULL -> Error
          [] info # NULL /\ info.method = "NONE" -> Key(NULL)
          [] info # NULL /\ info.method = "INDEX" ->
                IF info.migrate /\ argv[info.pos + 1] = <<>> THEN Error ELSE Key(argv[info.pos + 1])
          [] info # NULL /\ info.method = "KEYNUM" ->
                IF argv[info.pos + 1] = <<"0">> THEN Key(NULL)
                ELSE IF Len(argv) = info.pos + 1 THEN Error ELSE Key(argv[info.pos + 2])
          [] info # NULL /\ info.method = "UNKNOWN" ->
                IF StreamsAt(argv, info) = {} THEN Error
                ELSE Key(argv[Min(StreamsAt(argv, info)) + 1])

\* The part of a key that decides where it lives: the first pair of braces, if
\* there is something between them.
TagOf(key) ==
    LET pairs == {<<s, e>> \in (DOMAIN key) \X (DOMAIN key) :
                    /\ s < e /\ key[s] = "{" /\ key[e] = "}"
                    /\ \A i \in 1..(s - 1) : key[i] # "{"
                    /\ \A i \in (s + 1)..(e - 1) : key[i] # "}"}
    IN  IF \E p \in pairs : p[2] > p[1] + 1
        THEN LET p == CHOOSE q \in pairs : q[2] > q[1] + 1 IN SubSeq(key, p[1] + 1, p[2] - 1)
        ELSE key

\* The remainder of the whole key modulo the polynomial, bit by bit.
RECURSIVE Shifted(_, _)
Shifted(crc, bits) ==
    IF bits = 0 THEN crc
    ELSE LET twice == (2 * crc) % 65536
         IN  Shifted(IF crc >= 32768 THEN twice ^^ 4129 ELSE twice, bits - 1)
SlotOf(key) ==
    FoldLeft(LAMBDA crc, ch : Shifted(crc ^^ (256 * Code[ch]), 8), 0, key) % 16384
-----------------------------------------------------------------------------
(* Properties *)

\* Commands and keys do not depend on the state: they are looked at before the
\* first byte of a connection on which nothing is sent.
Fresh == stream.bytes = <<>> /\ ~ freed /\ r.mem = 0

BulkArray(argv) ==
    [type |-> "array", val |-> <<>>,
     elems |-> [i \in DOMAIN argv |-> [type |-> "string", val |-> argv[i], elems |-> <<>>]]]

\* A formatted command is the RESP array of the words of its format, however
\* conversions, literal text and spaces in arguments are mixed, and the length
\* computed beforehand is the length written: the asserts pos == totlen.
FormatExact ==
    Fresh => \A words \in Formats :
        LET out == valkeyvFormatCommand(FormatOf(words), ArgsOf(words))
        IN  IF NULL \in Range(ArgsOf(words)) THEN out = NULL
            ELSE out.len = Len(out.bytes) /\ out.bytes = Encode(BulkArray(ArgvOf(words)))

Located(argv) ==
    LET info == EntryOf(argv)
        short == info # NULL /\ (IF info.arity < 0 THEN Len(argv) < -info.arity
                                                   ELSE Len(argv) # info.arity)
    IN  valkey_parse_cmd(valkeyFormatCommandArgv(argv).bytes)
            = IF short THEN Error ELSE KeyOf(argv)

\* The key found in the bytes of a command is the one its description points
\* at, and a command without an entry, or with too few arguments, is refused:
\* the binary search finds every entry although names are beginnings of others,
\* and arguments that look like the keyword or like protocol do not disturb it
\* (valkey_parse_cmd).  Not so the commands in which STREAMS comes first.
KeyLocated == Fresh => \A argv \in Vectors : KeywordFirst(argv) \/ Located(argv)

\* The same of those: "Skip forward to the 'startfrom' arg index, then search for
\* the keyword" (valkey_parse_cmd).
\* The code does not keep it (README.md, section 4).
KeywordFound == Fresh => \A argv \in Vectors : KeywordFirst(argv) => Located(argv)

\* The table-driven checksum is the remainder of its polynomial, and the slot
\* of a key is that of its tag alone (keyHashSlot, crc16).
SlotOfTag ==
    Fresh => \A key \in Keys : keyHashSlot(key) = SlotOf(TagOf(key))

\* From the arguments of a command to the slot it is sent to: the bytes, the key
\* found in them and its slot are those of the reference definitions
\* (valkeyvFormatCommand, valkey_parse_cmd, keyHashSlot).
CommandsExact == FormatExact /\ KeyLocated /\ SlotOfTag
=============================================================================
