------------------------------- MODULE Reader -------------------------------
(***************************************************************************)
(* The incremental reply parser of src/src/read.c with the reply objects of *)
(* src/src/valkey.c.  Bytes reach the reader in pieces of any size and      *)
(* valkeyReaderGetReply may be called between any two of them, so a reply   *)
(* is parsed over several calls: the stack of read tasks, the position in   *)
(* the buffer and the half-built objects are what survives from one call to *)
(* the next.                                                               *)
(*                                                                         *)
(* A byte is a one-character string.  Reply objects live in a heap: objs    *)
(* maps an identifier to its type, value and elements, so that a leak, a    *)
(* dangling pointer and a double free are visible.  mem is the number of    *)
(* allocations that still succeed.  The capacity of the sds buffer, number  *)
(* formatting of doubles (ffc.h) and error texts are left out; the widths   *)
(* of long long and unsigned long long are constants.                       *)
(***************************************************************************)
EXTENDS Integers, Sequences, FiniteSets, TLC, SequencesExt, FiniteSetsExt

CONSTANTS
    NULL,
    StackSize,      \* VALKEY_READER_STACK_SIZE
    LLONG_MAX, ULLONG_MAX,
    Streams,        \* what servers may send: [bytes, ends, expected, malformed, limit]
    Chunks,         \* sizes of the pieces in which bytes arrive
    Memories        \* values of mem to start with

VARIABLES
    stream,     \* the bytes of this connection and what they stand for
    fed,        \* how many of them have been handed to the reader
    r,          \* struct valkeyReader and the heap its objects live in
    got,        \* replies emitted, as trees; NULL for one that was discarded
    dry,        \* the last valkeyReaderGetReply emitted nothing, nothing was fed since
    freed       \* valkeyReaderFree was called

vars == <<stream, fed, r, got, dry, freed>>

CR == "\r"
LF == "\n"
Digits == <<"0", "1", "2", "3", "4", "5", "6", "7", "8", "9">>
DigitSet == Range(Digits)
DigitValue(c) == (CHOOSE i \in DOMAIN Digits : Digits[i] = c) - 1

ReplyType ==
    ("-" :> "error") @@ ("+" :> "status") @@ (":" :> "integer") @@
    ("," :> "double") @@ ("_" :> "nil") @@ ("$" :> "string") @@
    ("*" :> "array") @@ ("%" :> "map") @@ ("|" :> "attr") @@ ("~" :> "set") @@
    ("#" :> "bool") @@ ("=" :> "verb") @@ (">" :> "push") @@ ("(" :> "bignum")

Aggregates == {"array", "map", "attr", "set", "push"}
Bulks == {"string", "verb"}
-----------------------------------------------------------------------------
(* The buffer. *)

Rest(x) == SubSeq(x.buf, x.pos + 1, Len(x.buf))

\* The offset of the first CRLF in s, counted from 0, or -1.
seekNewline(s) ==
    LET found == {i \in 1..(Len(s) - 1) : s[i] = CR /\ s[i + 1] = LF}
    IN  IF found = {} THEN -1 ELSE Min(found) - 1

\* The digits of s read from the left as an unsigned long long, with the two
\* overflow checks in front of the multiplication and of the addition.
Unsigned(s) ==
    FoldLeft(LAMBDA v, c :
                IF v = NULL \/ v > ULLONG_MAX \div 10 THEN NULL
                ELSE IF (v * 10) % (ULLONG_MAX + 1) > ULLONG_MAX - DigitValue(c)
                     THEN NULL ELSE v * 10 + DigitValue(c),
             0, s)

\* Faulty variant: the most negative number is refused.
string2ll_Symmetric(s) ==
    LET negative == Len(s) > 0 /\ s[1] = "-"
        p == IF negative THEN Tail(s) ELSE s
        v == Unsigned(p)
    IN  IF s = <<"0">> THEN 0
        ELSE IF \/ p = <<>> \/ ~ (Range(p) \subseteq DigitSet) \/ p[1] = "0"
                \/ v = NULL \/ v > LLONG_MAX THEN NULL
        ELSE IF negative THEN -v ELSE v

\* The value of a strict decimal, NULL where the code returns VALKEY_ERR.
string2ll(s) ==
    LET negative == Len(s) > 0 /\ s[1] = "-"
        p == IF negative THEN Tail(s) ELSE s
        v == Unsigned(p)
    IN  IF s = <<"0">> THEN 0
        ELSE IF \/ p = <<>> \/ ~ (Range(p) \subseteq DigitSet) \/ p[1] = "0"
                \/ v = NULL \/ v > (IF negative THEN LLONG_MAX + 1 ELSE LLONG_MAX)
             THEN NULL
        ELSE IF negative THEN -v ELSE v

-----------------------------------------------------------------------------
(* Reply objects: createReplyObject and its callers, freeReplyObject. *)

\* Everything freeReplyObject releases when it is called on o.
RECURSIVE Owned(_, _)
Owned(objs, o) ==
    {o} \cup UNION {Owned(objs, c) : c \in Range(objs[o].elems) \ {NULL}}

freeReplyObject(x, o) ==
    IF o = NULL THEN x
    ELSE [x EXCEPT !.objs = [k \in DOMAIN x.objs \ Owned(x.objs, o) |-> x.objs[k]]]

\* A new object in the parent's element of this task; x.made is NULL when no
\* memory was left for it.  An aggregate starts with n empty elements.
createObject(x, type, val, n) ==
    LET cur == x.task[x.ridx]
        id  == x.next
        obj == [type |-> type, val |-> val, elems |-> [i \in 1..n |-> NULL]]
        up  == IF cur.parent = NULL THEN x.objs
               ELSE [x.objs EXCEPT ![x.task[cur.parent].obj].elems[cur.idx + 1] = id]
    IN  IF x.mem = 0 THEN [x EXCEPT !.made = NULL]
        ELSE [x EXCEPT !.made = id, !.mem = @ - 1, !.next = @ + 1,
                       !.objs = (id :> obj) @@ up]
-----------------------------------------------------------------------------
(* The parser. *)

\* Faulty variant: the half-built reply is forgotten instead of freed.
valkeyReaderSetError_Leaks(x, type) ==
    [x EXCEPT !.reply = NULL, !.buf = <<>>, !.pos = 0, !.ridx = -1,
              !.err = type, !.ok = FALSE]

valkeyReaderSetError(x, type) ==
    [freeReplyObject(x, x.reply) EXCEPT
        !.reply = NULL, !.buf = <<>>, !.pos = 0, !.ridx = -1,
        !.err = type, !.ok = FALSE]

\* More bytes are needed: VALKEY_ERR without an error.
Incomplete(x) == [x EXCEPT !.ok = FALSE]

FreshTask(idx, parent) ==
    [type |-> NULL, elements |-> -1, idx |-> idx, obj |-> NULL, parent |-> parent]

\* The stack is unwound to the deepest aggregate with an element to come.
moveToNextTask(x) ==
    LET unfinished == {j \in 1..x.ridx : x.task[j].idx # x.task[j - 1].elements - 1}
        k == Max(unfinished \cup {0})
    IN  IF k = 0 THEN [x EXCEPT !.ridx = -1]
        ELSE [x EXCEPT !.ridx = k, !.task[k].type = NULL,
                       !.task[k].elements = -1, !.task[k].idx = @ + 1]

\* An object that ends its item: it is the reply when it is the root.
Completed(x) ==
    IF x.made = NULL THEN valkeyReaderSetError(x, "oom")
    ELSE moveToNextTask(IF x.ridx = 0 THEN [x EXCEPT !.reply = x.made] ELSE x)

\* Whether the text of a double is one: the names of infinities and NaN are
\* recognized here, the rest is for ffc_from_chars_double_options (external).
IsDouble(line) ==
    \/ line \in {<<"i", "n", "f">>, <<"-", "i", "n", "f">>,
                 <<"n", "a", "n">>, <<"-", "n", "a", "n">>}
    \/ LET p == IF Len(line) > 0 /\ line[1] = "-" THEN Tail(line) ELSE line
       IN  p # <<>> /\ Range(p) \subseteq DigitSet

\* What the line of an item of this type stands for, NULL if it is malformed.
LineValue(type, line) ==
    CASE type = "integer" -> string2ll(line)
      [] type = "double"  -> IF IsDouble(line) THEN line ELSE NULL
      [] type = "nil"     -> IF line = <<>> THEN <<>> ELSE NULL
      [] type = "bool"    -> IF line \in {<<"t">>, <<"T">>} THEN 1
                             ELSE IF line \in {<<"f">>, <<"F">>} THEN 0 ELSE NULL
      [] type = "bignum"  -> LET p == IF Len(line) > 0 /\ line[1] = "-"
                                      THEN Tail(line) ELSE line
                             IN  IF Range(p) \subseteq DigitSet THEN line ELSE NULL
      [] OTHER            -> IF Range(line) \cap {CR, LF} = {} THEN line ELSE NULL

processLineItem(x) ==
    LET cur  == x.task[x.ridx]
        len  == seekNewline(Rest(x))
        line == SubSeq(Rest(x), 1, len)
        val  == LineValue(cur.type, line)
    IN  IF len = -1 THEN Incomplete(x)
        ELSE IF val = NULL THEN valkeyReaderSetError(x, "protocol")
        ELSE Completed(createObject([x EXCEPT !.pos = @ + len + 2], cur.type, val, 0))

\* The text of a bulk item: a verbatim string gives up its content type.
BulkValue(type, text) ==
    IF type = "verb" THEN <<SubSeq(text, 1, 3), SubSeq(text, 5, Len(text))>> ELSE text

processBulkItem(x) ==
    LET cur     == x.task[x.ridx]
        rest    == Rest(x)
        s       == seekNewline(rest)
        len     == string2ll(SubSeq(rest, 1, s))
        bytelen == s + 2 + (IF len = -1 THEN 0 ELSE len + 2)
        text    == SubSeq(rest, s + 3, s + 2 + len)
        made(y, type, val) == [createObject(y, type, val, 0) EXCEPT !.pos = @ + bytelen]
    IN  IF s = -1 THEN Incomplete(x)
        ELSE IF len = NULL \/ len < -1 THEN valkeyReaderSetError(x, "protocol")
        ELSE IF len = -1 THEN Completed(made(x, "nil", <<>>))
        ELSE IF bytelen > Len(rest) THEN Incomplete(x)
        ELSE IF cur.type = "verb" /\ (len < 4 \/ text[4] # ":")
             THEN valkeyReaderSetError(x, "protocol")
        ELSE Completed(made(x, cur.type, BulkValue(cur.type, text)))

\* The stack grows by StackSize: one allocation for the array, one per task.
valkeyReaderGrow(x) ==
    LET room == IF x.mem > StackSize THEN StackSize ELSE x.mem - 1
        new  == [j \in 0..(x.tasks + room - 1) |->
                    IF j < x.tasks THEN x.task[j] ELSE FreshTask(0, NULL)]
    IN  IF x.mem = 0 THEN valkeyReaderSetError(x, "oom")
        ELSE IF room < StackSize
             THEN valkeyReaderSetError([x EXCEPT !.task = new, !.tasks = @ + room,
                                                 !.mem = 0], "oom")
        ELSE [x EXCEPT !.task = new, !.tasks = @ + room, !.mem = @ - StackSize - 1]

\* The first element of the aggregate just created.
Descend(x, n) ==
    LET cur == x.ridx IN
    [x EXCEPT !.task[cur].elements = n, !.task[cur].obj = x.made,
              !.ridx = cur + 1, !.task[cur + 1] = FreshTask(0, cur)]

\* The header line of an aggregate of n elements, the items of a map counted
\* twice.  moveToNextTask runs before the reply of an empty root is stored.
AggregateHeader(x, type, n) ==
    LET size == IF type \in {"map", "attr"} THEN 2 * n ELSE n
        made == IF n = -1 THEN createObject(x, "nil", <<>>, 0)
                          ELSE createObject(x, type, <<>>, size)
        next == IF n > 0 THEN Descend(made, size) ELSE moveToNextTask(made)
    IN  IF \/ n < -1
           \/ x.maxelements > 0 /\ n > x.maxelements
           \/ type \in {"map", "attr"} /\ n > LLONG_MAX \div 2
        THEN valkeyReaderSetError(x, "protocol")
        ELSE IF made.made = NULL THEN valkeyReaderSetError(x, "oom")
        ELSE IF x.ridx = 0 THEN [next EXCEPT !.reply = made.made] ELSE next

processAggregateItem(x) ==
    LET y   == IF x.ridx = x.tasks - 1 THEN valkeyReaderGrow(x) ELSE x
        len == seekNewline(Rest(y))
        n   == string2ll(SubSeq(Rest(y), 1, len))
    IN  IF y.err # "none" THEN y
        ELSE IF len = -1 THEN Incomplete(y)
        ELSE IF n = NULL THEN valkeyReaderSetError(y, "protocol")
        ELSE AggregateHeader([y EXCEPT !.pos = @ + len + 2], y.task[y.ridx].type, n)

\* The item's type byte is consumed once and remembered in its task.
processItem(x) ==
    LET byte  == x.buf[x.pos + 1]
        typed == IF x.task[x.ridx].type # NULL THEN x
                 ELSE [x EXCEPT !.pos = @ + 1, !.task[x.ridx].type = ReplyType[byte]]
        type  == typed.task[x.ridx].type
    IN  IF x.task[x.ridx].type = NULL /\ x.pos = Len(x.buf) THEN Incomplete(x)
        ELSE IF x.task[x.ridx].type = NULL /\ byte \notin DOMAIN ReplyType
             THEN valkeyReaderSetError(x, "protocol")
        ELSE IF type \in Aggregates THEN processAggregateItem(typed)
        ELSE IF type \in Bulks THEN processBulkItem(typed)
        ELSE processLineItem(typed)

RECURSIVE ProcessItems(_)
ProcessItems(x) ==
    IF x.ridx < 0 \/ ~ x.ok THEN x ELSE ProcessItems(processItem(x))
-----------------------------------------------------------------------------
(* The interface. *)

valkeyReaderCreate(mem, maxelements) ==
    [buf |-> <<>>, pos |-> 0, tasks |-> StackSize, ridx |-> -1,
     task |-> [j \in 0..(StackSize - 1) |-> FreshTask(0, NULL)],
     reply |-> NULL, err |-> "none", maxelements |-> maxelements,
     objs |-> <<>>, next |-> 1, made |-> NULL, mem |-> mem, ok |-> TRUE]

\* Consumed bytes are dropped whenever new ones arrive.
Compact(x) == [x EXCEPT !.buf = Rest(x), !.pos = 0]

Init ==
    /\ stream \in Streams
    /\ fed = 0
    /\ \E mem \in Memories : r = valkeyReaderCreate(mem, stream.limit)
    /\ got = <<>>
    /\ dry = TRUE
    /\ freed = FALSE

\* valkeyReaderGetReadBuf and valkeyReaderCommitRead with the n next bytes.
valkeyReaderFeed(n) ==
    /\ ~ freed
    /\ r.err = "none"
    /\ fed + n <= Len(stream.bytes)
    /\ fed' = fed + n
    /\ r' = [Compact(r) EXCEPT !.buf = @ \o SubSeq(stream.bytes, fed + 1, fed + n)]
    /\ dry' = FALSE
    /\ UNCHANGED <<stream, got, freed>>

\* The reply as the caller sees it.
RECURSIVE Tree(_, _)
Tree(objs, o) ==
    [type |-> objs[o].type, val |-> objs[o].val,
     elems |-> [i \in DOMAIN objs[o].elems |-> Tree(objs, objs[o].elems[i])]]

\* The reader after the loop of valkeyReaderGetReply.
Parsed(x) ==
    ProcessItems(IF x.ridx = -1
                 THEN [x EXCEPT !.task[0] = FreshTask(-1, NULL), !.ridx = 0, !.ok = TRUE]
                 ELSE [x EXCEPT !.ok = TRUE])

\* A caller that passes no pointer has the reply freed for it.
valkeyReaderGetReply(wanted) ==
    LET x == Parsed(r)
        emitted == x.err = "none" /\ x.ridx = -1
    IN  /\ ~ freed
        /\ r.err = "none"
        /\ Len(r.buf) > 0
        /\ r' = IF emitted THEN [freeReplyObject(x, x.reply) EXCEPT !.reply = NULL,
                                                                    !.made = NULL]
                ELSE [x EXCEPT !.made = NULL]
        /\ got' = IF ~ emitted THEN got
                  ELSE Append(got, IF wanted THEN Tree(x.objs, x.reply) ELSE NULL)
        /\ dry' = ~ emitted
        /\ UNCHANGED <<stream, fed, freed>>

valkeyReaderFree ==
    /\ ~ freed
    /\ freed' = TRUE
    /\ r' = freeReplyObject(r, r.reply)
    /\ UNCHANGED <<stream, fed, got, dry>>

Next ==
    \/ \E n \in Chunks : valkeyReaderFeed(n)
    \/ \E wanted \in BOOLEAN : valkeyReaderGetReply(wanted)
    \/ valkeyReaderFree

Spec == Init /\ [][Next]_vars
-----------------------------------------------------------------------------
(* What the server's bytes stand for: the RESP encoding of reply trees. *)

RECURSIVE Decimal(_)
Decimal(n) ==
    IF n < 0 THEN <<"-">> \o Decimal(-n)
    ELSE IF n < 10 THEN <<Digits[n + 1]>>
    ELSE Append(Decimal(n \div 10), Digits[(n % 10) + 1])

Byte(type) == CHOOSE c \in DOMAIN ReplyType : ReplyType[c] = type
Line(c, text) == <<c>> \o text \o <<CR, LF>>

\* A nil has one of three forms on the wire, its value says which.
RECURSIVE Encode(_)
Encode(t) ==
    CASE t.type = "nil" -> IF t.val = "_" THEN Line("_", <<>>) ELSE Line(t.val, <<"-", "1">>)
      [] t.type = "integer" -> Line(":", Decimal(t.val))
      [] t.type = "bool" -> Line("#", IF t.val = 1 THEN <<"t">> ELSE <<"f">>)
      [] t.type = "string" -> Line("$", Decimal(Len(t.val))) \o t.val \o <<CR, LF>>
      [] t.type = "verb" -> Line("=", Decimal(4 + Len(t.val[2]))) \o t.val[1]
                               \o <<":">> \o t.val[2] \o <<CR, LF>>
      [] t.type \in Aggregates ->
            Line(Byte(t.type), Decimal(IF t.type \in {"map", "attr"}
                                       THEN Len(t.elems) \div 2 ELSE Len(t.elems)))
               \o FlattenSeq([i \in DOMAIN t.elems |-> Encode(t.elems[i])])
      [] OTHER -> Line(Byte(t.type), t.val)

RECURSIVE Visible(_)
Visible(t) ==
    [type |-> t.type, val |-> IF t.type = "nil" THEN <<>> ELSE t.val,
     elems |-> [i \in DOMAIN t.elems |-> Visible(t.elems[i])]]

\* A connection that sends these replies and then the bytes of tail, which are
\* malformed unless there are none; limit is the reader's maxelements, 0 for
\* no limit.
Connection(trees, tail, limit) ==
    [bytes |-> FlattenSeq([i \in DOMAIN trees |-> Encode(trees[i])]) \o tail,
     ends |-> [i \in DOMAIN trees |->
                 Len(FlattenSeq([j \in 1..i |-> Encode(trees[j])]))],
     expected |-> [i \in DOMAIN trees |-> Visible(trees[i])],
     malformed |-> tail # <<>>,
     limit |-> limit]

\* An integer reply with an arbitrary text, well formed only if it is the
\* decimal representation of a long long.
IntegerProbe(text) ==
    LET values == {v \in (-LLONG_MAX - 1)..LLONG_MAX : Decimal(v) = text}
    IN  IF values # {}
        THEN Connection(<<[type |-> "integer", val |-> CHOOSE v \in values : TRUE,
                           elems |-> <<>>]>>, <<>>, 0)
        ELSE Connection(<<>>, Line(":", text), 0)
-----------------------------------------------------------------------------
(* Properties *)

\* Types: a read position lies inside the buffer, the stack inside its array.
TypeOK ==
    /\ r.pos \in 0..Len(r.buf)
    /\ r.ridx \in -1..(r.tasks - 1)
    /\ DOMAIN r.task = 0..(r.tasks - 1)
    /\ r.err \in {"none", "protocol", "oom"}
    /\ r.reply \in DOMAIN r.objs \cup {NULL} \/ freed

Arrived == Cardinality({i \in DOMAIN stream.ends : stream.ends[i] <= fed})

\* However the bytes of the connection are cut, the replies emitted are the
\* ones the server encoded, in order, each as soon as its last byte is there:
\* no reply is altered, merged, split or held back (valkeyReaderGetReply).
RepliesExact ==
    /\ Len(got) <= Arrived
    /\ \A i \in DOMAIN got : got[i] \in {NULL, stream.expected[i]}
    /\ dry /\ r.err = "none" => Len(got) = Arrived

\* A stream is refused exactly when it is malformed and the malformed item is
\* complete; the replies in front of it have all been emitted by then.  Running
\* out of memory is the only other error (the VALKEY_ERR_PROTOCOL returns).
MalformedRefused ==
    /\ r.err = "protocol" => stream.malformed /\ Len(got) = Len(stream.ends)
    /\ dry /\ stream.malformed /\ fed = Len(stream.bytes) /\ fed > 0 => r.err # "none"

\* Every object is reachable from the reply being built, after an error or
\* after valkeyReaderFree none is left (valkeyReaderSetError, freeReplyObject).
NothingLeaks ==
    /\ freed => DOMAIN r.objs = {}
    /\ ~ freed => DOMAIN r.objs = IF r.reply = NULL THEN {} ELSE Owned(r.objs, r.reply)

\* Between two calls the stack describes the half-built reply: each level is an
\* aggregate that is still allocated, with as many elements as its task says,
\* the ones before the current element filled and the others empty (the
\* asserts of moveToNextTask and of the create functions).
StackDescribesReply ==
    r.err = "none" /\ ~ freed =>
    \A j \in 1..r.ridx :
        LET up == r.task[j - 1]
        IN  /\ up.type \in Aggregates
            /\ up.obj \in DOMAIN r.objs
            /\ Len(r.objs[up.obj].elems) = up.elements
            /\ r.task[j].parent = j - 1
            /\ r.task[j].idx \in 0..(up.elements - 1)
            /\ \A i \in 1..up.elements :
                  LET e == r.objs[up.obj].elems[i]
                  IN  IF i - 1 < r.task[j].idx THEN e # NULL
                      ELSE IF i - 1 = r.task[j].idx
                           THEN e = (IF j < r.ridx THEN r.task[j].obj ELSE NULL)
                      ELSE e = NULL

\* The parser accepts exactly the encodings of replies, returns what was encoded,
\* and can stop after any byte because its stack describes what is missing.
ParsesExactly == TypeOK /\ RepliesExact /\ MalformedRefused /\ StackDescribesReply

\* Whatever ends a reply early leaves nothing behind, and ends the stream: after
\* an error nothing is emitted, read or kept (valkeyReaderSetError, the early
\* returns of valkeyReaderFeed and valkeyReaderGetReply).
FailsCleanly ==
    [][/\ NothingLeaks'
       /\ r.err # "none" => r'.err = r.err /\ got' = got /\ r'.buf = <<>>]_vars
=============================================================================
