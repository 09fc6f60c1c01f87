-------------------------------- MODULE Dict --------------------------------
(***************************************************************************)
(* The hash table of src/src/dict.c as a value: size is a power of two (0  *)
(* before the first insertion), used counts the entries, table maps every  *)
(* bucket to its chain of entries, newest first.  An entry [key, val] is   *)
(* identified by its key, which is unique.  The hash is any function.      *)
(***************************************************************************)
EXTENDS Integers, Sequences, SequencesExt

CONSTANTS HashOf,     \* the hash of every key
          NULL

DICT_HT_INITIAL_SIZE == 4

dictCreate == [size |-> 0, used |-> 0, table |-> <<>>]

Bucket(n, key) == HashOf[key] % n

\* The chains one after the other, in the order in which buckets are visited.
Entries(d) == FoldLeft(LAMBDA acc, i : acc \o d.table[i], <<>>,
                       [i \in 1..d.size |-> i - 1])

\* Every entry of the old table is pushed on the front of its new chain.
dictExpand(d, n) ==
    [size |-> n, used |-> d.used,
     table |-> [h \in 0..n-1 |->
                  Reverse(SelectSeq(Entries(d), LAMBDA e : Bucket(n, e.key) = h))]]

_dictExpandIfNeeded(d) ==
    IF d.size = 0 THEN dictExpand(d, DICT_HT_INITIAL_SIZE)
    ELSE IF d.used = d.size THEN dictExpand(d, 2 * d.size)
    ELSE d

\* The chain a key belongs to.
ChainOf(d, key) == IF d.size = 0 THEN <<>> ELSE d.table[Bucket(d.size, key)]

dictHas(d, key) == \E k \in 1..Len(ChainOf(d, key)) : ChainOf(d, key)[k].key = key

\* dictFind and dictGetVal.
dictFind(d, key) ==
    IF dictHas(d, key)
    THEN LET c == ChainOf(d, key) IN
         c[CHOOSE k \in 1..Len(c) : c[k].key = key].val
    ELSE NULL

\* The table after dictAdd, which grows before it looks for the key.
dictAdd(d, key, val) ==
    LET e == _dictExpandIfNeeded(d) IN
    IF dictHas(e, key) THEN e
    ELSE [e EXCEPT !.used = @ + 1,
                   !.table[Bucket(e.size, key)] =
                       <<[key |-> key, val |-> val]>> \o @]

\* dictSetVal on the entry of a key that is there.
dictSetVal(d, key, val) ==
    [d EXCEPT !.table[Bucket(d.size, key)] =
        [k \in 1..Len(@) |-> IF @[k].key = key THEN [@[k] EXCEPT !.val = val]
                             ELSE @[k]]]

dictKeys(d) == {Entries(d)[k].key : k \in 1..Len(Entries(d))}

-----------------------------------------------------------------------------
(* Iterators: entry is the key returned last, nextEntry the one saved for   *)
(* the next call.                                                           *)

dictInitIterator == [index |-> -1, entry |-> NULL, nextEntry |-> NULL]

\* entry->next of the entry with this key.
NextInChain(d, key) ==
    LET c == ChainOf(d, key)
        k == CHOOSE j \in 1..Len(c) : c[j].key = key
    IN  IF k < Len(c) THEN c[k + 1].key ELSE NULL

\* The iterator after dictNext; its entry is the result.
dictNext(iter, d) ==
    LET later == {j \in 0..d.size-1 : j > iter.index /\ d.table[j] # <<>>} IN
    IF iter.entry # NULL /\ iter.nextEntry # NULL
    THEN [iter EXCEPT !.entry = iter.nextEntry,
                      !.nextEntry = NextInChain(d, iter.nextEntry)]
    ELSE IF later = {} THEN [index |-> d.size, entry |-> NULL, nextEntry |-> NULL]
    ELSE LET i == CHOOSE j \in later : \A l \in later : j <= l
             e == d.table[i][1].key
         IN  [index |-> i, entry |-> e, nextEntry |-> NextInChain(d, e)]
=============================================================================
