--------------------------------- MODULE Dict -------------------------------
(***************************************************************************)
(* The hash table of hiredis (dict.c), in which the asynchronous API keeps *)
(* the callbacks of channels and of patterns.  A slot of the table is a    *)
(* chain of entries; the length of the table is a power of two times       *)
(* DICT_HT_INITIAL_SIZE, and doubles when it holds as many entries.        *)
(***************************************************************************)
EXTENDS Integers, SequencesExt

CONSTANTS
    Keys,
    HashOf,                 \* the hash of a key
    DICT_HT_INITIAL_SIZE

ASSUME DictAssumption ==
    /\ HashOf \in [Keys -> Nat]
    /\ DICT_HT_INITIAL_SIZE \in Nat \ {0}

\* dictGenHashFunction: hash * 33 + c for each byte.  The hash has 32 bits in
\* the code; the low 16 kept here are all that a smaller table looks at.
dictGenHashFunction(buf) == FoldLeft(LAMBDA hash, c : (hash * 33 + c) % 2^16, 5381, buf)

dictCreate == [size |-> 0, table |-> <<>>, used |-> 0]

\* The slot of a key in a table of so many, counted from 1.
Slot(key, size) == (HashOf[key] % size) + 1

\* The entries in the order in which dictNext returns them.
Entries(ht) ==
    LET upTo[n \in 0..Len(ht.table)] ==
            IF n = 0 THEN <<>> ELSE upTo[n - 1] \o ht.table[n]
    IN  upTo[Len(ht.table)]

Doubled[k \in Nat] == IF k = 0 THEN DICT_HT_INITIAL_SIZE ELSE 2 * Doubled[k - 1]

dictNextPower(size) ==
    Doubled[CHOOSE k \in 0..size :
        Doubled[k] >= size /\ \A j \in 0..(k - 1) : Doubled[j] < size]

\* Mutant of dictExpand: the chains are kept at their places.
ExpandInPlace(ht, size) ==
    [ht EXCEPT !.size = dictNextPower(size),
               !.table = @ \o [i \in 1..(dictNextPower(size) - ht.size) |-> <<>>]]

\* Every entry goes to the head of its new chain.
dictExpand(ht, size) ==
    LET realsize == dictNextPower(size)
        all == Entries(ht)
        moved[n \in 0..Len(all)] ==
            IF n = 0 THEN [i \in 1..realsize |-> <<>>]
            ELSE [moved[n - 1] EXCEPT ![Slot(all[n].key, realsize)] = <<all[n]>> \o @]
    IN  IF ht.used > size THEN ht
        ELSE [ht EXCEPT !.size = realsize, !.table = moved[Len(all)]]

dictExpandIfNeeded(ht) ==
    IF ht.size = 0 THEN dictExpand(ht, DICT_HT_INITIAL_SIZE)
    ELSE IF ht.used = ht.size THEN dictExpand(ht, ht.size * 2)
    ELSE ht

\* The entries of the key: none or one.
dictFind(ht, key) ==
    IF ht.size = 0 THEN {}
    ELSE {e \in Range(ht.table[Slot(key, ht.size)]) : e.key = key}

dictGetEntryVal(entry) == (CHOOSE e \in entry : TRUE).val

\* The value of an entry that is there is changed where it is.
SetVal(ht, key, val) ==
    [ht EXCEPT !.table[Slot(key, ht.size)] =
        [i \in DOMAIN @ |-> IF @[i].key = key THEN [@[i] EXCEPT !.val = val] ELSE @[i]]]

\* dictAdd, or a new value; the table grows first, even if it need not.
dictReplace(ht, key, val) ==
    LET bigger == dictExpandIfNeeded(ht) IN
    IF dictFind(bigger, key) # {} THEN SetVal(bigger, key, val)
    ELSE [bigger EXCEPT
            !.table[Slot(key, bigger.size)] = <<[key |-> key, val |-> val]>> \o @,
            !.used = @ + 1]

dictDelete(ht, key) ==
    IF dictFind(ht, key) = {} THEN ht
    ELSE [ht EXCEPT
            !.table[Slot(key, ht.size)] =
                RemoveAt(@, CHOOSE i \in DOMAIN @ : @[i].key = key),
            !.used = @ - 1]

\* A dict with these values: every entry in the chain where dictFind looks
\* for its key, one for each key, all counted in used.
IsDict(ht, Values) ==
    LET all == Entries(ht) IN
    /\ ht = [size |-> Len(ht.table), table |-> ht.table, used |-> Len(all)]
    /\ ht.table \in Seq(Seq([key : Keys, val : Values]))
    /\ ht.size = 0 \/ ht.size = dictNextPower(ht.size)
    /\ \A i \in DOMAIN ht.table : \A j \in DOMAIN ht.table[i] :
         Slot(ht.table[i][j].key, ht.size) = i
    /\ \A i, j \in DOMAIN all : all[i].key = all[j].key => i = j
=============================================================================
