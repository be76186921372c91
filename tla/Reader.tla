------------------------------- MODULE Reader -------------------------------
(***************************************************************************)
(* The parser of replies of hiredis (read.c), with the functions that      *)
(* build reply objects (hiredis.c:54-187).  It is fed bytes as they come,  *)
(* cut anywhere, and keeps where it is in a reply in a stack of tasks.     *)
(*                                                                         *)
(* A reply object is a tree of pointers.  Here it is a function from the   *)
(* place of an object in it, the indexes that lead there from the root, to *)
(* what the object is; an element that is NULL has no place in it.         *)
(***************************************************************************)
EXTENDS Sds, SequencesExt

CONSTANTS
    DISCARD,               \* bytes consumed before the buffer is shifted
    REDIS_READER_MAX_BUF,  \* more room than this is not kept
    STACK,                 \* tasks in rstack
    LLONG_MAX,             \* largest integer
    INT_MAX                \* most elements of an array

ULLONG_MAX == 2 * LLONG_MAX + 1

\* The code has 1024, 16384, 9, 2^63-1 and 2^31-1.
ASSUME ReaderAssumption ==
    /\ {DISCARD, REDIS_READER_MAX_BUF, STACK, LLONG_MAX, INT_MAX} \subseteq Nat \ {0}
    /\ INT_MAX <= LLONG_MAX

CR == "\r"
LF == "\n"

\* The value of a digit.
Digit == [d \in {"0", "1", "2", "3", "4", "5", "6", "7", "8", "9"} |->
            CHOOSE n \in 0..9 : ToString(n) = d]

TypeOfByte == [b \in {"-", "+", ":", "$", "*"} |->
                 CASE b = "-" -> "ERROR"
                   [] b = "+" -> "STATUS"
                   [] b = ":" -> "INTEGER"
                   [] b = "$" -> "STRING"
                   [] b = "*" -> "ARRAY"]

NoReply == <<>>                                        \* NULL
Root == <<>>                                           \* the place of the root
Untyped == [type |-> "none", elements |-> -1, idx |-> 0]
-----------------------------------------------------------------------------
(* Numbers and lines.                                                      *)

\* One more digit of an unsigned number, or -1 if it overflows.
AddDigit(v, d) ==
    IF v = -1 \/ v > ULLONG_MAX \div 10 \/ 10 * v > ULLONG_MAX - Digit[d]
    THEN -1 ELSE 10 * v + Digit[d]

\* The number that the digits are, strictly: no zeros at its start.
Unsigned(digits) ==
    IF /\ digits # <<>>
       /\ \A i \in DOMAIN digits : digits[i] \in DOMAIN Digit
       /\ digits[1] # "0"
    THEN {FoldLeft(AddDigit, 0, digits)} ELSE {}

\* The number that the bytes are: none if they are not one, or overflow.
string2ll(s) ==
    IF s = <<"0">> THEN {0}
    ELSE IF s # <<>> /\ s[1] = "-"
    THEN {0 - v : v \in Unsigned(Tail(s)) \cap 0..(LLONG_MAX + 1)}
    ELSE Unsigned(s) \cap 0..LLONG_MAX

\* The bytes not consumed yet.
Rest(r) == SubSeq(r.buf.buf, r.pos + 1, r.len)

\* How many bytes come before the first CR LF, or -1.
seekNewline(s) ==
    LET ends == {i \in 1..(Len(s) - 1) : s[i] = CR /\ s[i + 1] = LF}
    IN  IF ends = {} THEN -1 ELSE Min(ends) - 1
-----------------------------------------------------------------------------
(* Tasks.  What processes an item returns the reader, and whether the item *)
(* was complete; it was not if there are bytes missing, or on an error.    *)

Done(r) == [ok |-> TRUE, r |-> r]
Stop(r) == [ok |-> FALSE, r |-> r]

redisReaderCreate ==
    [err |-> FALSE, buf |-> sdsempty, pos |-> 0, len |-> 0,
     stack |-> <<>>, reply |-> NoReply]

\* __redisReaderSetError: everything read is thrown away.
Fail(r) == Stop([redisReaderCreate EXCEPT !.err = TRUE])

Current(r) == Last(r.stack)

\* The place of the current task's object in the reply.
Place(r) == [i \in 1..(Len(r.stack) - 1) |-> r.stack[i + 1].idx]

\* createStringObject, createIntegerObject, createNilObject and
\* createArrayObject: the object is put in its parent, or is the reply.
Create(r, obj) ==
    [r EXCEPT !.reply =
        IF Len(r.stack) = 1 THEN [place \in {Root} |-> obj]
        ELSE [place \in DOMAIN @ \cup {Place(r)} |->
                IF place = Place(r) THEN obj ELSE @[place]]]

\* The next element of the innermost array that is not complete.
moveToNextTask(r) ==
    LET more == {d \in 2..Len(r.stack) :
                   r.stack[d].idx # r.stack[d - 1].elements - 1}
    IN  IF more = {} THEN [r EXCEPT !.stack = <<>>]
        ELSE [r EXCEPT !.stack = Append(SubSeq(@, 1, Max(more) - 1),
                 [Untyped EXCEPT !.idx = r.stack[Max(more)].idx + 1])]

\* The object is complete, and the reader goes on behind it.
Complete(r, obj) == Done(moveToNextTask(Create(r, obj)))

\* readLine: then is given the next line, if it is there, and the reader past it.
WithLine(r, then(_, _)) ==
    LET n == seekNewline(Rest(r))
    IN  IF n = -1 THEN Stop(r)
        ELSE then(SubSeq(Rest(r), 1, n), [r EXCEPT !.pos = @ + n + 2])

\* then is given the number that the line is, if it is one in the range.
WithNumber(r, line, range, then(_)) ==
    IF string2ll(line) \cap range = {} THEN Fail(r)
    ELSE then(CHOOSE v \in string2ll(line) : TRUE)

processLineItem(r) ==
    WithLine(r, LAMBDA line, past :
        IF Current(r).type = "INTEGER"
        THEN WithNumber(r, line, (-LLONG_MAX - 1)..LLONG_MAX, LAMBDA v :
                 Complete(past, [type |-> "INTEGER", integer |-> v]))
        ELSE Complete(past, [type |-> Current(r).type, str |-> line]))

\* The bytes of a string, after which so many more are waited for.
String(r, past, len, end) ==
    IF len = -1 THEN Complete(past, [type |-> "NIL"])
    ELSE IF past.pos + len + end > r.len THEN Stop(r)
    ELSE Complete([past EXCEPT !.pos = @ + len + 2],
                  [type |-> "STRING", str |-> SubSeq(Rest(past), 1, len)])

\* Mutant of processBulkItem: the CR LF after the bytes is not waited for.
BulkUnended(r) ==
    WithLine(r, LAMBDA line, past :
        WithNumber(r, line, -1..LLONG_MAX, LAMBDA len : String(r, past, len, 0)))

\* A string is created once all its bytes are there, and the CR LF after it.
processBulkItem(r) ==
    WithLine(r, LAMBDA line, past :
        WithNumber(r, line, -1..LLONG_MAX, LAMBDA len : String(r, past, len, 2)))

\* The task of an array stays on the stack, below that of its first element.
Elements(array, count) ==
    IF count = 0 THEN Done(moveToNextTask(array))
    ELSE Done([array EXCEPT !.stack =
                  Append([@ EXCEPT ![Len(@)].elements = count], Untyped)])

processMultiBulkItem(r) ==
    IF Len(r.stack) = STACK THEN Fail(r)
    ELSE WithLine(r, LAMBDA line, past :
        WithNumber(r, line, -1..INT_MAX, LAMBDA count :
            IF count = -1 THEN Complete(past, [type |-> "NIL"])
            ELSE Elements(Create(past, [type |-> "ARRAY", elements |-> count]), count)))

\* The type of an item is read once, before the rest of it is there.
ReadType(r) ==
    IF Current(r).type # "none" THEN Done(r)
    ELSE IF Rest(r) = <<>> THEN Stop(r)
    ELSE IF Head(Rest(r)) \notin DOMAIN TypeOfByte THEN Fail(r)
    ELSE Done([r EXCEPT !.pos = @ + 1,
              !.stack = [@ EXCEPT ![Len(@)].type = TypeOfByte[Head(Rest(r))]]])

ProcessTyped(item) ==
    IF ~item.ok THEN item
    ELSE CASE Current(item.r).type \in {"ERROR", "STATUS", "INTEGER"} ->
                processLineItem(item.r)
           [] Current(item.r).type = "STRING" -> processBulkItem(item.r)
           [] Current(item.r).type = "ARRAY"  -> processMultiBulkItem(item.r)

processItem(r) == ProcessTyped(ReadType(r))

\* The loop: how it stands after n items, or fewer if it has ended.
Items(r) ==
    LET after[n \in Nat] ==
            LET last == after[n - 1] IN
            IF n = 0 THEN Done(r)
            ELSE IF last.ok /\ last.r.stack # <<>> THEN processItem(last.r) ELSE last
    IN  after

\* An item that is complete has taken bytes: there are no more than bytes.
processItems(r) == Items(r)[Len(Rest(r)) + 1].r
-----------------------------------------------------------------------------
(* What the reader offers.                                                 *)

\* A large buffer is not kept when it is empty.
redisReaderFeed(r, bytes) ==
    LET anew == r.len = 0 /\ sdsavail(r.buf) > REDIS_READER_MAX_BUF
        buf  == sdscatlen(IF anew THEN sdsempty ELSE r.buf, bytes)
    IN  IF r.err THEN r
        ELSE [r EXCEPT !.buf = buf, !.pos = IF anew THEN 0 ELSE @, !.len = sdslen(buf)]

\* The bytes consumed, once they are many.
Discard(r) ==
    IF r.pos >= DISCARD
    THEN [r EXCEPT !.buf = sdsrange(@, r.pos, -1), !.pos = 0,
                   !.len = sdslen(sdsrange(r.buf, r.pos, -1))]
    ELSE r

\* A reply that is complete is handed out.
Deliver(r) ==
    IF r.stack = <<>> THEN [reply |-> r.reply, r |-> [r EXCEPT !.reply = NoReply]]
    ELSE [reply |-> NoReply, r |-> r]

\* As many items as there are; a reply if one is complete.
redisReaderGetReply(r) ==
    LET AfterItems(read) ==
            IF read.err THEN [reply |-> NoReply, r |-> read] ELSE Deliver(Discard(read))
    IN  IF r.err \/ r.len = 0 THEN [reply |-> NoReply, r |-> r]
        ELSE AfterItems(processItems(
                 IF r.stack = <<>> THEN [r EXCEPT !.stack = <<Untyped>>] ELSE r))

\* What the fields of a reader are: it is never further than the bytes it
\* has, and its stack is that of a reply that it has begun.
IsReader(r, Byte) ==
    /\ r.err \in BOOLEAN
    /\ IsSds(r.buf, Byte)
    /\ r.len = sdslen(r.buf)
    /\ r.pos \in 0..r.len
    /\ Len(r.stack) \in 0..STACK
    /\ r.stack = <<>> => r.reply = NoReply
    /\ \A d \in DOMAIN r.stack :
         /\ r.stack[d].type \in {"none"} \cup {TypeOfByte[b] : b \in DOMAIN TypeOfByte}
         /\ d > 1 => /\ r.stack[d - 1].type = "ARRAY"
                     /\ r.stack[d].idx \in 0..(r.stack[d - 1].elements - 1)
=============================================================================
