------------------------------- MODULE Format -------------------------------
(***************************************************************************)
(* How hiredis writes a command for Redis (hiredis.c:189-560): from a      *)
(* format and the arguments of its conversions, or from a list of          *)
(* arguments.  A format is a sequence of characters, an argument the bytes *)
(* that its conversion makes of it.                                        *)
(***************************************************************************)
EXTENDS Reader

\* Nothing to send: redisvFormatCommand returns -2.
BadFormat == [ok |-> FALSE, len |-> -2, cmd |-> <<>>]

flags      == {"#", "0", "-", "+", " "}
intfmts    == {"d", "i", "o", "u", "x", "X"}
doublefmts == {"e", "E", "f", "F", "g", "G", "a", "A"}

\* The most characters of a conversion that sdscatvprintf is called for.
FORMAT_SIZE == 16 - 3
-----------------------------------------------------------------------------
(* Lengths.                                                                *)

countDigits[v \in Nat] ==
    IF v < 10 THEN 1
    ELSE IF v < 100 THEN 2
    ELSE IF v < 1000 THEN 3
    ELSE IF v < 10000 THEN 4
    ELSE countDigits[v \div 10000] + 4

\* Mutant of bulklen: the length of a bulk is taken to have one digit.
ShortBulklen(len) == 1 + 1 + 2 + len + 2

bulklen(len) == 1 + countDigits[len] + 2 + len + 2

\* sdsull2str: the digits of a number.
Decimal[v \in Nat] ==
    LET digit == <<CHOOSE d \in DOMAIN Digit : Digit[d] = v % 10>>
    IN  IF v < 10 THEN digit ELSE Decimal[v \div 10] \o digit
-----------------------------------------------------------------------------
(* The arguments that a format stands for.                                 *)

\* After the first n characters, the longest run of these.
After(format, n, chars) ==
    LET m == {k \in n..Len(format) : \A i \in (n + 1)..k : format[i] \in chars}
    IN  Max(m)

At(format, n) == IF n \in DOMAIN format THEN format[n] ELSE "end"

\* The characters of the size of a conversion that is at p.
SizeAt(format, p) ==
    LET twice(c) == At(format, p) = c /\ At(format, p + 1) = c
    IN  IF twice("h") \/ twice("l") THEN 2
        ELSE IF At(format, p) \in {"h", "l"} THEN 1 ELSE 0

\* Where the letter after the size is, or 0 if there is none.
LetterAt(format, p, size) ==
    IF \/ At(format, p + size) \in intfmts
       \/ size = 0 /\ At(format, p) \in doublefmts
    THEN p + size ELSE 0

PrecisionEnd(format, n) ==
    IF At(format, n + 1) = "." THEN After(format, n + 1, DOMAIN Digit) ELSE n

\* Where the printf conversion at n ends, or 0 if there is none: flags, width,
\* precision, size, and a letter.
PrintfEnd(format, n) ==
    LET AfterPrecision(p) == LetterAt(format, p, SizeAt(format, p))
        width == After(format, After(format, n, flags), DOMAIN Digit)
    IN  AfterPrecision(PrecisionEnd(format, width) + 1)

\* An argument complete is added to argv; one that nothing touched is none.
Push(st) ==
    IF st.touched
    THEN [st EXCEPT !.argv = Append(@, st.curarg), !.curarg = sdsempty,
                    !.touched = FALSE]
    ELSE st

\* Mutant of Touch: only an argument with bytes in it is touched.
TouchBytes(st, bytes) ==
    [st EXCEPT !.curarg = sdscatlen(@, bytes), !.touched = @ \/ bytes # <<>>]

Touch(st, bytes) ==
    [st EXCEPT !.curarg = sdscatlen(@, bytes), !.touched = TRUE]

\* The scan goes on to n, with these arguments left.
Goto(st, n, args) == [st EXCEPT !.n = n, !.args = args]

\* The character or the conversion of a format where a scan is: a conversion
\* that is not one ends it.  No format ends inside a conversion.
ScanNext(format, st) ==
    LET n    == st.n
        next == At(format, n + 1)
        Printf(end) ==
            IF end = 0 THEN [st EXCEPT !.ok = FALSE]
            ELSE IF end - n < FORMAT_SIZE
            THEN Goto(Touch(st, Head(st.args)), end + 1, Tail(st.args))
            ELSE Goto(Touch(st, <<>>), n + 2, Tail(st.args))
    IN  IF n > Len(format) \/ ~st.ok THEN st
        ELSE IF format[n] = " " THEN Goto(Push(st), n + 1, st.args)
        ELSE IF format[n] # "%" \/ next = "end"
        THEN Goto(Touch(st, <<format[n]>>), n + 1, st.args)
        ELSE IF next \in {"s", "b"}
        THEN Goto(Touch(st, Head(st.args)), n + 2, Tail(st.args))
        ELSE IF next = "%" THEN Goto(Touch(st, <<"%">>), n + 2, st.args)
        ELSE Printf(PrintfEnd(format, n))

\* The arguments of a format, and whether all its conversions are ones: there
\* are no more steps than characters.
Scan(format, args) ==
    Push(FoldLeft(LAMBDA st, c : ScanNext(format, st),
                  [ok |-> TRUE, argv |-> <<>>, curarg |-> sdsempty, touched |-> FALSE,
                   n |-> 1, args |-> args],
                  format))
-----------------------------------------------------------------------------
(* The command.                                                            *)

CRLF == <<CR, LF>>
Bulk(arg) == <<"$">> \o Decimal[Len(arg)] \o CRLF \o arg \o CRLF

\* The length is computed before the bytes are written.
Total(argv) ==
    FoldLeft(LAMBDA n, arg : n + bulklen(Len(arg)), 1 + countDigits[Len(argv)] + 2, argv)

redisFormatCommandArgv(argv) ==
    [ok  |-> TRUE,
     len |-> Total(argv),
     cmd |-> <<"*">> \o Decimal[Len(argv)] \o CRLF
             \o FoldLeft(LAMBDA s, arg : s \o Bulk(arg), <<>>, argv)]

\* The same in a string that has room for it.
redisFormatSdsCommandArgv(argv) ==
    LET room  == sdsMakeRoomFor(sdsempty, Total(argv))
        count == sdscatlen(room, <<"*">> \o Decimal[Len(argv)] \o CRLF)
        cmd   == FoldLeft(LAMBDA s, arg : sdscatlen(s, Bulk(arg)), count, argv)
    IN  [ok |-> TRUE, len |-> Total(argv), cmd |-> cmd.buf]

redisvFormatCommand(format, args) ==
    LET st == Scan(format, args) IN
    IF st.ok THEN redisFormatCommandArgv([i \in DOMAIN st.argv |-> st.argv[i].buf])
    ELSE BadFormat
=============================================================================
