------------------------------ MODULE MCHiredis -----------------------------
(* Instances of Hiredis for TLC: commands and answers.                     *)
EXTENDS Hiredis

\* Types of strings of fewer than 8, 32, 100 and 200 bytes.
MCLimits == (0 :> 8) @@ (1 :> 32) @@ (2 :> 100) @@ (3 :> 200) @@ (4 :> 1000)
-----------------------------------------------------------------------------
(* A format is made of words, a word of literal characters and of          *)
(* conversions with the bytes that they make.                              *)

Literal(c) == [format |-> <<c>>, args |-> <<>>, text |-> <<c>>]
Percent == [format |-> <<"%", "%">>, args |-> <<>>, text |-> <<"%">>]
Argument(conversion, bytes) ==
    [format |-> <<"%">> \o conversion, args |-> <<bytes>>, text |-> bytes]

Concat(ss) == FoldLeft(LAMBDA x, y : x \o y, <<>>, ss)
Word(w) ==
    [format |-> Concat([i \in DOMAIN w |-> w[i].format]),
     args   |-> Concat([i \in DOMAIN w |-> w[i].args]),
     text   |-> Concat([i \in DOMAIN w |-> w[i].text])]

\* The words, with two spaces before each.
CommandOf(words) ==
    LET ws == [i \in DOMAIN words |-> Word(words[i])] IN
    [format |-> Concat([i \in DOMAIN ws |-> <<" ", " ">> \o ws[i].format]),
     args   |-> Concat([i \in DOMAIN ws |-> ws[i].args]),
     argv   |-> [i \in DOMAIN ws |-> ws[i].text]]

\* An argument with CR LF in it, one that is empty, one of ten bytes, and
\* a format that is not one.
MCCommands ==
    {CommandOf(<<<<Literal("G"), Argument(<<"s">>, CRLF)>>>>),
     CommandOf(<<<<Argument(<<"b">>, <<>>)>>,
                 <<Literal("k"), Percent,
                   Argument(<<"+", "2", ".", "8", "l", "l", "d">>, [i \in 1..8 |-> "7"])>>>>),
     [CommandOf(<<<<Literal("A")>>>>) EXCEPT !.format = <<"%", "h", "s">>]}
-----------------------------------------------------------------------------
(* Replies, and how Redis writes them.                                     *)

Str(type, s) == [type |-> type, str |-> s]
Num(n)       == [type |-> "INTEGER", integer |-> n]
Array(n)     == [type |-> "ARRAY", elements |-> n]
Nil          == [type |-> "NIL"]

Number(n) == IF n < 0 THEN <<"-">> \o Decimal[0 - n] ELSE Decimal[n]

RECURSIVE Encode(_, _)
Encode(reply, place) ==
    LET obj == reply[place] IN
    CASE obj.type = "STATUS"  -> <<"+">> \o obj.str \o CRLF
      [] obj.type = "ERROR"   -> <<"-">> \o obj.str \o CRLF
      [] obj.type = "INTEGER" -> <<":">> \o Number(obj.integer) \o CRLF
      [] obj.type = "STRING"  -> Bulk(obj.str)
      [] obj.type = "NIL"     -> <<"$", "-", "1">> \o CRLF
      [] obj.type = "ARRAY"   ->
           <<"*">> \o Decimal[obj.elements] \o CRLF
           \o Concat([i \in 1..obj.elements |-> Encode(reply, Append(place, i - 1))])

Good(reply) == [bytes |-> Encode(reply, Root), reply |-> reply]
Bad(bytes)  == [bytes |-> bytes \o CRLF, reply |-> NoReply]

MCAnswers ==
    {Good(Root :> Str("STATUS", <<"O", "K">>)),
     Good((Root :> Array(2)) @@ (<<0>> :> Array(3)) @@ (<<0, 0>> :> Nil)
          @@ (<<0, 1>> :> Str("STRING", CRLF)) @@ (<<0, 2>> :> Num(-LLONG_MAX - 1))
          @@ (<<1>> :> Array(0))),
     Bad(<<":", "1", "2", "8">>),
     Bad(Concat([i \in 1..(STACK - 1) |-> <<"*", "1">> \o CRLF]) \o <<"*">>)}

\* What redis.c does, and the ways that can go wrong without an error.
MCHows ==
    {[kind |-> "TCP", block |-> TRUE, reuse |-> FALSE, source |-> FALSE, timeout |-> "valid"],
     [kind |-> "TCP", block |-> FALSE, reuse |-> TRUE, source |-> TRUE, timeout |-> "none"],
     [kind |-> "UNIX", block |-> TRUE, reuse |-> FALSE, source |-> FALSE, timeout |-> "invalid"]}
=============================================================================
