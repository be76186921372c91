------------------------------- MODULE MCAsync ------------------------------
(* Instances of Async for TLC: keys, their hashes, and commands.           *)
EXTENDS Async

CONSTANTS a, b

\* The bytes "b" and "d": in a table of two they share the second chain.
MCHashOf == (a :> dictGenHashFunction(<<98>>)) @@ (b :> dictGenHashFunction(<<100>>))

Com(kind, p, names, fn) == [kind |-> kind, p |-> p, names |-> names, fn |-> fn]

Quit            == Com("QUIT", FALSE, <<>>, TRUE)
Get(fn)         == Com("GET", FALSE, <<>>, fn)
Subs(p, names)  == Com("SUBSCRIBE", p, names, ~p)
Unsubs(p, name) == Com("UNSUBSCRIBE", p, <<name>>, FALSE)

MCScripts ==
    {<<Get(TRUE), Get(FALSE), Quit>>,
     <<Com("MONITOR", FALSE, <<>>, TRUE)>>,
     <<Subs(FALSE, <<a>>), Unsubs(FALSE, a), Subs(FALSE, <<a>>)>>,
     <<Subs(FALSE, <<a, b>>), Quit>>,
     <<Subs(FALSE, <<a, b>>), Unsubs(FALSE, a)>>,
     <<Subs(FALSE, <<a>>), Get(TRUE), Unsubs(FALSE, a)>>,
     <<Subs(TRUE, <<a>>), Unsubs(TRUE, a), Get(TRUE)>>}
=============================================================================
