------------------------------ MODULE Exchange ------------------------------
(***************************************************************************)
(* One tnfs-server (tnfs-server.c) and the clients that ask it for a block *)
(* (network.c), over TCP.  A client sends a CID, the server answers Y or   *)
(* N, the client asks for the BLOCK or for PEERS, and the server sends a   *)
(* number and then as many bytes or addresses.                             *)
(*                                                                         *)
(* The server forks a child for every connection and keeps its own         *)
(* descriptor of it open, which later children inherit: a client sees the  *)
(* end of a connection only when all of them are gone.                     *)
(*                                                                         *)
(* Messages are SIZE bytes, a text and zeros to the end, and are read with *)
(* one recv, which may return less.  Here a message is three units, two    *)
(* for the text and one for the zeros, and SIZE is 3.  A unit of a block   *)
(* is as long.                                                             *)
(***************************************************************************)
EXTENDS Integers, Sequences, FiniteSets

CONSTANTS
    Clients,   \* connections: each client asks this server once
    Cids,      \* blocks that are asked for
    Peers,     \* addresses that the server knows
    Held,      \* what the server may have of a block
    Length,    \* length of a block, in units
    Limits,    \* how many descriptors the parent may have left at the start
    Faults,    \* what may go wrong, see below
    MaxFaults  \* bound: how often something goes wrong

ASSUME ExchangeAssumption ==
    /\ Held \subseteq {"none", "whole", "bad", "missing"}
    /\ Length \in Nat \ {0, 1}
    /\ Limits \subseteq Nat
    /\ IsFiniteSet(Peers)
    /\ Faults \subseteq {"crash", "client", "fork", "short"}
    /\ MaxFaults \in Nat
    /\ (Cids \cup Peers) \cap {"Y", "N", "BLOCK", "PEERS", "number", ""} = {}

VARIABLES
    held,      \* what the server has of a block
    parent,    \* "listening" or "gone"
    fds,       \* descriptors that the parent has left
    backlog,   \* connections not accepted yet
    accepted,  \* those accepted, in order
    child,     \* child[c]: what the child for c does, "none" before the fork
    buffer,    \* buffer[c]: the CID that the child for c was asked for
    up,        \* up[c]: units on their way to the server
    down,      \* down[c]: units on their way to the client
    left,      \* left[c]: units or addresses that the child has to send
    pc,        \* what the client does
    asked,     \* the CID it asked for
    remain,    \* units or addresses it still expects
    got,       \* units it has written to the file
    learnt,    \* what it has stored as addresses
    result,    \* how look_for_block ended, for this server
    faults     \* how often something went wrong

vars == <<held, parent, fds, backlog, accepted, child, buffer, up, down, left,
          pc, asked, remain, got, learnt, result, faults>>
server == <<held, parent, fds, backlog, accepted, child, buffer, left>>
client == <<pc, asked, remain, got, learnt, result>>
-----------------------------------------------------------------------------
(* Messages.                                                               *)

SIZE == 3
Message(m) == [i \in 1..SIZE |-> [of |-> m, part |-> i]]
Block == [i \in 1..Length |-> [of |-> "data", part |-> i]]

\* One character fits in the first unit; the rest of the message is zeros.
Zeros(u) ==
    u.of # "data" /\ (u.part = SIZE \/ (u.part = 2 /\ u.of \in {"Y", "N"}))

\* The string in a zeroed buffer into which the units b were received.
Text(b) ==
    IF b = <<>> \/ Zeros(b[1]) THEN ""
    ELSE IF b[1].part = 1 /\ (Len(b) > 1 \/ b[1].of \in {"Y", "N"}) THEN b[1].of
    ELSE "garbled"

\* recv with a buffer of SIZE bytes: b is what it returns of the stream s.
\* A short recv is one that leaves out what it could have returned.
Receives(s, b) ==
    /\ s # <<>>
    /\ \E k \in 1..SIZE :
        /\ k <= Len(s)
        /\ b = SubSeq(s, 1, k)
        /\ IF k < SIZE /\ k < Len(s)
           THEN "short" \in Faults /\ faults < MaxFaults /\ faults' = faults + 1
           ELSE UNCHANGED faults

Prefixes(s) == {SubSeq(s, 1, k) : k \in 1..Len(s)}
After(s, b) == SubSeq(s, Len(b) + 1, Len(s))

Fault(f) == f \in Faults /\ faults < MaxFaults /\ faults' = faults + 1

\* No process of the server has a descriptor of the connection: neither the
\* parent, nor the child that serves it, nor one forked after that one.
Closed(c) ==
    /\ parent = "gone"
    /\ \A i, j \in DOMAIN accepted :
         accepted[i] = c /\ i <= j => child[accepted[j]] \in {"none", "gone"}

\* recv at the end of the stream: 0, or an error if the other side was gone
\* before it read all that was sent to it.
AtEnd(c) == down[c] = <<>> /\ Closed(c) /\ UNCHANGED <<down, faults>>
Reset(c) == AtEnd(c) /\ up[c] # <<>>
-----------------------------------------------------------------------------
Init ==
    /\ held \in [Cids -> Held]
    /\ parent = "listening"
    /\ fds \in Limits
    /\ backlog = <<>>
    /\ accepted = <<>>
    /\ child = [c \in Clients |-> "none"]
    /\ buffer = [c \in Clients |-> ""]
    /\ up = [c \in Clients |-> <<>>]
    /\ down = [c \in Clients |-> <<>>]
    /\ left = [c \in Clients |-> 0]
    /\ pc = [c \in Clients |-> "idle"]
    /\ asked \in [Clients -> Cids]
    /\ remain = [c \in Clients |-> 0]
    /\ got = [c \in Clients |-> <<>>]
    /\ learnt = [c \in Clients |-> {}]
    /\ result = [c \in Clients |-> "none"]
    /\ faults = 0
-----------------------------------------------------------------------------
(* The client: look_for_block, write_file and receive_peers.               *)

Goto(c, l) == pc' = [pc EXCEPT ![c] = l]

Done(c, r) ==
    /\ Goto(c, "done")
    /\ result' = [result EXCEPT ![c] = r]

\* create_socket and send_tcp: connect succeeds while someone listens.
Connect(c) ==
    /\ pc[c] = "idle"
    /\ IF parent = "listening"
       THEN /\ Goto(c, "answer")
            /\ backlog' = Append(backlog, c)
            /\ up' = [up EXCEPT ![c] = Message(asked[c])]
            /\ UNCHANGED result
       ELSE Done(c, "refused") /\ UNCHANGED <<backlog, up>>
    /\ UNCHANGED <<held, parent, fds, accepted, child, buffer, left, down,
                   asked, remain, got, learnt, faults>>

\* The answer is Y, or something else, an empty one included.
ReceiveAnswer(c) ==
    LET Ask(text) ==
            /\ Goto(c, IF text = "Y" THEN "size" ELSE "count")
            /\ up' = [up EXCEPT ![c] =
                        @ \o Message(IF text = "Y" THEN "BLOCK" ELSE "PEERS")]
    IN  /\ pc[c] = "answer"
        /\ \/ \E b \in Prefixes(down[c]) :
                /\ Receives(down[c], b)
                /\ down' = [down EXCEPT ![c] = After(@, b)]
                /\ Ask(Text(b))
                /\ UNCHANGED result
           \/ AtEnd(c) /\ Ask("") /\ UNCHANGED result
           \/ Reset(c) /\ Done(c, "refused") /\ UNCHANGED up
        /\ UNCHANGED <<server, asked, remain, got, learnt>>

\* atoi of the first message: all of the number n, less if it was cut, or 0.
Number(text, n) == CASE text = "number"  -> {n}
                     [] text = "garbled" -> 1..(n - 1)
                     [] OTHER            -> {0}

ReceiveNumber(c, from, to, n) ==
    /\ pc[c] = from
    /\ \/ \E b \in Prefixes(down[c]) :
            /\ Receives(down[c], b)
            /\ down' = [down EXCEPT ![c] = After(@, b)]
            /\ \E k \in Number(Text(b), n) : remain' = [remain EXCEPT ![c] = k]
            /\ Goto(c, to) /\ UNCHANGED result
       \/ AtEnd(c) /\ Goto(c, to) /\ UNCHANGED <<remain, result>>
       \/ Reset(c) /\ Done(c, "failed") /\ UNCHANGED remain
    /\ UNCHANGED <<server, up, asked, got, learnt>>

ReceiveSize(c) == ReceiveNumber(c, "size", "data", Length)
ReceiveCount(c) == ReceiveNumber(c, "count", "peers", Cardinality(Peers))

ReceiveData(c) ==
    /\ pc[c] = "data" /\ remain[c] > 0
    /\ \E b \in Prefixes(down[c]) :
        /\ Receives(down[c], b)
        /\ down' = [down EXCEPT ![c] = After(@, b)]
        /\ got' = [got EXCEPT ![c] = @ \o b]
        /\ remain' = [remain EXCEPT ![c] = @ - Len(b)]
    /\ UNCHANGED <<server, up, pc, asked, learnt, result>>

\* Mutant of Register: the loop runs only while a full buffer is missing.
RegisterLastBuffer(c) ==
    /\ pc[c] = "data"
    /\ \/ remain[c] < SIZE /\ UNCHANGED <<down, faults>>
       \/ AtEnd(c)
    /\ Done(c, "registered")
    /\ UNCHANGED <<server, up, asked, remain, got, learnt>>

\* The loop ends, or recv does not return more: the file is registered.
Register(c) ==
    /\ pc[c] = "data"
    /\ \/ remain[c] <= 0 /\ UNCHANGED <<down, faults>>
       \/ AtEnd(c)
    /\ Done(c, "registered")
    /\ UNCHANGED <<server, up, asked, remain, got, learnt>>

\* Whatever is in the buffer is stored, if recv returned 0 an empty string.
ReceivePeer(c) ==
    LET Store(text) == /\ learnt' = [learnt EXCEPT ![c] = @ \cup {text}]
                       /\ remain' = [remain EXCEPT ![c] = @ - 1]
                       /\ UNCHANGED <<pc, result>>
    IN  /\ pc[c] = "peers" /\ remain[c] > 0
        /\ \/ \E b \in Prefixes(down[c]) :
                /\ Receives(down[c], b)
                /\ down' = [down EXCEPT ![c] = After(@, b)]
                /\ Store(Text(b))
           \/ AtEnd(c) /\ Store("")
           \/ Reset(c) /\ Done(c, "failed") /\ UNCHANGED <<learnt, remain>>
        /\ UNCHANGED <<server, up, asked, got>>

\* Mutant of EndPeers: the loop ends one address early.
EndPeersEarly(c) ==
    /\ pc[c] = "peers" /\ remain[c] <= 1
    /\ Done(c, "peers")
    /\ UNCHANGED <<server, up, down, asked, remain, got, learnt, faults>>

EndPeers(c) ==
    /\ pc[c] = "peers" /\ remain[c] = 0
    /\ Done(c, "peers")
    /\ UNCHANGED <<server, up, down, asked, remain, got, learnt, faults>>

Client(c) ==
    \/ Connect(c) \/ ReceiveAnswer(c)
    \/ ReceiveSize(c) \/ ReceiveData(c) \/ Register(c)
    \/ ReceiveCount(c) \/ ReceivePeer(c) \/ EndPeers(c)
-----------------------------------------------------------------------------
(* The server: the accept loop of the parent, and its children.            *)

\* Mutant of Accept: the result of accept is not tested.
AcceptUntested ==
    /\ parent = "listening" /\ backlog # <<>>
    /\ fds' = fds - 1
    /\ backlog' = Tail(backlog)
    /\ accepted' = Append(accepted, Head(backlog))
    /\ child' = [child EXCEPT ![Head(backlog)] = "cid"]
    /\ UNCHANGED <<held, parent, buffer, up, down, left, client, faults>>

\* The parent never closes clientSocket.  accept fails when it has no more
\* descriptors, and the first time also if addr_size, which is not
\* initialised, happens to be negative: the parent then exits.
Accept ==
    /\ parent = "listening" /\ backlog # <<>>
    /\ \/ /\ fds > 0
          /\ fds' = fds - 1
          /\ backlog' = Tail(backlog)
          /\ accepted' = Append(accepted, Head(backlog))
          /\ \/ /\ child' = [child EXCEPT ![Head(backlog)] = "cid"]
                /\ UNCHANGED faults
             \/ Fault("fork") /\ UNCHANGED child
          /\ UNCHANGED parent
       \/ /\ accepted = <<>> \/ fds = 0
          /\ parent' = "gone"
          /\ UNCHANGED <<fds, backlog, accepted, child, faults>>
    /\ UNCHANGED <<held, buffer, up, down, left, client>>

ChildGoes(c, l) == child' = [child EXCEPT ![c] = l]

\* The answer, after which the child waits for BLOCK or PEERS.
Answer(c, m) ==
    /\ ChildGoes(c, "want")
    /\ down' = [down EXCEPT ![c] = @ \o Message(m)]

ChildReceives(c) ==
    /\ child[c] = "cid"
    /\ \E b \in Prefixes(up[c]) :
        /\ Receives(up[c], b)
        /\ up' = [up EXCEPT ![c] = After(@, b)]
        /\ buffer' = [buffer EXCEPT ![c] = Text(b)]
    /\ ChildGoes(c, "get")
    /\ UNCHANGED <<held, parent, fds, backlog, accepted, down, left, client>>

\* get_redis_command: the block is registered, or the answer is N.
ChildLooksUp(c) ==
    /\ child[c] = "get"
    /\ IF buffer[c] \in Cids /\ held[buffer[c]] # "none"
       THEN ChildGoes(c, "verify") /\ UNCHANGED down
       ELSE Answer(c, "N")
    /\ UNCHANGED <<held, parent, fds, backlog, accepted, buffer, up, left,
                   client, faults>>

\* open() is compared with NULL, so that the child ends in get_file_stats,
\* without an answer, if there is no file.
ChildVerifies(c) ==
    /\ child[c] = "verify"
    /\ CASE held[buffer[c]] = "whole" -> Answer(c, "Y")
         [] held[buffer[c]] = "bad"   -> ChildGoes(c, "remove") /\ UNCHANGED down
         [] OTHER                     -> ChildGoes(c, "gone") /\ UNCHANGED down
    /\ UNCHANGED <<held, parent, fds, backlog, accepted, buffer, up, left,
                   client, faults>>

\* The buffer was zeroed (line 138) before its contents are given to DEL
\* (line 142): the entry of a bad block stays, and its file is removed.
ChildRemoves(c) ==
    /\ child[c] = "remove"
    /\ held' = [held EXCEPT ![buffer[c]] = "missing"]
    /\ Answer(c, "N")
    /\ UNCHANGED <<parent, fds, backlog, accepted, buffer, up, left, client,
                   faults>>

\* Mutant of ChildHears: a child that has no block hangs up.
ChildHearsBlock(c) ==
    /\ child[c] = "want"
    /\ \E b \in Prefixes(up[c]) :
        /\ Receives(up[c], b)
        /\ up' = [up EXCEPT ![c] = After(@, b)]
        /\ IF Text(b) = "BLOCK"
           THEN /\ ChildGoes(c, "BLOCK")
                /\ left' = [left EXCEPT ![c] = Length]
                /\ down' = [down EXCEPT ![c] = @ \o Message("number")]
           ELSE ChildGoes(c, "gone") /\ UNCHANGED <<left, down>>
    /\ UNCHANGED <<held, parent, fds, backlog, accepted, buffer, client>>

\* send_file and send_peers begin with the number.  After anything else the
\* child closes the socket, and accept on the socket it closed ends it.
ChildHears(c) ==
    /\ child[c] = "want"
    /\ \E b \in Prefixes(up[c]) :
        /\ Receives(up[c], b)
        /\ up' = [up EXCEPT ![c] = After(@, b)]
        /\ IF Text(b) \in {"BLOCK", "PEERS"}
           THEN /\ ChildGoes(c, Text(b))
                /\ left' = [left EXCEPT ![c] = IF Text(b) = "BLOCK" THEN Length
                                               ELSE Cardinality(Peers)]
                /\ down' = [down EXCEPT ![c] = @ \o Message("number")]
           ELSE ChildGoes(c, "gone") /\ UNCHANGED <<left, down>>
    /\ UNCHANGED <<held, parent, fds, backlog, accepted, buffer, client>>

\* The peers in the order of the reply of Redis.
Listed == CHOOSE s \in [1..Cardinality(Peers) -> Peers] :
            {s[i] : i \in DOMAIN s} = Peers

ChildSends(c) ==
    /\ child[c] \in {"BLOCK", "PEERS"} /\ left[c] > 0
    /\ left' = [left EXCEPT ![c] = @ - 1]
    /\ down' = [down EXCEPT ![c] = @ \o
                  IF child[c] = "BLOCK" THEN <<Block[Length - left[c] + 1]>>
                  ELSE Message(Listed[Cardinality(Peers) - left[c] + 1])]
    /\ UNCHANGED <<held, parent, fds, backlog, accepted, child, buffer, up,
                   client, faults>>

\* All is sent, or the client is gone and recv or send fails.
ChildEnds(c) ==
    /\ \/ child[c] \in {"BLOCK", "PEERS"} /\ left[c] = 0
       \/ child[c] \in {"want", "BLOCK", "PEERS"} /\ pc[c] = "done"
    /\ ChildGoes(c, "gone")
    /\ UNCHANGED <<held, parent, fds, backlog, accepted, buffer, left, up, down,
                   client, faults>>

Child(c) ==
    \/ ChildReceives(c) \/ ChildLooksUp(c) \/ ChildVerifies(c)
    \/ ChildRemoves(c) \/ ChildHears(c) \/ ChildSends(c) \/ ChildEnds(c)
-----------------------------------------------------------------------------
(* What may go wrong, apart from fork and recv above.                      *)

\* The server is stopped from its terminal, or its host goes down.
ServerCrashes ==
    /\ parent = "listening" /\ Fault("crash")
    /\ parent' = "gone"
    /\ child' = [c \in Clients |-> IF child[c] = "none" THEN "none" ELSE "gone"]
    /\ UNCHANGED <<held, fds, backlog, accepted, buffer, left, up, down, client>>

ClientKilled(c) ==
    /\ pc[c] \notin {"idle", "done"} /\ Fault("client")
    /\ Done(c, "killed")
    /\ UNCHANGED <<server, up, down, asked, remain, got, learnt>>

\* Every client is done, and nobody has anything left to do.
Finished ==
    /\ \A c \in Clients : pc[c] = "done" /\ child[c] \in {"none", "gone"}
    /\ backlog = <<>> \/ parent = "gone"
    /\ UNCHANGED vars

Next ==
    \/ \E c \in Clients : Client(c) \/ Child(c) \/ ClientKilled(c)
    \/ Accept \/ ServerCrashes
    \/ Finished

Spec == Init /\ [][Next]_vars

\* Whoever can run does.
FairSpec ==
    /\ Spec
    /\ WF_vars(Accept)
    /\ \A c \in Clients : WF_vars(Client(c)) /\ WF_vars(Child(c))
-----------------------------------------------------------------------------
(* Properties.                                                             *)

Texts == Cids \cup Peers \cup {"Y", "N", "BLOCK", "PEERS", "number"}
Units == [of : Texts, part : 1..SIZE] \cup [of : {"data"}, part : 1..Length]
Strings == Texts \cup {"data", "garbled", ""}    \* what Text makes of them

\* Type invariant.
TypeOK ==
    /\ held \in [Cids -> {"none", "whole", "bad", "missing"}]
    /\ parent \in {"listening", "gone"} /\ fds \in Nat
    /\ backlog \in Seq(Clients) /\ accepted \in Seq(Clients)
    /\ child \in [Clients -> {"none", "cid", "get", "verify", "remove", "want",
                             "BLOCK", "PEERS", "gone"}]
    /\ buffer \in [Clients -> Strings]
    /\ up \in [Clients -> Seq(Units)] /\ down \in [Clients -> Seq(Units)]
    /\ left \in [Clients -> Nat]
    /\ pc \in [Clients ->
                 {"idle", "answer", "size", "data", "count", "peers", "done"}]
    /\ asked \in [Clients -> Cids]
    /\ remain \in [Clients -> Int]
    /\ got \in [Clients -> Seq(Units)]
    /\ learnt \in [Clients -> SUBSET (Peers \cup {"", "garbled"})]
    /\ result \in [Clients ->
                 {"none", "refused", "registered", "failed", "peers", "killed"}]
    /\ faults \in 0..MaxFaults

\* A file that write_file registers is a beginning of the block, all of it
\* unless the server went away (network.c:26-46): the size and the contents
\* are read at the right places of the stream.
FileReceived ==
    \A c \in Clients : result[c] = "registered" =>
        /\ got[c] = SubSeq(Block, 1, Len(got[c]))
        /\ Len(got[c]) = Length \/ Closed(c)

\* What receive_peers stores are peers of the server, and in the end all of
\* them, unless the server went away (network.c:53-72).  Then it stores an
\* empty string for each address it did not get.
PeersReceived ==
    \A c \in Clients :
        /\ learnt[c] \subseteq IF Closed(c) THEN Peers \cup {""} ELSE Peers
        /\ result[c] = "peers" => learnt[c] = Peers \/ Closed(c)

\* The client waits for an answer that does not come: its connection was
\* accepted and the parent keeps it open, but fork failed, or the child found
\* no file and has ended.
Unserved(c) ==
    /\ parent = "listening" /\ pc[c] = "answer" /\ down[c] = <<>>
    /\ \E i \in DOMAIN accepted : accepted[i] = c
    /\ \/ child[c] = "none"
       \/ child[c] = "gone" /\ held[asked[c]] = "missing"

\* A lookup returns, found or not: the client waits for ever only if fork
\* failed (tnfs-server.c:105), or if the block it asked for is registered and
\* has no file (tnfs-server.c:131), as a bad one is once a child has removed
\* its file (tnfs-server.c:144).
LookupReturns ==
    \A c \in Clients : pc[c] = "answer" ~> (pc[c] = "done" \/ Unserved(c))

\* Every lookup returns, for a block without a file or a bad one too: the
\* server checks both (tnfs-server.c:129-144) and has an answer for them.
EveryLookupReturns == \A c \in Clients : pc[c] = "answer" ~> pc[c] = "done"
=============================================================================
