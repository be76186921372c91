------------------------------- MODULE Hiredis ------------------------------
(***************************************************************************)
(* A connection of hiredis to Redis (hiredis.c, net.c): connecting with    *)
(* its retries and timeouts, the output buffer, written in as many pieces  *)
(* as the socket takes, and the replies, read in as many as it gives.      *)
(* Read and write are on bytes; what the bytes are is Format and Reader.   *)
(*                                                                         *)
(* A user that waits for no more replies than it has asked for calls the   *)
(* functions in any order.  A signal that interrupts read or write makes   *)
(* the loops of hiredis call it again: a step that changes nothing.        *)
(***************************************************************************)
EXTENDS Format

CONSTANTS
    Commands,       \* [format, args, argv]: argv is what the user means
    Answers,        \* [bytes, reply]: reply is NoReply if bytes are not one
    Hows,           \* [kind, block, reuse, source, timeout]: how to connect
    REDIS_CONNECT_RETRIES,
    Descriptors,    \* the numbers that socket may return
    MaxAddrs,       \* bound: addresses of a host
    MaxCuts,        \* bound: calls of read and write that move a part only,
                    \* on the first connection
    MaxCommands,    \* bound: commands of a connection
    MaxReconnects   \* bound: calls of redisReconnect

ASSUME HiredisAssumption ==
    /\ Hows \subseteq [kind : {"TCP", "UNIX"}, block : BOOLEAN, reuse : BOOLEAN,
                      source : BOOLEAN, timeout : {"none", "valid", "invalid"}]
    /\ Descriptors \subseteq Nat \ {0}    \* standard input stays open
    /\ {REDIS_CONNECT_RETRIES, MaxAddrs} \subseteq Nat \ {0}

\* An answer is the bytes of one reply, or has an error in it: that is what a
\* reader that gets all of them at once makes of them.
ASSUME AnswersAssumption ==
    \A a \in Answers :
      /\ a.bytes \in Seq(Range(a.bytes)) /\ a.bytes # <<>>
      /\ \E read \in {redisReaderGetReply(redisReaderFeed(redisReaderCreate, a.bytes))} :
           IF a.reply = NoReply THEN read.r.err
           ELSE ~read.r.err /\ read.reply = a.reply /\ Rest(read.r) = <<>>

VARIABLES
    how,        \* the flags of the context, and the parameters it keeps
    err,        \* its error
    fd,         \* its descriptor
    obuf,       \* its output buffer
    reader,     \* its reader
    ctype,      \* its connection_type
    rcvtimeo,   \* whether read gives up after a time
    pc,         \* where the call in progress is, or "idle", or "freed"
    addrs,      \* addresses not tried yet, the one in use included
    reuses,     \* how often an address was not available
    open,       \* the kernel's: descriptors that are open
    conn,       \* the network's: none, open, closed by Redis, or reset
    request,    \* bytes written, which Redis has not read
    response,   \* bytes Redis sent, which the context has not read
    asked,      \* the commands of this connection, as the user means them
    received,   \* those Redis has read
    answered,   \* the answers of Redis to them
    got,        \* the replies the user got
    cuts,
    reconnects

context == <<how, err, fd, obuf, reader, ctype, rcvtimeo>>
connect == <<addrs, reuses, open>>
network == <<conn, request, response>>
history == <<asked, received, answered, got>>
bounds == <<cuts, reconnects>>
vars == <<context, pc, connect, network, history, bounds>>

\* redisContextInit, and the first step of connecting.
First(kind) == IF kind = "TCP" THEN "resolve" ELSE "unix"

Init ==
    /\ how \in Hows
    /\ err = "none" /\ fd = 0 /\ obuf = sdsempty /\ reader = redisReaderCreate
    /\ ctype = "TCP" /\ rcvtimeo = FALSE
    /\ pc = First(how.kind)
    /\ addrs = 0 /\ reuses = 0 /\ open = {}
    /\ conn = "none" /\ request = <<>> /\ response = <<>>
    /\ asked = <<>> /\ received = <<>> /\ answered = <<>> /\ got = <<>>
    /\ cuts = 0 /\ reconnects = 0
-----------------------------------------------------------------------------
(* Connecting.                                                             *)

\* The call returns; e is the error it sets, if it sets one.
Return(e) == err' = e /\ pc' = "idle"

\* An error of the kernel, after which redisContextCloseFd is called.
FailAndClose ==
    /\ Return("IO")
    /\ fd' = -1 /\ open' = open \ {fd}

\* The addresses of the host, IPv4 or else IPv6.
Resolve ==
    /\ pc = "resolve"
    /\ \/ how.timeout = "invalid" /\ Return("IO") /\ UNCHANGED addrs
       \/ how.timeout # "invalid" /\ Return("OTHER") /\ UNCHANGED addrs
       \/ /\ how.timeout # "invalid"
          /\ addrs' \in 1..MaxAddrs /\ pc' = "socket" /\ UNCHANGED err
    /\ reuses' = 0
    /\ UNCHANGED <<how, fd, obuf, reader, ctype, rcvtimeo, open, network, history, bounds>>

\* The kernel gives the lowest number that is free.
NewSocket == fd' = Min(Descriptors \ open) /\ open' = open \cup {fd'}

\* A socket for an address; without one the next address is tried.
Socket ==
    /\ pc = "socket"
    /\ \/ addrs = 0 /\ Return("OTHER") /\ UNCHANGED <<fd, open, addrs>>
       \/ addrs > 0 /\ addrs' = addrs - 1 /\ UNCHANGED <<err, fd, open, pc>>
       \/ addrs > 0 /\ NewSocket /\ pc' = "prepare" /\ UNCHANGED <<err, addrs>>
    /\ UNCHANGED <<how, obuf, reader, ctype, rcvtimeo, reuses, network, history, bounds>>

\* redisSetBlocking, and binding the socket to the source address.
Prepare ==
    /\ pc = "prepare"
    /\ \/ FailAndClose
       \/ how.source /\ Return("OTHER") /\ UNCHANGED <<fd, open>>
       \/ how.source /\ how.reuse /\ Return(err) /\ UNCHANGED <<fd, open>>
       \/ pc' = "connect" /\ UNCHANGED <<err, fd, open>>
    /\ UNCHANGED <<how, obuf, reader, ctype, rcvtimeo, addrs, reuses, network, history, bounds>>

\* redisContextConnectUnix, up to connect: a timeout that is not valid is
\* seen only once there is a socket.
UnixSocket ==
    /\ pc = "unix"
    /\ \/ Return("IO") /\ UNCHANGED <<fd, open, ctype>>
       \/ /\ NewSocket
          /\ ctype' = "UNIX"
          /\ IF how.timeout = "invalid" THEN Return(err)
             ELSE pc' = "connect" /\ UNCHANGED err
       \/ Return("IO") /\ fd' = -1 /\ UNCHANGED <<open, ctype>>    \* redisSetBlocking
    /\ UNCHANGED <<how, obuf, reader, rcvtimeo, addrs, reuses, network, history, bounds>>

\* Mutant of Unreachable: the descriptor is left open.
UnreachableOpen ==
    /\ ctype = "TCP"
    /\ fd' = -1 /\ addrs' = addrs - 1 /\ pc' = "socket" /\ UNCHANGED <<err, open, reuses>>

\* EHOSTUNREACH: the next address.
Unreachable ==
    /\ ctype = "TCP"
    /\ fd' = -1 /\ open' = open \ {fd}
    /\ addrs' = addrs - 1 /\ pc' = "socket" /\ UNCHANGED <<err, reuses>>

\* EADDRNOTAVAIL: the same address again, but so often only.
NotAvailable ==
    /\ ctype = "TCP" /\ how.reuse
    /\ reuses' = reuses + 1
    /\ IF reuses + 1 >= REDIS_CONNECT_RETRIES
       THEN Return(err) /\ UNCHANGED <<fd, open>>
       ELSE pc' = "socket" /\ fd' = -1 /\ open' = open \ {fd} /\ UNCHANGED err
    /\ UNCHANGED addrs

\* Mutant of Refused: the descriptor is closed, and no error is set.
RefusedQuietly ==
    /\ Return(err)
    /\ fd' = -1 /\ open' = open \ {fd} /\ UNCHANGED <<addrs, reuses>>

\* Any other error: redisContextWaitReady does not wait.
Refused == FailAndClose /\ UNCHANGED <<addrs, reuses>>

\* connect(2): it is done, or in progress, and a blocking context waits.
ConnectCall ==
    /\ pc = "connect"
    /\ \/ pc' = "finish" /\ UNCHANGED <<err, fd, open, addrs, reuses>>
       \/ how.block /\ pc' = "wait" /\ UNCHANGED <<err, fd, open, addrs, reuses>>
       \/ Unreachable
       \/ NotAvailable
       \/ Refused
    /\ UNCHANGED <<how, obuf, reader, ctype, rcvtimeo, network, history, bounds>>

\* redisContextWaitReady: connected, or poll fails or gives up, or the socket
\* has an error, and is left open.
WaitReady ==
    /\ pc = "wait"
    /\ \/ pc' = "finish" /\ UNCHANGED <<err, fd, open>>
       \/ FailAndClose
       \/ Return("IO") /\ UNCHANGED <<fd, open>>
    /\ UNCHANGED <<how, obuf, reader, ctype, rcvtimeo, addrs, reuses, network, history, bounds>>

\* The socket blocks again; only a TCP one may be refused TCP_NODELAY.
Finish ==
    /\ pc = "finish"
    /\ \/ (how.block \/ ctype = "TCP") /\ FailAndClose /\ UNCHANGED conn
       \/ Return(err) /\ conn' = "open" /\ UNCHANGED <<fd, open>>
    /\ addrs' = 0 /\ reuses' = 0
    /\ UNCHANGED <<how, obuf, reader, ctype, rcvtimeo, request, response, history, bounds>>

\* redisReconnect: what was not sent or not returned is forgotten.  The number
\* of the descriptor it closes is kept until there is another.
Reconnect ==
    /\ pc = "idle" /\ reconnects < MaxReconnects
    /\ reconnects' = reconnects + 1 /\ cuts' = 0
    /\ err' = "none" /\ obuf' = sdsempty /\ reader' = redisReaderCreate
    /\ open' = open \ {fd}
    /\ rcvtimeo' = FALSE    \* an option of the old socket
    /\ pc' = First(ctype)
    /\ conn' = "none" /\ request' = <<>> /\ response' = <<>>
    /\ asked' = <<>> /\ received' = <<>> /\ answered' = <<>> /\ got' = <<>>
    /\ UNCHANGED <<how, fd, ctype, addrs, reuses>>

\* redisFree.
Free ==
    /\ pc = "idle"
    /\ pc' = "freed" /\ open' = open \ {fd} /\ conn' = "none"
    /\ UNCHANGED <<context, addrs, reuses, request, response, history, bounds>>
-----------------------------------------------------------------------------
(* Commands and replies.                                                   *)

connecting == <<how, fd, ctype, connect, reconnects>>

\* So many of the bytes: all, or a part, so often.
Moved(n, bytes) ==
    /\ n \in 1..Len(bytes)
    /\ IF n = Len(bytes) THEN UNCHANGED cuts
       ELSE cuts' = cuts + 1 /\ cuts < MaxCuts /\ reconnects = 0

\* The first len bytes of the command; a format that is not one is an error.
AppendFormatted(f) ==
    IF f.ok THEN obuf' = sdscatlen(obuf, SubSeq(f.cmd, 1, f.len)) /\ UNCHANGED err
    ELSE err' = "OTHER" /\ UNCHANGED obuf

\* redisAppendCommand, redisAppendFormattedCommand, redisAppendCommandArgv.
AppendCommand(c) ==
    /\ pc = "idle" /\ Len(asked) < MaxCommands
    /\ \E f \in {redisvFormatCommand(c.format, c.args),
                redisFormatCommandArgv(c.argv), redisFormatSdsCommandArgv(c.argv)} :
         /\ AppendFormatted(f)
         /\ asked' = IF f.ok THEN Append(asked, c.argv) ELSE asked
    /\ UNCHANGED <<connecting, reader, rcvtimeo, pc, network, received, answered, got, cuts>>

\* redisGetReplyFromReader; none is what the call does if there is no reply.
FromReader(r, none) ==
    \E next \in {redisReaderGetReply(r)} :
      /\ reader' = next.r
      /\ IF next.r.err THEN Return("PROTOCOL") /\ UNCHANGED got
         ELSE IF next.reply # NoReply THEN Return(err) /\ got' = Append(got, next.reply)
         ELSE none /\ UNCHANGED <<err, got>>

\* Mutant of GetReply: the reader is looked at only after a read.
GetReplyUnread ==
    /\ pc = "idle"
    /\ how.block => Len(got) < Len(asked)
    /\ IF how.block THEN pc' = "write" /\ UNCHANGED <<err, reader, got>>
       ELSE FromReader(reader, UNCHANGED pc)
    /\ UNCHANGED <<connecting, obuf, rcvtimeo, network, asked, received, answered, cuts>>

\* redisGetReply, and redisCommand after it appended its command: replies
\* that are here already come first.
GetReply ==
    /\ pc = "idle"
    /\ how.block => Len(got) < Len(asked)
    /\ FromReader(reader, pc' = IF how.block THEN "write" ELSE "idle")
    /\ UNCHANGED <<connecting, obuf, rcvtimeo, network, asked, received, answered, cuts>>

\* A call of write, which takes some of the bytes, or fails; after Redis has
\* closed they are lost.
WriteSome(then) ==
    \/ /\ conn \in {"open", "closed"}
       /\ \E n \in 1..sdslen(obuf) :
            /\ Moved(n, obuf.buf)
            /\ obuf' = IF n = sdslen(obuf) THEN sdsempty ELSE sdsrange(obuf, n, -1)
            /\ request' = IF conn = "open" THEN request \o SubSeq(obuf.buf, 1, n)
                          ELSE request
       /\ then /\ UNCHANGED err
    \/ (conn # "open" \/ rcvtimeo) /\ Return("IO") /\ UNCHANGED <<obuf, request, cuts>>

\* redisBufferWrite, in the loop of redisGetReply.
Write ==
    /\ pc = "write"
    /\ IF err # "none" THEN Return(err) /\ UNCHANGED <<obuf, request, cuts>>
       ELSE IF sdslen(obuf) = 0 THEN pc' = "read" /\ UNCHANGED <<err, obuf, request, cuts>>
       ELSE WriteSome(UNCHANGED pc)
    /\ UNCHANGED <<connecting, reader, rcvtimeo, conn, response, history>>

\* A call of read that gets no bytes: an error, or the end of the file.
ReadFails ==
    \/ conn \in {"none", "reset"} /\ Return("IO")
    \/ conn = "open" /\ rcvtimeo /\ response = <<>> /\ Return("IO")
    \/ conn = "closed" /\ response = <<>> /\ Return("EOF")

\* redisBufferRead, and the replies that are complete then.
Read ==
    /\ pc = "read"
    /\ \/ err # "none" /\ Return(err) /\ UNCHANGED <<reader, response, got, cuts>>
       \/ err = "none" /\ ReadFails /\ UNCHANGED <<reader, response, got, cuts>>
       \/ /\ err = "none"
          /\ \E n \in 1..Len(response) :
               /\ Moved(n, response)
               /\ response' = SubSeq(response, n + 1, Len(response))
               /\ FromReader(redisReaderFeed(reader, SubSeq(response, 1, n)), UNCHANGED pc)
    /\ UNCHANGED <<connecting, obuf, rcvtimeo, conn, request, asked, received, answered>>

\* redisBufferWrite and redisBufferRead, called by the user of a context that
\* does not block, when there is something to write or to read.
BufferWrite ==
    /\ pc = "idle" /\ ~how.block /\ err = "none" /\ sdslen(obuf) > 0
    /\ WriteSome(UNCHANGED pc)
    /\ UNCHANGED <<connecting, reader, rcvtimeo, conn, response, history>>

BufferRead ==
    /\ pc = "idle" /\ ~how.block /\ err = "none"
    /\ \/ ReadFails /\ UNCHANGED <<reader, response, cuts>>
       \/ \E n \in 1..Len(response) :
            /\ Moved(n, response)
            /\ response' = SubSeq(response, n + 1, Len(response))
            /\ reader' = redisReaderFeed(reader, SubSeq(response, 1, n))
            /\ UNCHANGED <<err, pc>>
    /\ UNCHANGED <<connecting, obuf, rcvtimeo, conn, request, history>>

\* redisSetTimeout; redisEnableKeepAlive has the same errors.
SetTimeout ==
    /\ pc = "idle" /\ how.block /\ conn = "open" /\ ~rcvtimeo
    /\ \/ rcvtimeo' = TRUE /\ UNCHANGED err
       \/ err' \in {"IO", "OTHER"} /\ UNCHANGED rcvtimeo
    /\ UNCHANGED <<connecting, obuf, reader, pc, network, history, cuts>>
-----------------------------------------------------------------------------
(* Redis and the network.                                                  *)

\* Redis reads a command: the number of its arguments, and each as its
\* length and its bytes.
NextArgument(args) ==
    LET bytes == args.rest
        line  == seekNewline(bytes)
        size  == string2ll(SubSeq(bytes, 2, line))
        len   == CHOOSE v \in size : TRUE
    IN  IF \/ ~args.ok \/ line = -1 \/ size = {}
           \/ Head(bytes) # "$" \/ Len(bytes) < line + len + 4
        THEN [args EXCEPT !.ok = FALSE]
        ELSE [ok   |-> TRUE,
              argv |-> Append(args.argv, SubSeq(bytes, line + 3, line + len + 2)),
              rest |-> SubSeq(bytes, line + len + 5, Len(bytes))]

Arguments(bytes, count) ==
    LET first[n \in Nat] ==
            IF n = 0 THEN [ok |-> TRUE, argv |-> <<>>, rest |-> bytes]
            ELSE NextArgument(first[n - 1])
    IN  first[count]

Command(bytes) ==
    LET line == seekNewline(bytes)
        size == string2ll(SubSeq(bytes, 2, line))
    IN  IF line = -1 \/ size = {} \/ Head(bytes) # "*" THEN [ok |-> FALSE]
        ELSE Arguments(SubSeq(bytes, line + 3, Len(bytes)), CHOOSE v \in size : TRUE)

\* Redis answers the next command when it has arrived.
Serve ==
    /\ conn = "open" /\ Command(request).ok
    /\ request' = Command(request).rest
    /\ received' = Append(received, Command(request).argv)
    /\ \E a \in Answers :
         /\ response' = response \o a.bytes
         /\ answered' = Append(answered, a.reply)
    /\ UNCHANGED <<context, pc, connect, conn, asked, got, bounds>>

\* Redis closes the connection: what it sent still arrives.
Close ==
    /\ conn = "open" /\ conn' = "closed"
    /\ UNCHANGED <<context, pc, connect, request, response, history, bounds>>

\* The connection is lost, with the bytes on their way.
Reset ==
    /\ conn = "open" /\ conn' = "reset" /\ response' = <<>>
    /\ UNCHANGED <<context, pc, connect, request, history, bounds>>

Freed == pc = "freed" /\ UNCHANGED vars

Connecting ==
    \/ Resolve \/ Socket \/ Prepare \/ UnixSocket
    \/ ConnectCall \/ WaitReady \/ Finish

User ==
    \/ \E c \in Commands : AppendCommand(c)
    \/ GetReply \/ BufferWrite \/ BufferRead
    \/ SetTimeout \/ Reconnect \/ Free

Next ==
    \/ Connecting \/ Write \/ Read \/ User
    \/ Serve \/ Close \/ Reset \/ Freed

Spec == Init /\ [][Next]_vars

\* When there is a step of a call to take, and a command to serve.
CanStep ==
    \/ pc \notin {"idle", "freed", "read"}
    \/ pc = "read" /\ (err # "none" \/ conn # "open" \/ rcvtimeo \/ response # <<>>)
CanServe == conn = "open" /\ Command(request).ok

\* Weak fairness of Connecting, Write and Read, and of Serve, with ENABLED
\* spelled out: calls go on, and Redis serves every command.
FairSpec ==
    /\ Spec
    /\ []<>~CanStep \/ []<><<Connecting \/ Write \/ Read>>_vars
    /\ []<>~CanServe \/ []<><<Serve>>_vars
-----------------------------------------------------------------------------
(* Properties.                                                             *)

Byte == UNION {Range(a.bytes) : a \in Answers}
        \cup UNION {Range(redisFormatCommandArgv(c.argv).cmd) : c \in Commands}

Argvs == {c.argv : c \in Commands}
Replies == {a.reply : a \in Answers}

\* Type invariant: also, strings and readers are as IsSds and IsReader say.
TypeOK ==
    /\ how \in Hows
    /\ err \in {"none", "IO", "EOF", "PROTOCOL", "OTHER"}
    /\ fd \in Descriptors \cup {0, -1}
    /\ IsSds(obuf, Byte) /\ IsReader(reader, Byte)
    /\ ctype \in {"TCP", "UNIX"} /\ rcvtimeo \in BOOLEAN
    /\ pc \in {"resolve", "socket", "prepare", "unix", "connect", "wait",
               "finish", "idle", "write", "read", "freed"}
    /\ addrs \in 0..MaxAddrs /\ reuses \in 0..REDIS_CONNECT_RETRIES
    /\ open \subseteq Descriptors
    /\ conn \in {"none", "open", "closed", "reset"}
    /\ request \in Seq(Byte) /\ response \in Seq(Byte)
    /\ asked \in Seq(Argvs) /\ received \in Seq(Argvs)
    /\ answered \in Seq(Replies) /\ got \in Seq(Replies)
    /\ cuts \in 0..MaxCuts /\ reconnects \in 0..MaxReconnects

\* However the commands are cut by write, Redis reads those that the user
\* appended, argument by argument, in their order (hiredis.c:208-436, 817).
CommandsArrive == IsPrefix(received, asked)

\* However the replies are cut by read, the user gets those of this
\* connection in their order, whole; and an error of the protocol is found
\* in an answer that has one, never in one that is incomplete (read.c).
RepliesInOrder ==
    /\ Len(got) <= Len(answered)
    /\ \A i \in DOMAIN got : got[i] = answered[i] /\ got[i] # NoReply
    /\ err = "PROTOCOL" =>
         Len(got) < Len(answered) /\ answered[Len(got) + 1] = NoReply

\* A blocking user that is told that Redis closed the connection has all the
\* replies that Redis sent before (hiredis.c:796, 856).
NoReplyLost ==
    how.block /\ err = "EOF" => got = answered

\* The only descriptor that is open is the context's; and one that it keeps
\* after it was closed is never written to or read from (net.c, hiredis.c:629).
DescriptorOwned ==
    /\ open \subseteq {fd}
    /\ pc = "freed" => open = {}
    /\ pc \in {"idle", "write", "read"} /\ err = "none" => fd \in open

\* A context that connect returned without an error is connected, except
\* for a reused address and for a timeout of a Unix socket (net.c:384, 457).
ConnectReports ==
    pc = "idle" /\ err = "none" /\ conn = "none" =>
        how.reuse \/ (how.kind = "UNIX" /\ how.timeout = "invalid")

\* Every call returns: redisGetReply with a reply or an error, whatever
\* Redis answers, and connecting with a connection or an error.
CallReturns == pc \notin {"idle", "freed"} ~> pc \in {"idle", "freed"}
=============================================================================
