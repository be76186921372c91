----------------------------- MODULE RedisClient ----------------------------
(***************************************************************************)
(* redis.c over hiredis.  A call sends a SELECT, waits for a reply, sends  *)
(* its command and waits for a reply.  Redis keeps the database selected   *)
(* by connection, serves the commands of a connection in order, and sends  *)
(* the replies back on it.                                                 *)
(*                                                                         *)
(* Each command of tnfs opens a connection of its own.  tnfs-server opens  *)
(* one before it forks (tnfs-server.c:82), so its children all write to    *)
(* and read from the same socket, each with its own copy of the buffers of *)
(* hiredis: whoever reads takes all the replies that are there.            *)
(***************************************************************************)
EXTENDS Registry, Sequences

CONSTANTS
    Procs,    \* the processes: tnfs commands and children of tnfs-server
    Scripts,  \* Scripts[p]: the sequences of calls that p may make
    Conns,    \* connections to Redis
    Via       \* Via[p]: the connection that p uses

ASSUME ScriptsAssumption == \A p \in Procs : Scripts[p] \subseteq Seq(Calls)
ASSUME ViaAssumption == Via \in [Procs -> Conns]

VARIABLES
    db,       \* Redis: db[type][key], the value stored, or Absent
    sel,      \* Redis: the type of the database a connection selected
    req,      \* commands on their way to Redis
    rep,      \* replies on their way back
    todo,     \* the calls a process has still to make, the current one first
    step,     \* which reply it waits for: "select", "command", or "idle"
    obuf,     \* commands that hiredis has formatted, not yet written
    reader,   \* replies that hiredis has read, not yet returned
    answer    \* what the last call of a process found

vars == <<db, sel, req, rep, todo, step, obuf, reader, answer>>
wire == <<db, sel, req, rep>>

Init ==
    /\ db \in [Types -> [Keys -> Values \cup {Absent}]]
    /\ \A k \in Keys : db["BLOCK"][k] # Absent => k \in Cids /\ db["BLOCK"][k] \in Names
    /\ \A k \in Keys : db["PEER"][k] # Absent => k \in Peers /\ db["PEER"][k] = "null"
    /\ sel = [n \in Conns |-> "BLOCK"]
    /\ req = [n \in Conns |-> <<>>]
    /\ rep = [n \in Conns |-> <<>>]
    /\ todo \in [Procs -> UNION {Scripts[p] : p \in Procs}]
    /\ \A p \in Procs : todo[p] \in Scripts[p]
    /\ step = [p \in Procs |-> "idle"]
    /\ obuf = [p \in Procs |-> <<>>]
    /\ reader = [p \in Procs |-> <<>>]
    /\ answer = [p \in Procs |-> Nothing]
-----------------------------------------------------------------------------
\* Mutant of Call: database 0 is taken for the one selected already.
CallUnselected(p) ==
    /\ step[p] = "idle" /\ todo[p] # <<>>
    /\ LET c == Head(todo[p]) IN
       IF c.type = "BLOCK"
       THEN /\ step' = [step EXCEPT ![p] = "command"]
            /\ obuf' = [obuf EXCEPT ![p] = Append(@, Command(c))]
       ELSE /\ step' = [step EXCEPT ![p] = "select"]
            /\ obuf' = [obuf EXCEPT ![p] = Append(@, Select(c.type))]
    /\ UNCHANGED <<wire, todo, reader, answer>>

\* changeDatabase: redisCommand formats the SELECT.
Call(p) ==
    /\ step[p] = "idle" /\ todo[p] # <<>>
    /\ step' = [step EXCEPT ![p] = "select"]
    /\ obuf' = [obuf EXCEPT ![p] = Append(@, Select(Head(todo[p]).type))]
    /\ UNCHANGED <<wire, todo, reader, answer>>

\* redisGetReply looks at the replies it has already read before it writes
\* anything: only when there is none does it write its commands, and read.
Flush(p) ==
    /\ step[p] # "idle" /\ reader[p] = <<>> /\ obuf[p] # <<>>
    /\ req' = [req EXCEPT ![Via[p]] = @ \o obuf[p]]
    /\ obuf' = [obuf EXCEPT ![p] = <<>>]
    /\ UNCHANGED <<db, sel, rep, todo, step, reader, answer>>

Read(p) ==
    /\ step[p] # "idle" /\ reader[p] = <<>> /\ obuf[p] = <<>>
    /\ rep[Via[p]] # <<>>
    /\ reader' = [reader EXCEPT ![p] = rep[Via[p]]]
    /\ rep' = [rep EXCEPT ![Via[p]] = <<>>]
    /\ UNCHANGED <<db, sel, req, todo, step, obuf, answer>>

\* The reply to the SELECT is ignored, and the command proper formatted.
Selected(p) ==
    /\ step[p] = "select" /\ reader[p] # <<>>
    /\ step' = [step EXCEPT ![p] = "command"]
    /\ reader' = [reader EXCEPT ![p] = Tail(@)]
    /\ obuf' = [obuf EXCEPT ![p] = Append(@, Command(Head(todo[p])))]
    /\ UNCHANGED <<wire, todo, answer>>

\* Mutant of Return: the call returns, but step is not put back to "idle".
ReturnInCommand(p) ==
    /\ step[p] = "command" /\ reader[p] # <<>>
    /\ reader' = [reader EXCEPT ![p] = Tail(@)]
    /\ answer' = [answer EXCEPT ![p] = Understood(Head(todo[p]), Head(reader[p]))]
    /\ todo' = [todo EXCEPT ![p] = Tail(@)]
    /\ UNCHANGED <<wire, step, obuf>>

\* Mutant of Return: a GET that finds nothing is sent again, to wait for the
\* block to be registered.
ReturnWhenFound(p) ==
    /\ step[p] = "command" /\ reader[p] # <<>>
    /\ reader' = [reader EXCEPT ![p] = Tail(@)]
    /\ IF Head(todo[p]).op = "GET" /\ Head(reader[p]).str = "null"
       THEN /\ obuf' = [obuf EXCEPT ![p] = Append(@, Command(Head(todo[p])))]
            /\ UNCHANGED <<step, answer, todo>>
       ELSE /\ step' = [step EXCEPT ![p] = "idle"]
            /\ answer' = [answer EXCEPT
                            ![p] = Understood(Head(todo[p]), Head(reader[p]))]
            /\ todo' = [todo EXCEPT ![p] = Tail(@)]
            /\ UNCHANGED obuf
    /\ UNCHANGED wire

Return(p) ==
    /\ step[p] = "command" /\ reader[p] # <<>>
    /\ step' = [step EXCEPT ![p] = "idle"]
    /\ reader' = [reader EXCEPT ![p] = Tail(@)]
    /\ answer' = [answer EXCEPT ![p] = Understood(Head(todo[p]), Head(reader[p]))]
    /\ todo' = [todo EXCEPT ![p] = Tail(@)]
    /\ UNCHANGED <<wire, obuf>>

\* Redis serves the next command of a connection.
Serve(n) ==
    /\ req[n] # <<>>
    /\ LET cmd == Head(req[n]) IN
       /\ req' = [req EXCEPT ![n] = Tail(@)]
       /\ rep' = [rep EXCEPT ![n] = Append(@, Reply(cmd, db[sel[n]]))]
       /\ IF cmd.op = "SELECT"
          THEN sel' = [sel EXCEPT ![n] = cmd.key] /\ UNCHANGED db
          ELSE db' = [db EXCEPT ![sel[n]] = Effect(cmd, @)] /\ UNCHANGED sel
    /\ UNCHANGED <<todo, step, obuf, reader, answer>>

Run(p) == Call(p) \/ Flush(p) \/ Read(p) \/ Selected(p) \/ Return(p)

\* Every process has made its calls.
Finished ==
    /\ \A p \in Procs : step[p] = "idle" /\ todo[p] = <<>>
    /\ UNCHANGED vars

Next == (\E p \in Procs : Run(p)) \/ (\E n \in Conns : Serve(n)) \/ Finished

Spec == Init /\ [][Next]_vars

\* Redis and the operating system serve everyone: neither a process with a
\* step to take nor a command that arrived waits for ever.
FairSpec ==
    /\ Spec
    /\ \A p \in Procs : WF_vars(Run(p))
    /\ \A n \in Conns : WF_vars(Serve(n))
-----------------------------------------------------------------------------
(* Properties.                                                             *)

\* Type invariant.
Commands == {Select(t) : t \in Types} \cup {Command(c) : c \in Calls}

TypeOK ==
    /\ db \in [Types -> [Keys -> Values \cup {Absent}]]
    /\ sel \in [Conns -> Types]
    /\ req \in [Conns -> Seq(Commands)]
    /\ rep \in [Conns -> Seq(Replies)]
    /\ todo \in [Procs -> Seq(Calls)]
    /\ step \in [Procs -> {"idle", "select", "command"}]
    /\ \A p \in Procs : step[p] # "idle" => todo[p] # <<>>
    /\ obuf \in [Procs -> Seq(Commands)]
    /\ reader \in [Procs -> Seq(Replies)]
    /\ answer \in [Procs -> Replies]

\* What get_all_peers_command returns are peers: send_peers sends them to
\* another host, which stores them (tnfs-server.c:53-55, network.c:70-71).
PeersArePeers == \A p \in Procs : answer[p].keys \subseteq Peers

\* Every call ends: a process that waits for a reply gets one.
CallReturns == \A p \in Procs : step[p] # "idle" ~> step[p] = "idle"

\* The condition for what follows: no two processes share a connection.
OwnConnection == \A p, q \in Procs : Via[p] = Via[q] => p = q

\* A call has acted once the reply to its command is on its way.
Acted(p) ==
    step[p] = "command" /\ (rep[Via[p]] # <<>> \/ reader[p] # <<>>)

AbsState == [p \in Procs |-> IF step[p] = "idle" THEN "idle"
                            ELSE IF Acted(p) THEN "applied" ELSE "called"]
AbsAnswer ==
    [p \in Procs |->
        IF Acted(p)
        THEN Understood(Head(todo[p]), Head(rep[Via[p]] \o reader[p]))
        ELSE answer[p]]

Store == INSTANCE TypedStore WITH state <- AbsState, answer <- AbsAnswer

\* redis.c keeps the promise of TypedStore: a call acts once, on the
\* database of its own type, and returns what it found there, though it
\* takes two commands (redis.c:74-80) and other processes come in between.
StoreSpec == Store!Spec
=============================================================================
