------------------------------ MODULE Registry ------------------------------
(***************************************************************************)
(* The vocabulary of the registry (redis.h, redis.c): a KEY_TYPE names one *)
(* of two Redis databases, BLOCK (CID -> block name) and PEER (the         *)
(* addresses of other hosts), and a call is one of the functions of        *)
(* redis.c with its arguments.  The operators say what Redis does with a   *)
(* command, and what redis.c takes from the reply.                         *)
(***************************************************************************)
CONSTANTS
    Cids,   \* keys of type BLOCK
    Peers,  \* keys of type PEER
    Names   \* block names

Types == {"BLOCK", "PEER"}
Keys  == Cids \cup Peers
Absent == "absent"

\* A peer is stored with the value "null".
Values == Names \cup {"null"}

ASSUME KeysAssumption == Cids \cap Peers = {} /\ Absent \notin Values

\* The calls the programs make: blocks are read, set, deleted and flushed,
\* peers are listed, set and deleted.  A child of the server deletes the empty
\* key, for it has cleared its buffer before (tnfs-server.c:138, 142).
Calls ==
    [op : {"GET", "DEL"}, type : {"BLOCK"}, key : Cids, value : {"null"}]
    \cup [op : {"DEL"}, type : {"BLOCK"}, key : {""}, value : {"null"}]
    \cup [op : {"SET"}, type : {"BLOCK"}, key : Cids, value : Names]
    \cup [op : {"FLUSHDB"}, type : {"BLOCK"}, key : {"*"}, value : {"null"}]
    \cup [op : {"KEYS"}, type : {"PEER"}, key : {"*"}, value : {"null"}]
    \cup [op : {"SET", "DEL"}, type : {"PEER"}, key : Peers, value : {"null"}]

\* Mutant of Select: changeDatabase sends SELECT 0 whatever the type.
SelectBlock(type) == [op |-> "SELECT", key |-> "BLOCK", value |-> "null"]

\* What goes over the connection: a SELECT, then the command proper, which
\* does not say of which type its key is.
Select(type) == [op |-> "SELECT", key |-> type, value |-> "null"]
Command(c) == [op |-> c.op, key |-> c.key, value |-> c.value]

\* A database after a command.
Effect(cmd, table) ==
    CASE cmd.op = "SET"     -> [table EXCEPT ![cmd.key] = cmd.value]
      [] cmd.op = "DEL"     -> [k \in Keys |-> IF k = cmd.key THEN Absent ELSE table[k]]
      [] cmd.op = "FLUSHDB" -> [k \in Keys |-> Absent]
      [] OTHER              -> table

\* A redisReply, as redis.c reads it: str, "null" where it is NULL, and the
\* elements, none unless it is an array.
Reply(cmd, table) ==
    [str  |-> CASE cmd.op = "GET" /\ table[cmd.key] # Absent -> table[cmd.key]
                [] cmd.op \in {"SELECT", "SET", "FLUSHDB"}   -> "OK"
                [] OTHER                                     -> "null",
     keys |-> IF cmd.op = "KEYS" THEN {k \in Keys : table[k] # Absent} ELSE {}]

Replies == [str : Values \cup {"OK"}, keys : SUBSET Keys]

\* What call c makes of the reply r, whatever command r answers: block_name
\* for get_redis_command, the peers for get_all_peers_command.
Understood(c, r) ==
    [str  |-> IF c.op = "GET" THEN r.str ELSE "null",
     keys |-> IF c.op = "KEYS" THEN r.keys ELSE {}]

Nothing == [str |-> "null", keys |-> {}]
=============================================================================
