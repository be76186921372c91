--------------------------- MODULE MCRedisClient ----------------------------
(* Instances of RedisClient for TLC: what each program calls.              *)
EXTENDS RedisClient

CONSTANTS Child, Getter, Adder, Cleaner   \* sets of processes

BlockCall(op, c) == [op |-> op, type |-> "BLOCK", key |-> c, value |-> "null"]
SetBlock(c, n) == [op |-> "SET", type |-> "BLOCK", key |-> c, value |-> n]
PeerCall(op, p) == [op |-> op, type |-> "PEER", key |-> p, value |-> "null"]
ListPeers == PeerCall("KEYS", "*")

\* A child of tnfs-server: the block is there, or bad, or not there, and
\* the client then asks for peers.
ChildScripts ==
    UNION {{<<BlockCall("GET", c)>>,
            <<BlockCall("GET", c), BlockCall("DEL", ""), ListPeers>>,
            <<BlockCall("GET", c), ListPeers>>} : c \in Cids}

\* read_block: a block that is bad here, and is found at a peer after
\* another one sent the address of a third.
GetterScripts ==
    {<<BlockCall("GET", c), BlockCall("DEL", c), BlockCall("GET", c), ListPeers,
       PeerCall("SET", p), SetBlock(c, n), BlockCall("GET", c)>> :
          c \in Cids, p \in Peers, n \in Names}

AdderScripts == {<<SetBlock(c, n)>> : c \in Cids, n \in Names}

\* tnfs clean, and tnfs peer remove.
CleanerScripts ==
    {<<[op |-> "FLUSHDB", type |-> "BLOCK", key |-> "*", value |-> "null"]>>}
    \cup {<<PeerCall("DEL", p)>> : p \in Peers}

\* A process runs one of the programs it may be.
MCScripts ==
    [p \in Procs |-> (IF p \in Child   THEN ChildScripts   ELSE {})
                \cup (IF p \in Getter  THEN GetterScripts  ELSE {})
                \cup (IF p \in Adder   THEN AdderScripts   ELSE {})
                \cup (IF p \in Cleaner THEN CleanerScripts ELSE {})]

\* Each process has its connection, or all the children share one.
Private == [p \in Procs |-> p]
Shared == [p \in Procs |-> IF p \in Child THEN CHOOSE s \in Child : TRUE ELSE p]
=============================================================================
