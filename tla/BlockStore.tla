----------------------------- MODULE BlockStore -----------------------------
(***************************************************************************)
(* The block store of one TNFS host and the processes that share it:       *)
(* `tnfs add` (tnfs.c, dag.c), `tnfs get` and `tnfs infos` (dag.c,         *)
(* network.c), `tnfs clean`, and the children tnfs-server forks for the    *)
(* requests of other hosts.  They share two things and no lock: the        *)
(* registry, Redis database 0, which maps a CID to a block name, and the   *)
(* files of ./blocks/.  One step is one system call or one Redis command,  *)
(* which is where the processes interleave.                                *)
(*                                                                         *)
(* A block is named by its CID.  Its file is "<hash>.dat" when the host    *)
(* added it and "<CID>.dat" when it downloaded it, so a path is a CID and  *)
(* one of two kinds.  A file has two parts, because fwrite hands the       *)
(* DAGNode to the kernel in two writes: the head (type, filename, links,   *)
(* most of the data), and the tail (the end of the data, and size).  A     *)
(* part is "right" when it holds the bytes the CID was computed from.      *)
(*                                                                         *)
(* Every command has a connection to Redis of its own, but the children of *)
(* the server share one, which was opened before the fork                  *)
(* (tnfs-server.c:82): when several are at work, one may read the reply to *)
(* another.  RedisClient has the protocol; here a child then takes any     *)
(* reply that was sent to one of them.                                     *)
(***************************************************************************)
EXTENDS Naturals, Sequences

CONSTANTS
    Chunks,     \* CIDs of blocks of type 1
    Parents,    \* CIDs of blocks of type 2, one per file
    Links,      \* Links[f]: the CIDs of the chunks of file f, in order
    Adders, Getters, Children,  \* processes: add, get or infos, server child
    AddFile,    \* AddFile[a]: the file that adder a adds
    Runs,       \* bound: how many times process p is started
    MaxUpsets,  \* bound: kills, cut transfers and `tnfs clean`s together
    AtRest,     \* what earlier downloads may have left of a block
    MaxInode,   \* bound: inodes that may be alive at one path
    Garbage     \* bytes in an output file that belong to no chunk

Cids  == Chunks \cup Parents
Procs == Adders \cup Getters \cup Children
Paths == Cids \X {"hash", "cid"}
Inodes == 1..MaxInode
NoInode == 0
Contents == [head : {"none", "right", "wrong"},
             tail : {"none", "right", "wrong"}]
Empty  == [head |-> "none", tail |-> "none"]
Intact == [head |-> "right", tail |-> "right"]

ASSUME CidsAssumption ==
    /\ Chunks \cap Parents = {}
    /\ Parents # {}
    /\ Garbage \notin Cids
    /\ Links \in [Parents -> Seq(Chunks)]
    /\ \A f \in Parents : Links[f] # <<>>

ASSUME ProcsAssumption ==
    /\ Adders \cap Getters = {} /\ Adders \cap Children = {}
    /\ Getters \cap Children = {}
    /\ AddFile \in [Adders -> Parents]
    /\ Runs \in [Procs -> Nat]

ASSUME BoundsAssumption ==
    /\ MaxUpsets \in Nat
    /\ MaxInode \in Nat \ {0}
    /\ AtRest \subseteq {"absent", "whole", "cut", "rotten", "missing"}

VARIABLES
    redis,    \* database 0: the kind of file registered for a CID, or "null"
    dir,      \* the inode a path is linked to, or NoInode
    data,     \* data[path][inode]: its contents; an inode stays at its path
    pc,       \* the next step of a process
    cid,      \* the CID a process is working on
    name,     \* its block_name
    fh,       \* the inode it has open at <<cid, name>>, or NoInode
    pos,      \* adders, getters: place of cid among the blocks of the file
    target,   \* getters: the CID given on the command line; children: asked for
    out,      \* getters: the chunks written to the output file so far
    result,   \* how the last run of a process ended
    runs,     \* how many times a process was started
    upsets,   \* how many upsets there were
    told,     \* replies to the children's GETs, a CID and a name, not yet read
    crossed   \* whether children may read each other's replies

vars == <<redis, dir, data, pc, cid, name, fh, pos, target, out, result,
          runs, upsets, told, crossed>>
fsVars == <<dir, data, fh>>
taskVars == <<pos, target, out, runs, told, crossed>>
-----------------------------------------------------------------------------
(* Files and inodes.                                                       *)

Path(p) == <<cid[p], name[p]>>

\* The blocks an add stores: create_chunks, then create_parent.
Blocks(a) == Append(Links[AddFile[a]], AddFile[a])

\* The file linked at a path hashes to the CID of the path (verify_block).
Whole(f) == dir[f] # NoInode /\ data[f][dir[f]] = Intact

\* The contents s after a part is written.  A tail written where there is
\* no head leaves a hole of zeros before it.
WithPart(s, part) ==
    IF part = "head" THEN [s EXCEPT !.head = "right"]
    ELSE [head |-> IF s.head = "none" THEN "wrong" ELSE s.head,
          tail |-> "right"]

\* The inodes of path f that are linked, or open in some process.
Kept(f) == {dir[f]} \cup {fh[q] : q \in {p \in Procs : Path(p) = f}}

\* The kernel frees the inodes of path f with neither a link nor a handle
\* after the step; d is what the step makes of the data.
Reclaim(f, d) ==
    LET kept == {dir'[f]} \cup
                {fh'[q] : q \in {p \in Procs : <<cid'[p], name'[p]>> = f}}
    IN  data' = [e \in Paths |-> [i \in Inodes |->
                    IF e = f /\ i \notin kept THEN Empty ELSE d[e][i]]]

\* open for writing: a new inode is linked if the path has none.
OpenCreate(p, f) ==
    \E i \in Inodes :
        /\ IF dir[f] = NoInode
           THEN i \notin Kept(f) /\ \A j \in 1..(i - 1) : j \in Kept(f)
           ELSE i = dir[f]
        /\ dir' = [dir EXCEPT ![f] = i]
        /\ fh' = [fh EXCEPT ![p] = i]

\* write through the handle of p, whatever its inode is linked to by now.
Written(p, part) == [data EXCEPT ![Path(p)][fh[p]] = WithPart(@, part)]

Goto(p, l) == pc' = [pc EXCEPT ![p] = l]

\* The process exits, for whatever reason, and the kernel closes its files.
Exit(p, r) ==
    /\ Goto(p, "idle")
    /\ result' = [result EXCEPT ![p] = r]
    /\ name' = [name EXCEPT ![p] = "null"]
    /\ fh' = [fh EXCEPT ![p] = NoInode]

Start(p, c, n, l) ==
    /\ pc[p] = "idle"
    /\ runs[p] < Runs[p]
    /\ Goto(p, l)
    /\ cid' = [cid EXCEPT ![p] = c]
    /\ name' = [name EXCEPT ![p] = n]
    /\ pos' = [pos EXCEPT ![p] = 1]
    /\ result' = [result EXCEPT ![p] = "none"]
    /\ runs' = [runs EXCEPT ![p] = @ + 1]
    /\ UNCHANGED <<redis, dir, data, fh, upsets>>

Upset == upsets < MaxUpsets /\ upsets' = upsets + 1
-----------------------------------------------------------------------------
(* The state a host may be in before the processes start: the blocks it    *)
(* downloaded earlier are whole, cut (the transfer ended early, yet        *)
(* write_file registered the file), rotten (the disk changed a byte) or    *)
(* missing (registered, but the file is gone).                             *)

Init ==
    /\ \E rest \in [Cids -> AtRest] :
        /\ redis = [c \in Cids |->
                      IF rest[c] = "absent" THEN "null" ELSE "cid"]
        /\ dir = [f \in Paths |->
                    IF f[2] = "cid" /\ rest[f[1]] \in {"whole", "cut", "rotten"}
                    THEN 1 ELSE NoInode]
        /\ data = [f \in Paths |-> [i \in Inodes |->
                     IF i # 1 \/ f[2] # "cid" THEN Empty
                     ELSE CASE rest[f[1]] = "whole"  -> Intact
                            [] rest[f[1]] = "cut"    -> [Intact EXCEPT !.tail = "none"]
                            [] rest[f[1]] = "rotten" -> [Intact EXCEPT !.tail = "wrong"]
                            [] OTHER                 -> Empty]]
    /\ pc = [p \in Procs |-> "idle"]
    /\ cid = [p \in Procs |-> CHOOSE c \in Cids : TRUE]
    /\ name = [p \in Procs |-> "null"]
    /\ fh = [p \in Procs |-> NoInode]
    /\ pos = [p \in Procs |-> 1]
    /\ target = [p \in Getters \cup Children |-> CHOOSE c \in Cids : TRUE]
    /\ out = [g \in Getters |-> <<>>]
    /\ result = [p \in Procs |-> "none"]
    /\ runs = [p \in Procs |-> 0]
    /\ upsets = 0
    /\ told = {}
    /\ crossed = FALSE
-----------------------------------------------------------------------------
(* tnfs add: add_tnfs_file, create_chunks and create_parent.               *)

AddStart(a) ==
    /\ Start(a, Blocks(a)[1], "hash", "fopen_wb")
    /\ UNCHANGED <<target, out, told, crossed>>

\* Mutant of CreateBlock: the CID is registered before the block is written.
RegisterAtOpen(a) ==
    /\ pc[a] = "fopen_wb"
    /\ OpenCreate(a, Path(a))
    /\ data' = [data EXCEPT ![Path(a)][fh'[a]] = Empty]
    /\ redis' = [redis EXCEPT ![cid[a]] = "hash"]
    /\ Goto(a, "fwrite")
    /\ UNCHANGED <<cid, name, result, taskVars, upsets>>

\* fopen(filedir, "wb") truncates the file if it is there.
CreateBlock(a) ==
    /\ pc[a] = "fopen_wb"
    /\ OpenCreate(a, Path(a))
    /\ data' = [data EXCEPT ![Path(a)][fh'[a]] = Empty]
    /\ Goto(a, "fwrite")
    /\ UNCHANGED <<redis, cid, name, result, taskVars, upsets>>

WriteBlock(a) ==
    /\ pc[a] = "fwrite"
    /\ data' = Written(a, "head")
    /\ Goto(a, "fclose")
    /\ UNCHANGED <<redis, dir, cid, name, fh, result, taskVars, upsets>>

\* fclose flushes the rest of the DAGNode.
CloseBlock(a) ==
    /\ pc[a] = "fclose"
    /\ Goto(a, "generate_cid")
    /\ fh' = [fh EXCEPT ![a] = NoInode]
    /\ UNCHANGED <<redis, dir, cid, name, result, taskVars, upsets>>
    /\ Reclaim(Path(a), Written(a, "tail"))

\* On to the next block.  Once a link is wrong (r = "wrong") the parent is
\* a block that nobody knows, and the blocks of the file end before it.
NextBlock(a, r) ==
    LET last == IF r = "wrong" THEN Len(Blocks(a)) - 1 ELSE Len(Blocks(a))
    IN  /\ pos' = [pos EXCEPT ![a] = @ + 1]
        /\ IF pos[a] < last
           THEN /\ Goto(a, "fopen_wb")
                /\ cid' = [cid EXCEPT ![a] = Blocks(a)[pos[a] + 1]]
                /\ result' = [result EXCEPT ![a] = r]
                /\ UNCHANGED <<name, fh>>
           ELSE /\ Exit(a, IF r = "wrong" THEN "wrong" ELSE "added")
                /\ UNCHANGED cid
        /\ UNCHANGED <<dir, data, target, out, runs, upsets, told, crossed>>

\* generate_cid_from_file reads the file back by its path: stat may fail,
\* and what it reads may not be what was written.  A CID outside Cids is
\* then registered, which no other process ever asks for.
GenerateCid(a) ==
    /\ pc[a] = "generate_cid"
    /\ \/ /\ dir[Path(a)] = NoInode
          /\ Exit(a, "failed")
          /\ UNCHANGED <<dir, data, cid, taskVars, upsets>>
       \/ /\ Whole(Path(a))
          /\ Goto(a, "set_redis")
          /\ UNCHANGED <<dir, data, cid, name, fh, result, taskVars, upsets>>
       \/ /\ dir[Path(a)] # NoInode /\ ~Whole(Path(a))
          /\ NextBlock(a, "wrong")
    /\ UNCHANGED redis

RegisterBlock(a) ==
    /\ pc[a] = "set_redis"
    /\ redis' = [redis EXCEPT ![cid[a]] = "hash"]
    /\ NextBlock(a, result[a])

Add(a) == \/ CreateBlock(a) \/ WriteBlock(a) \/ CloseBlock(a)
          \/ GenerateCid(a) \/ RegisterBlock(a)
-----------------------------------------------------------------------------
(* tnfs get and tnfs infos: get_tnfs_file, tnfs_get_infos, and read_block  *)
(* for the CID given and then for each link of the parent.                 *)

GetStart(g, c) ==
    /\ Start(g, c, "null", "get_redis")
    /\ target' = [target EXCEPT ![g] = c]
    /\ out' = [out EXCEPT ![g] = <<>>]
    /\ UNCHANGED <<told, crossed>>

Lookup(g) ==
    /\ pc[g] = "get_redis"
    /\ name' = [name EXCEPT ![g] = redis[cid[g]]]
    /\ Goto(g, IF redis[cid[g]] = "null" THEN "look_for_block" ELSE "fopen")
    /\ UNCHANGED <<redis, fsVars, cid, result, taskVars, upsets>>

\* look_for_block: no peer has the block, or one says it has and write_file
\* opens "<CID>.dat", without truncating it, for what will arrive.
NobodyHasIt(g) ==
    /\ pc[g] = "look_for_block"
    /\ Goto(g, "get_again")
    /\ UNCHANGED <<redis, fsVars, cid, name, result, taskVars, upsets>>

StartDownload(g) ==
    /\ pc[g] = "look_for_block"
    /\ name' = [name EXCEPT ![g] = "cid"]
    /\ OpenCreate(g, <<cid[g], "cid">>)
    /\ Goto(g, "recv")
    /\ UNCHANGED <<redis, data, cid, result, taskVars, upsets>>

ReceiveHead(g) ==
    /\ pc[g] = "recv"
    /\ data' = Written(g, "head")
    /\ Goto(g, "recv_tail")
    /\ UNCHANGED <<redis, dir, cid, name, fh, result, taskVars, upsets>>

ReceiveTail(g) ==
    /\ pc[g] = "recv_tail"
    /\ data' = Written(g, "tail")
    /\ Goto(g, "set_redis")
    /\ UNCHANGED <<redis, dir, cid, name, fh, result, taskVars, upsets>>

\* recv returns 0, or the peer announced fewer bytes: the loop ends early.
CutTransfer(g) ==
    /\ pc[g] \in {"recv", "recv_tail"}
    /\ Upset
    /\ Goto(g, "set_redis")
    /\ UNCHANGED <<redis, fsVars, cid, name, result, taskVars>>

\* Mutant of RegisterDownload: the CID is registered in place of file_name.
RegisterCid(g) ==
    /\ pc[g] = "set_redis"
    /\ redis' = [redis EXCEPT ![cid[g]] = cid[g]]
    /\ Goto(g, "get_again")
    /\ fh' = [fh EXCEPT ![g] = NoInode]
    /\ UNCHANGED <<dir, cid, name, result, taskVars, upsets>>
    /\ Reclaim(Path(g), data)

RegisterDownload(g) ==
    /\ pc[g] = "set_redis"
    /\ redis' = [redis EXCEPT ![cid[g]] = "cid"]
    /\ Goto(g, "get_again")
    /\ fh' = [fh EXCEPT ![g] = NoInode]
    /\ UNCHANGED <<dir, cid, name, result, taskVars, upsets>>
    /\ Reclaim(Path(g), data)

LookupAgain(g) ==
    /\ pc[g] = "get_again"
    /\ IF redis[cid[g]] = "null"
       THEN Exit(g, "notfound")
       ELSE /\ name' = [name EXCEPT ![g] = redis[cid[g]]]
            /\ Goto(g, "fopen")
            /\ UNCHANGED <<fh, result>>
    /\ UNCHANGED <<redis, dir, data, cid, taskVars, upsets>>

OpenBlock(g) ==
    /\ pc[g] = "fopen"
    /\ fh' = [fh EXCEPT ![g] = dir[Path(g)]]
    /\ Goto(g, IF dir[Path(g)] = NoInode THEN "del_missing" ELSE "verify")
    /\ UNCHANGED <<redis, dir, data, cid, name, result, taskVars, upsets>>

\* Mutant of ForgetMissing: read_block starts over with the entry still there.
RetryMissing(g) ==
    /\ pc[g] = "del_missing"
    /\ Goto(g, "get_redis")
    /\ UNCHANGED <<redis, fsVars, cid, name, result, taskVars, upsets>>

ForgetMissing(g) ==
    /\ pc[g] = "del_missing"
    /\ redis' = [redis EXCEPT ![cid[g]] = "null"]
    /\ Goto(g, "get_redis")
    /\ UNCHANGED <<fsVars, cid, name, result, taskVars, upsets>>

\* Mutant of VerifyBlock: 0 is taken for a failure, and verify_block never
\* returns it.
VerifyAgainstZero(g) ==
    /\ pc[g] = "verify"
    /\ UNCHANGED <<redis, dir, cid, taskVars, upsets>>
    /\ IF dir[Path(g)] = NoInode
       THEN Exit(g, "failed") /\ Reclaim(Path(g), data)
       ELSE Goto(g, "fread") /\ UNCHANGED <<data, name, fh, result>>

\* Mutant of VerifyBlock: what a download would have left is hashed.
VerifyDownload(g) ==
    /\ pc[g] = "verify"
    /\ UNCHANGED <<redis, dir, cid, taskVars, upsets>>
    /\ IF dir[Path(g)] = NoInode
       THEN Exit(g, "failed") /\ Reclaim(Path(g), data)
       ELSE /\ Goto(g, IF Whole(<<cid[g], "cid">>) THEN "fread" ELSE "del_bad")
            /\ UNCHANGED <<data, name, fh, result>>

\* verify_block looks at the path, not at the file that is already open.
VerifyBlock(g) ==
    /\ pc[g] = "verify"
    /\ UNCHANGED <<redis, dir, cid, taskVars, upsets>>
    /\ IF dir[Path(g)] = NoInode
       THEN Exit(g, "failed") /\ Reclaim(Path(g), data)
       ELSE /\ Goto(g, IF Whole(Path(g)) THEN "fread" ELSE "del_bad")
            /\ UNCHANGED <<data, name, fh, result>>

ForgetBad(g) ==
    /\ pc[g] = "del_bad"
    /\ redis' = [redis EXCEPT ![cid[g]] = "null"]
    /\ Goto(g, "remove")
    /\ UNCHANGED <<fsVars, cid, name, result, taskVars, upsets>>

\* remove(buf), by path again.  The code never closes f here, nor uses it.
RemoveBad(g) ==
    /\ pc[g] = "remove"
    /\ dir' = [dir EXCEPT ![Path(g)] = NoInode]
    /\ fh' = [fh EXCEPT ![g] = NoInode]
    /\ Goto(g, "get_redis")
    /\ UNCHANGED <<redis, cid, name, result, taskVars, upsets>>
    /\ Reclaim(Path(g), data)

\* fread and fclose, then the next link of the parent, if there is one.
GetNext(g, i, o) ==
    /\ out' = [out EXCEPT ![g] = o]
    /\ pos' = [pos EXCEPT ![g] = i + 1]
    /\ IF i <= Len(Links[target[g]])
       THEN /\ Goto(g, "get_redis")
            /\ cid' = [cid EXCEPT ![g] = Links[target[g]][i]]
            /\ name' = [name EXCEPT ![g] = "null"]
            /\ fh' = [fh EXCEPT ![g] = NoInode]
            /\ UNCHANGED result
       ELSE Exit(g, "ok") /\ UNCHANGED cid
    /\ UNCHANGED <<redis, dir, target, runs, upsets, told, crossed>>
    /\ Reclaim(Path(g), data)

\* The contents that fread finds in the file opened before.
Opened(g) == data[Path(g)][fh[g]]
IsFile(g) == target[g] \in Parents /\ Opened(g).head = "right"

ReadParent(g) ==
    /\ pc[g] = "fread" /\ pos[g] = 1
    /\ IsFile(g)
    /\ GetNext(g, 1, <<>>)

\* "This CID is a block, not a file", or the command is infos and prints.
StopAtTarget(g) ==
    /\ pc[g] = "fread" /\ pos[g] = 1
    /\ \/ ~IsFile(g) /\ Exit(g, "notfile")
       \/ Exit(g, "shown")
    /\ UNCHANGED <<redis, dir, cid, taskVars, upsets>>
    /\ Reclaim(Path(g), data)

\* DAGNode.size is in the tail: without it the node has size 0, and fwrite
\* appends nothing.
ReadChunk(g) ==
    /\ pc[g] = "fread" /\ pos[g] > 1
    /\ GetNext(g, pos[g],
           CASE Opened(g).tail = "none" -> out[g]
             [] Opened(g) = Intact      -> Append(out[g], cid[g])
             [] OTHER                   -> Append(out[g], Garbage))

Get(g) == \/ Lookup(g) \/ NobodyHasIt(g) \/ StartDownload(g)
          \/ ReceiveHead(g) \/ ReceiveTail(g) \/ RegisterDownload(g)
          \/ LookupAgain(g) \/ OpenBlock(g) \/ ForgetMissing(g)
          \/ VerifyBlock(g) \/ ForgetBad(g) \/ RemoveBad(g)
          \/ ReadParent(g) \/ StopAtTarget(g) \/ ReadChunk(g)
-----------------------------------------------------------------------------
(* A child of tnfs-server: one request of another host.                    *)

\* From when two children were at work at once, or one was killed and may
\* have left a reply unread, whose reply a child reads is left open.
Accept(s, c) ==
    /\ Start(s, c, "null", "s_get_redis")
    /\ target' = [target EXCEPT ![s] = c]
    /\ crossed' = (crossed \/ \E q \in Children : pc[q] # "idle")
    /\ UNCHANGED <<out, told>>

ChildAsks(s) ==
    /\ pc[s] = "s_get_redis"
    /\ told' = told \cup {<<target[s], redis[target[s]]>>}
    /\ Goto(s, "s_reply")
    /\ UNCHANGED <<redis, fsVars, cid, name, result, pos, target, out, runs,
                   upsets, crossed>>

\* The name that the child reads is that of the block it asked for or, when
\* replies are crossed, of another one, or no name at all: the reply to a
\* SELECT names no file, and others are taken for "null".
ChildHears(s) ==
    LET None == Goto(s, "s_peers") /\ UNCHANGED <<cid, name, fh, result>>
    IN  /\ pc[s] = "s_reply"
        /\ \/ \E r \in told :
                /\ told' = IF crossed THEN told ELSE told \ {r}
                /\ IF r[2] = "null" THEN None
                   ELSE /\ cid' = [cid EXCEPT ![s] = r[1]]
                        /\ name' = [name EXCEPT ![s] = r[2]]
                        /\ Goto(s, "s_verify")
                        /\ UNCHANGED <<fh, result>>
           \/ /\ crossed /\ UNCHANGED told
              /\ \/ None
                 \/ Exit(s, "dead") /\ UNCHANGED cid
        /\ UNCHANGED <<redis, dir, data, pos, target, out, runs, upsets, crossed>>

\* verify_block compares with the CID that was asked for.
Verified(s) == cid[s] = target[s] /\ Whole(Path(s))

\* open() is compared with NULL, but returns -1 if the file is missing: the
\* branch that would forget the block and answer N is never taken, and
\* verify_block then ends the child in get_file_stats, without an answer.
ChildVerify(s) ==
    /\ pc[s] = "s_verify"
    /\ \/ dir[Path(s)] = NoInode /\ Exit(s, "dead")
       \/ /\ dir[Path(s)] # NoInode
          /\ Goto(s, IF Verified(s) THEN "s_send" ELSE "s_del")
          /\ result' = [result EXCEPT ![s] = IF Verified(s) THEN "Y" ELSE @]
          /\ UNCHANGED <<name, fh>>
    /\ UNCHANGED <<redis, dir, data, cid, taskVars, upsets>>

\* The buffer that held the CID was zeroed (line 138) before it is given to
\* DEL (line 142): no block has the empty key, and the entry stays.
ChildForget(s) ==
    /\ pc[s] = "s_del"
    /\ Goto(s, "s_remove")
    /\ UNCHANGED <<redis, fsVars, cid, name, result, taskVars, upsets>>

ChildRemove(s) ==
    /\ pc[s] = "s_remove"
    /\ dir' = [dir EXCEPT ![Path(s)] = NoInode]
    /\ Goto(s, "s_peers")
    /\ UNCHANGED <<redis, cid, name, fh, result, taskVars, upsets>>
    /\ Reclaim(Path(s), data)

\* The client was answered N and asks for PEERS: the child lists them.
ChildPeers(s) ==
    /\ pc[s] = "s_peers"
    /\ Exit(s, "N")
    /\ UNCHANGED <<redis, dir, data, cid, taskVars, upsets>>

\* The client answered Y with BLOCK, and send_file opens the path anew.
ChildSend(s) ==
    /\ pc[s] = "s_send"
    /\ Exit(s, IF dir[Path(s)] = NoInode THEN "dead"
               ELSE IF Whole(Path(s)) THEN "sent" ELSE "sent_bad")
    /\ UNCHANGED <<redis, dir, data, cid, taskVars, upsets>>

Serve(s) == \/ ChildAsks(s) \/ ChildHears(s) \/ ChildVerify(s)
            \/ ChildForget(s) \/ ChildRemove(s) \/ ChildPeers(s)
            \/ ChildSend(s)
-----------------------------------------------------------------------------
\* tnfs clean: FLUSHDB empties the registry and leaves the files.
Clean ==
    /\ Upset
    /\ redis' = [c \in Cids |-> "null"]
    /\ UNCHANGED <<fsVars, pc, cid, name, result, taskVars>>

\* A process is killed, or the exit of write_file when recv fails.
Kill(p) ==
    /\ pc[p] # "idle"
    /\ Upset
    /\ Exit(p, "killed")
    /\ crossed' = (crossed \/ p \in Children)
    /\ UNCHANGED <<redis, dir, cid, pos, target, out, runs, told>>
    /\ Reclaim(Path(p), data)

\* Every command was run: nothing is left to do.
Finished ==
    /\ \A p \in Procs : pc[p] = "idle" /\ runs[p] = Runs[p]
    /\ UNCHANGED vars

Next ==
    \/ \E a \in Adders : AddStart(a) \/ Add(a)
    \/ \E g \in Getters : (\E c \in Cids : GetStart(g, c)) \/ Get(g)
    \/ \E g \in Getters : CutTransfer(g)
    \/ \E s \in Children : (\E c \in Cids : Accept(s, c)) \/ Serve(s)
    \/ Clean
    \/ \E p \in Procs : Kill(p)
    \/ Finished

Spec == Init /\ [][Next]_vars

\* A started `tnfs get` is scheduled again and again, and the peer it talks
\* to goes on sending.
FairSpec == Spec /\ \A g \in Getters : WF_vars(Get(g))
-----------------------------------------------------------------------------
(* Properties.                                                             *)

\* The places where a process may be, and how a run of it may end.
Labels ==
    {"idle", "fopen_wb", "fwrite", "fclose", "generate_cid", "set_redis",
     "get_redis", "look_for_block", "recv", "recv_tail", "get_again", "fopen",
     "del_missing", "verify", "del_bad", "remove", "fread",
     "s_get_redis", "s_reply", "s_verify", "s_del", "s_remove", "s_peers",
     "s_send"}
Results == {"none", "added", "wrong", "failed", "killed", "ok", "notfile",
            "notfound", "shown", "N", "Y", "dead", "sent", "sent_bad"}

\* Type invariant.
TypeOK ==
    /\ redis \in [Cids -> {"null", "hash", "cid"}]
    /\ dir \in [Paths -> Inodes \cup {NoInode}]
    /\ data \in [Paths -> [Inodes -> Contents]]
    /\ pc \in [Procs -> Labels]
    /\ cid \in [Procs -> Cids]
    /\ name \in [Procs -> {"null", "hash", "cid"}]
    /\ fh \in [Procs -> Inodes \cup {NoInode}]
    /\ pos \in [Procs -> Nat \ {0}]
    /\ target \in [Getters \cup Children -> Cids]
    /\ out \in [Getters -> Seq(Chunks \cup {Garbage})]
    /\ result \in [Procs -> Results]
    /\ runs \in [Procs -> Nat]
    /\ upsets \in Nat
    /\ told \subseteq Cids \X {"null", "hash", "cid"}
    /\ crossed \in BOOLEAN

\* The block c is reachable under the name that create_chunks and
\* create_parent give it: registered, or already looked up by a reader.
KnownAsAdded(c) ==
    \/ redis[c] = "hash"
    \/ \E p \in Getters \cup Children : cid[p] = c /\ name[p] = "hash"

\* Whoever is pointed to a block that this host added finds a file that
\* hashes to its CID: it is registered after it is written (dag.c:53-65,
\* 104-114), and nobody overwrites, truncates or removes it afterwards, as
\* long as the children of the server read their own replies: one that reads
\* the name of another block removes its file (tnfs-server.c:137-144).
AddedIntact ==
    ~crossed => \A c \in Cids : KnownAsAdded(c) => Whole(<<c, "hash">>)

\* The condition under which AddedIntact holds: no block is stored twice, as
\* it is when a file is added again or two files have a chunk in common.
\* fopen(filedir, "wb") truncates a block that is already published.
OncePerBlock ==
    /\ \A a \in Adders : Runs[a] <= 1
    /\ \A a, b \in Adders :
         \A i \in 1..Len(Blocks(a)), j \in 1..Len(Blocks(b)) :
            Blocks(a)[i] = Blocks(b)[j] => a = b /\ i = j

\* What get_tnfs_file has written is a beginning of the file the CID names,
\* all of it once it says "File downloaded !" (tnfs.c:81-93): verify_block
\* keeps damaged blocks out (dag.c:162-170).
OutputIsPrefix ==
    \A g \in Getters : target[g] \in Parents =>
        /\ out[g] = SubSeq(Links[target[g]], 1, Len(out[g]))
        /\ result[g] = "ok" => out[g] = Links[target[g]]

\* The entry of a block that this host added goes in one of three ways:
\* `tnfs clean`; a reader deletes it, on the evidence of a download that it
\* looked up before (dag.c:157, 166); a reader registers over it the block
\* that it has just downloaded (network.c:46).  It is never deleted because
\* the file that was added seemed bad, if replies are not crossed.
AddedForgotten ==
    [][\A c \in Cids : redis[c] = "hash" /\ redis'[c] # "hash" =>
          \/ crossed \/ upsets' # upsets
          \/ \E g \in Getters :
                /\ cid[g] = c /\ name[g] = "cid" /\ pc'[g] # pc[g]
                /\ \/ pc[g] \in {"del_missing", "del_bad"} /\ redis'[c] = "null"
                   \/ pc[g] = "set_redis" /\ redis'[c] = "cid"]_vars

\* A `tnfs get` or `tnfs infos` that was started ends, found or not.
GetTerminates == \A g \in Getters : pc[g] # "idle" ~> pc[g] = "idle"
=============================================================================
