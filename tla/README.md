# TNFS in TLA+

TNFS is a small content-addressed file system in C, after IPFS. `tnfs add` cuts
a file into blocks and names each by a CID, the hash of the block's file;
`tnfs get` fetches a file by the CID of its parent block, from this host or from
another one; `tnfs-server` answers the requests of other hosts. This directory
models what the processes of a host do to the state they share, and what they
do to each other over Redis and TCP. Line numbers are those of `src/src/`.

## Inventory

| component | state | operations | hard behaviour |
|---|---|---|---|
| block store (`dag.c`, `tnfs.c`) | files of `./blocks/`, database 0 of Redis (CID to block name) | `create_chunks`, `create_parent`, `read_block`, `verify_block`, `add_tnfs_file`, `get_tnfs_file`, `tnfs_get_infos`, `tnfs_clean_data` | processes share the files and the registry without a lock; a block is opened before it is verified; retries by recursion; kills in the middle |
| registry (`redis.c`) | one connection per process, the database selected on it | `set`, `get`, `del`, `get_all_peers_command`, `clean_registry`, each a SELECT and a command | two commands per call; forked children share one connection |
| hiredis, synchronous (vendored) | the context: descriptor, error, output buffer, reader | connect, reconnect, format and append a command, get a reply, free | bytes arrive in any pieces; malformed replies; failures of the kernel; buffers are copied by `fork`, the socket is not |
| hiredis, asynchronous (vendored) | lists and tables of callbacks, flags | commands, subscriptions, monitor, disconnect and free; events | calls from callbacks, pipelined subscriptions, one-shot events |
| server (`tnfs-server.c`) | listening socket, one child per connection | accept loop, `send_file`, `send_peers` | forgets to close descriptors; ends without an answer; removes the file of a bad block and leaves its entry; acts on what it read before |
| lookup (`network.c`) | one socket at a time | `look_for_block`, `write_file`, `receive_peers` | cut transfers, partial `recv`, peers that do not answer |
| peers (`peer.c`) | database 1 of Redis (addresses) | add, remove, list | hosts learn addresses from each other |
| CID generation (`file.c`) | none | hash of a block's file, block names | reads back by path |
| SHA-256, Base32 (vendored) | none | pure | boundaries of the padding |
| command line (`main.c`), logger | none | which command runs what | none |

What makes the parts correct:

- *block store*: a block that is registered as added is whole for whoever
  follows the entry; a get writes nothing but the file it was asked for; a get
  ends; a file that was announced as added stays available.
- *registry*: a call acts once, at one instant, on the database of its own type,
  and gets its own answer; every call ends.
- *server and lookup*: every request is answered; a client that waits is not
  left waiting; the server does not run out of descriptors; a block a reachable
  host has is found.
- *hiredis*: commands and replies arrive whole, in order, once; no descriptor
  is lost or used after it was closed; every callback runs; both sides agree on
  what is subscribed.
- *chunking and CIDs*: the chunks put together are the file; no link is lost;
  different contents have different CIDs.

The list of what is hard to test, line by line, is in `PROJECT.json` under
`hazards`.

## Modules

| module | what it is | models |
|---|---|---|
| `BlockStore` | the block store of one host and the processes that share it | `dag.c`, `tnfs.c`, `network.c:17-49`, `tnfs-server.c` as far as they touch blocks |
| `MCBlockStore` | its instances for TLC | |
| `BlockStoreProof` | proofs: type correctness, that added blocks are intact, who may forget them, and what get writes | |
| `Exchange` | one `tnfs-server` and its clients over TCP | `tnfs-server.c`, `network.c` |
| `ExchangeProof` | proofs: type correctness, what is registered, and which addresses are stored | |
| `Gossip` | several hosts: the walk over the peers, and what they tell each other | `network.c:51-161`, `peer.c`, `main.c` |
| `MCGossip` | its instance for TLC: who knows whom | |
| `GossipProof` | proofs: type correctness, that a lookup that finds nothing was exhaustive, and why a command fails | |
| `Registry` | the vocabulary of `redis.h`: types, keys, calls, commands, replies | `redis.h`, `redis.c` |
| `TypedStore` | abstract: what `redis.c` promises | |
| `RedisClient` | `redis.c` over hiredis over a connection to Redis | `redis.c`, `hiredis.c:780-935` |
| `MCRedisClient` | its instances for TLC: what each program calls | |
| `RedisClientProof` | proofs: type correctness, refinement of `TypedStore`, peers are peers | |
| `Sds` | the strings of hiredis | `sds.c`, `sds.h` |
| `Reader` | its parser of replies | `read.c`, `hiredis.c:100-187` |
| `Format` | how it formats commands | `hiredis.c:191-560`, `sds.c:461-487` |
| `Hiredis` | a context from connecting to freeing | `hiredis.c:567-1000`, `net.c` |
| `MCHiredis` | its instance for TLC: commands, answers, ways to connect | |
| `HiredisProof` | proofs: the parser does not see how its bytes are cut; descriptors and connecting; replies in order, whole, none lost | |
| `Dict` | the hash table of callbacks | `dict.c` |
| `Async` | the asynchronous API between an event loop, its user and Redis | `async.c`, `adapters/libevent.h` |
| `MCAsync` | its instance for TLC: keys and scripts of the user | |
| `AsyncProof` | proofs: types, replies and callbacks match, none is forgotten, subscriptions agree, no assert fails | |
| `Chunking` | how a file is cut into blocks and put together again | `tnfs.c:13-95`, `dag.c:7-123` |
| `Sha256` | which chunks SHA-256 compresses | `sha-256.c` |
| `ContentHash` | what the standard says it compresses for the contents of a file | |
| `Cid` | how a CID is computed from a hash | `base-32.c`, `file.c:56-81` |
| `MCChunking` | instances of `Chunking`, `ContentHash` and `Cid` for TLC | |
| `ChunkingProof` | proofs: type correctness, that what is got is what was added, and what is hashed | |
| `Induction` | induction over the numbers and functions defined by it, for the proofs | |

`RedisClient` extends `Registry` and instantiates `TypedStore`. `BlockStore`
takes what `RedisClient` is shown to promise to a process with a connection of
its own: a call on the registry is one step of it. The children of a server share
a connection and have no such promise, so that for them the reading of a reply is
a step apart, and whose reply is read may be open (see below). `Exchange` looks at the
conversation that `BlockStore` reduces to "the transfer arrives, or is cut", and
supposes of Redis that each child gets its own replies; `shared_connection` is
about when it does not. `Gossip` looks at many hosts, and
at a conversation as a block, the addresses one by one, a loss, or no answer at
all. `Format` and `Reader` extend `Sds`, `Hiredis`
extends both: what `RedisClient` takes as "a command goes out, a reply comes in"
is there in bytes. `Async` keeps commands and replies whole again, and extends
`Dict`. `Chunking` looks inside the file that is a sequence of chunks in
`BlockStore`.

### BlockStore

State: `redis`, database 0 (a CID maps to the kind of file name it is registered
with); `dir` and `data`, the directory `./blocks/` and the inodes behind its
names; and for each process its place in the code (`pc`), the local variables
`cid`, `block_name` (`name`) and the file it has open (`fh`), and its progress
through the links. Adders, getters and children are processes of three kinds.

- A step is one system call or one Redis command. Which ones there are is what
  the code says: `create_chunks` and `create_parent` (`dag.c:46-65`, `104-114`)
  are `CreateBlock` (fopen "wb", which truncates), `WriteBlock`, `CloseBlock`,
  `GenerateCid` (reads the file back by its path) and `RegisterBlock`.
  `read_block` (`dag.c:138-177`) is `Lookup` to `RemoveBad` and `ReadParent`,
  `ReadChunk` or `StopAtTarget`; its recursive calls go back to `get_redis`. A
  child of the server is `Accept`, `ChildAsks` to `ChildSend`.
- A child whose block is bad sends `DEL` with the buffer that held the CID, and
  that was zeroed before (`tnfs-server.c:138`, `142`). So `ChildForget` deletes no
  entry, and `ChildRemove` leaves one that leads to no file, which a reader then
  meets (`dag.c:155-158`), and the next child ends at (`tnfs-server.c:131`).
- `told` has the replies to the `GET`s of the children, a CID with a name. As
  long as one child is at work it reads its own. From when there were two, or one was
  killed with a reply unread, they are `crossed`: a child may read any reply that
  a child was ever sent, or one that is no name. That is more than can happen on a
  shared connection, where the replies have an order and are read once.
- A name in `./blocks/` is `<hash>.dat` for a block that was added and
  `<CID>.dat` for one that was downloaded, so a path is a CID and `"hash"` or
  `"cid"`. Inodes are kept apart from names because `remove` followed by a new
  `open` gives the same name to another file, while whoever opened the old one
  reads on in it.
- A file has two parts. A `DAGNode` is longer than the buffer of stdio, so
  glibc hands it to the kernel in two writes: most of it in `fwrite` and the rest
  in `fclose`. A part is right, wrong or not there; a block is `Intact` when both
  are right, which is when its hash is its CID.
- `verify_block`, and `stat` and `open` in `generate_cid_from_file`, are one
  step each: the file is read with one look at its path.
- An *upset* is a kill, a transfer that ends early, or a `tnfs clean`. `Init`
  leaves of each block what earlier downloads may have left: nothing, a whole
  file, a cut one, a rotten one, or an entry without a file.

### Registry, TypedStore and RedisClient

A call of `redis.c` sends `SELECT`, waits for the reply, and sends its command.
`RedisClient` has hiredis's output buffer and reader for each process, and the
two directions of each connection; Redis keeps the selected database by
connection and serves one command at a time. `Flush`, `Read` and `Selected` are
`redisGetReply`, which returns a reply it already has before it writes or reads
anything, and when it reads takes all the replies that are there. `Via` gives
each process its connection; the children of a server have the same one, since
`tnfs-server.c:82` connects before the fork, and each has a copy of the buffers.

`TypedStore` has `Call`, `Apply` and `Return` only: a call acts at one instant,
on the database of its own type. The refinement mapping (`AbsState`,
`AbsAnswer`) says that a call has acted once the reply to its command is on its
way.

### Exchange

Messages of `SIZE` bytes (a text, then zeros) are three units, two with text and
one with zeros; a unit of a block is as long. `recv` returns up to `SIZE` units;
one that returns less than it could is the fault `"short"`. `Accept` is the
accept loop (`tnfs-server.c:98-106`), which never closes `clientSocket`: `fds`
counts the descriptors it has left, and `Closed(c)` says that no process holds
a descriptor of connection `c` any more, neither the parent, nor the child that
serves it, nor one forked later, which inherited it. `ChildReceives`,
`ChildLooksUp`, `ChildVerifies`, `ChildRemoves`, `ChildHears`, `ChildSends` and
`ChildEnds` are the child, whose steps on the registry and on the files interleave
with those of another. `held` is what the server has of each block: nothing, a
whole file, a bad one, or an entry without a file, which a bad one becomes when a
child removes it; other processes of the host, which would delete that entry
when they need the block, are not there. `Connect` to `EndPeers` the client
(`look_for_block`, `write_file`, `receive_peers`). The server may crash, fork may
fail, a client may be killed. `addr_size` is not initialised
(`tnfs-server.c:93`), so the first accept may fail.

### Chunking

`AddFile` is the test of the length, `CreateChunk` one turn of the loop of
`create_chunks`, `CreateParent` and the three steps of `get_tnfs_file` the rest.
A CID stands for the contents it was computed from. `nbLinks` counts all the
chunks and only `MAX_LINKS` are copied, as in `dag.c:78-90`; a link read beyond
the array is an empty string (the zeroed `data` that follows), which nobody has.

### Gossip

A host is its address. `Get`, `ReadBlock`, `Connect`, `Answer`, `ReceivePeer`,
`EndPeers`, `EndWalk` and `Check` are `tnfs get` on a host that misses a block:
the peers are read once (`network.c:79`), each is asked in turn, one that refuses
costs a socket that is never closed (`network.c:157`), one that has the block
sends it, one that has an entry for it and no file never answers
(`tnfs-server.c:131`), any other sends the addresses it has at that moment, and an
address without a colon ends the next lookup (`peer.c:46`). A block may be `held`,
`bad` or `missing` at a host: asking for a bad one makes it missing (`Answer`; or not
yet, if another child is at it, `AnotherAsks`), and a reader on that host deletes the
entry (`Forget`). A get that waits for an answer that does not come
(`"unanswered"`) waits until its user interrupts it (`Interrupt`), or until the
server stops (`Lost`), which it notices before the server is back
(`StartServer`). Servers stop and start, one fails to fork (`NoChild`), a file is
damaged (`Rot`), the user adds and removes addresses. `owed` is a history
variable: what each peer had to tell when the lookup began, less what was
forgotten or lost since. Replies are not crossed and each `recv` is whole here.

### Sha256 and Cid

SHA-256 as the chunks that are compressed, in the order in which `consume_chunk`
gets them: how `sha_256_write` gathers bytes and `sha_256_close` pads them, for
any length of chunk; a turn of the loop of `sha_256_write` is `WriteTurn`, of which
there are no more than bytes. The compression itself is left out, so a hash stands
for its chunks. `ContentHash` states what should be compressed. Base 32 is there bit by bit, as the C code shifts.

### Sds, Reader, Format and Hiredis

A string is its type, its allocation and the bytes in use; the limits of the
types are constants. `Reader` has the stack of tasks (`rstack`), the position in
the buffer, and each `process*Item`; the object under construction is a function
from places in the nested reply to values. The loop over the items is a function
of how many were processed (`Items`): one that is complete has taken bytes, so that
there is one more than there are bytes at most. `Format` has both passes of
`redisvFormatCommand` over the characters, with the conversions it knows.

`Hiredis` is one context. An action is a system call and what the library does
with its result, up to the next one: `Resolve`, `Socket`, `Prepare`,
`ConnectCall`, `WaitReady` and `Finish` are connecting, with all their ways to
fail and the retries for an address that is not available; `Write` and `Read` are
turns of the loops of `redisGetReply`, which move any part of what is there;
`AppendCommand`, `GetReply`, `BufferWrite`, `BufferRead`, `Reconnect`,
`SetTimeout` and `Free` are calls. Redis reads whole commands (`Serve`) and
answers with a reply of its choice, well formed or not; it may close or reset.
`AnswersAssumption` says what such an answer is: the bytes that a new reader, given
all of them at once, takes for that reply and for nothing more, or finds an error
in. TLC evaluates it for the answers of the run.

### Dict and Async

`Dict` is `dict.c` as functions of a table of chains. In `Async` the program
counter says where the one thread is: `idle` (in the event loop), in
`redisProcessCallbacks`, in a callback of the user, or in `__redisAsyncFree`.
While it is idle or in a callback the user may call `Command`, `Disconnect` or
`Free`; a callback returns to whoever called it. `scheduled` are the events that
libevent waits for, each of which comes once. `Serve` and `Publish` are Redis,
which keeps its own set of subscriptions.

`Proper` says what `async.c` takes for granted of its user. None of it is
documented; without it the code aborts (`async.c:478`, after a second
`UNSUBSCRIBE`, or a `GET` sent between the last one and its answer), hands a
message to the callback of the reply before (`async.c:391`), or keeps entries for
ever (`async.c:642`). `AsyncAssumption` adds that a command about keys names at
least one, and each once. TNFS does not use this API.

## Runs

| run | question | result |
|---|---|---|
| `block_store` | one add, one get or infos, one child, one upset: is a registered block intact, who takes its entry away, is the output a beginning of the file, does a get end? | holds |
| `two_getters` | the same of the output, with two gets at once | violated |
| `own_connections` | do calls act once on their own database, and return? | holds |
| `shared_connection` | are peers peers when children share a connection? | violated |
| `exchange` | are files and addresses received as sent, and do lookups return, but in two named cases? | holds |
| `lookup_hangs` | does every lookup return if the file of a block is bad at the server? | violated |
| `short_recv` | is a file received as sent if a `recv` is short? | violated |
| `gossip` | is a lookup exhaustive, does a command fail only for a cause, is a file found some time? | holds |
| `hiredis` | do bytes become commands and replies in order, does every call return, are descriptors kept? | holds |
| `async` | does each callback get its own, is none forgotten, do subscriptions agree, does no assert fail, does what was asked for end? | holds |
| `chunking` | is what is got what was added, and is what is accepted got? Are hashes and CIDs what the standards say? | holds below the maximum |
| `max_file` | the same for a file of exactly the maximum length | violated |

What the violations show:

- `two_getters`: `read_block` opens a block (`dag.c:155`), then verifies what the
  path names (`dag.c:163`), then reads from the file it opened (`dag.c:172`).
  Another get that meanwhile removed the rotten file and downloaded a good one
  makes the verification pass, and the rotten bytes go to the output.
- `shared_connection`: two children send `SELECT 1` and `SELECT 0`, and `KEYS *`
  of the first lists the CIDs, or a child takes the other's reply for its own.
- `lookup_hangs`: the first client is answered N, and the child removes the file,
  but `buffer` is zeroed (`tnfs-server.c:138`) before it is given to `DEL` (`142`), so
  that the entry stays. The child of the second client finds an entry without a
  file: `open` returns -1 and is compared with `NULL` (`131`), so the branch for a
  missing file is not taken, the child ends without an answer, and the parent still
  holds the connection.
- `short_recv`: what one `recv` leaves of a message is read as the next one.
- `max_file`: `get_number_of_blocks` gives 401 chunks for a file of
  `MAX_FILE_LENGTH`, one more than the links of a parent.

Weaknesses that a property names instead of denying: a reader may delete an
entry on the evidence of an older download (`dag.c:157`, `166`), or register its
download over it (`network.c:46`), though an add replaced both in between;
`AddedForgotten` says that these, and `tnfs clean`, are the only ways for an added
block to lose its entry, unless replies are crossed. `AddedIntact` excepts
crossed replies too: a child that reads the name of an added block in place of its
own finds that it is not what it was asked for, and removes a file that is whole
(`tnfs-server.c:137-144`). `ConnectReports` excepts the failures that leave `c->err` at 0, at
`net.c:457`, and at `net.c:384`; the second it excepts as every context that tries
to reuse an address, so of those it says nothing. `FailsForCause` excepts the
sockets of dead peers, and a command interrupted while it waited for a peer that has
lost the file of the block. `LookupReturns` excepts that too, and a fork that failed.

Bounds, and why they are enough:

- `block_store`, `two_getters`: a process per role, since each
  property is about one writer and one reader of a block, and two getters for
  the race of two. Two chunks and a parent in `block_store`: a get then reads a
  parent and goes on to a second link. Each process is started once, there is
  one upset, and four inodes at one path, as many as can be alive there: one
  linked, and one open in each of three processes. At the start every
  block is a rotten download: absent, cut, whole and missing ones come about in
  the run. There is one child, so that replies are never crossed and what the
  properties say of that case is not tried; the proofs cover any number of them.
- `gossip`: a reader, a relay that knows more, a holder, and a dead address: a
  file is then found two hops away, in more than one lookup. The holder knows the
  relay at most. Two blocks, which may be at different hosts, and two sockets; the
  relay may have a bad copy of a block that the holder has. Two upsets, so that an
  address is typed and a server stopped, or two files of the holder are damaged.
- `hiredis`: strings of types with limits 8 and 32, so that a buffer changes its
  type; commands with an empty argument, one with CR LF in it, one of two digits
  of length, and a format that is none; two answers that can be told apart, one of
  them with nesting, an empty array, nil and the least number; a number that
  overflows (`LLONG_MAX` is 127), and an array nested too deeply; two commands, so
  that a reply can be taken for another's; one partial read or write (`MaxCuts`)
  at every place; two addresses, one reconnect.
- `async`: seven scripts of up to three commands, interleaved with every event:
  pipelined regular commands, monitor, a channel that is left and subscribed to
  again before the answers, two keys in one chain of a table that has to grow,
  regular commands in subscribed mode, a pattern without a callback. One message,
  one partial event, one failure.
- `own_connections`: one process that may be any program but a getter, one
  getter with the longest script, one CID, one peer, two names: calls on both
  databases interleave. `RedisClientProof` covers any number of each.
  `shared_connection`: two children of one server.
- `exchange`: two clients, which may ask for the same bad block, at once or one
  after the other; the child of the second inherits the connection of the first; one or two descriptors, so that accept does and does
  not fail; a block of four units, one more than a `recv`; two peers; one fault.
- `chunking`: every file of up to nine bytes over two values, blocks of two
  bytes, parents of four links: empty, shorter than a block, exact multiples,
  the greatest length, and one more. They are the input of the hash too, in
  chunks of five bytes with a length of two, and in every cut into three writes;
  a CID is computed from hashes that repeat them. A byte 0 is among the values, because
  blocks are padded with zeros.

Deadlock is checked except where the system really stops: in
`shared_connection` a child waits for a reply that another one took, in
`lookup_hangs` and `short_recv` a client or a child waits for a message that does
not come, and in `exchange` a client waits for ever when `fork` failed, or when the
block it asked for is registered and has no file (`Unserved`, which `LookupReturns`
excepts).

### Fairness

- `BlockStore!FairSpec`: a get that was started is scheduled again and again,
  and the peer it talks to goes on sending. Without the second a `recv` without a
  timeout may wait for ever, in the code as well; `exchange` and `lookup_hangs`
  are about when that is so. Adders and children need no fairness: nobody waits
  for them. `GetTerminates` also rests on `MaxUpsets`: against a peer that sends
  a bad block each time `read_block` goes round without end, as the code does.
- `RedisClient!FairSpec`: the operating system runs every process and Redis
  serves every connection.
- `Exchange!FairSpec`: the accept loop, each client and each child that can take a
  step eventually does. Crashes, kills and failing forks are not fair.
- `Chunking!FairSpec`: the program runs to its end.
- `Gossip!FairSpec`: a command goes on, its user interrupts it when no answer comes
  and starts it again until the file is found. That a command goes on at `"asked"`
  supposes of the peer that its server runs, that the child it forks is scheduled and
  that the network delivers; the answer may then be none (`"unanswered"`: an entry
  without a file, or a failed fork), which `FairSpec` does not exclude. Without an
  interrupt such a get waits for ever, as `recv` has no timeout (`network.c:97`).
  `FileFound` supposes besides that the file stays obtainable: some host within
  reach has each block, and none within reach has an entry without a file for a block
  that the reader lacks. `recv` is as in `exchange` whole.
- `Hiredis!FairSpec`: calls go on when they can, and Redis reads a whole command
  that has arrived. It need not answer with a whole reply: then it is a protocol
  error, a timeout or a closed connection that ends the call.
- `Async!FairSpec`: the event loop runs handlers of events that are due, callbacks
  return, Redis accepts and serves. Publishing, failures and the calls of the
  user are not fair.

## Proofs

All theorems hold for every value of the constants that the assumptions of the
modules allow: any number of processes, files, chunks, peers and restarts.

- `BlockStoreProof!TypeCorrect`: the type invariant, strengthened by `Control`:
  an adder in the middle of a block works at the block its `pos` says, a getter at
  the link its `pos` says, and a process that writes has a file open. Without
  them the links it reads next need not exist.
- `BlockStoreProof!AddedIntactHolds`: `OncePerBlock /\ Spec => []AddedIntact`,
  where `AddedIntact` speaks of replies that are not crossed. The
  inductive invariant `AddInv` says that (as long as they are not crossed) one child
  at most is at work, the reply it waits for is its own (`Replies`), that an entry or a name of the kind that add
  gives is known only of blocks that were stored, that these are whole, how far
  the file under work has come (`Progress`), and that a reader that is about to
  write or remove has a file it downloaded (`HarmsNone`). That holds because
  `verify_block` succeeds on whole files, and a reader removes nothing that it
  found whole. `OncePerBlock` is needed: `fopen(filedir, "wb")` truncates a block
  that is already published, so a file that is added twice, or two files with a
  chunk in common, break `AddedIntact`.
- `BlockStoreProof!AddedForgottenHolds`: the action property, from the same
  invariant: the process whose step takes the entry of an added block away is a
  reader that looked up a download of that block, and deletes the entry or registers
  a new download over it; a child never does.
- `RedisClientProof!RedisTypeCorrect`, `RedisRefines`, `PeersArePeersHolds`: under
  `OwnConnection`, that no two processes share a connection, `RedisClient`
  implements `TypedStore`. The invariant `Pipe` says that a process has at most
  one command under way, where it is, and that the database of its call is
  selected when the command is sent. `shared_connection` shows that
  `OwnConnection` cannot be dropped.
- `BlockStoreProof!OutputHolds`: `OneGetter /\ OncePerBlock /\ Spec =>
  []OutputIsPrefix`. The invariant `GetInv` says that the output is the chunks
  before the link the getter is at (`Wrote`), and that the file it has open is the
  one at its path, or there is none there any more, and is the block once
  `verify_block` has seen it (`HoldsBlock`). Adders, children, clean and kills leave
  that file alone because, by `AddInv`, none of them writes to a file that others
  can see; a child may remove the file, its own or, when replies are crossed,
  another's, and the getter reads on in what it opened. So this holds of crossed
  replies too. A second getter puts another file there, and `two_getters` is what follows:
  `OneGetter` is needed.
- `ChunkingProof!ChunkingTypeCorrect`, `RoundTripHolds`: chunk *i* holds the bytes
  from `Covered(i) + 1` to `Covered(i + 1)` of the file, where `Covered(i)` is
  `i * BLOCK_LIMIT`, or the length of the file if that is less. The invariant says
  that of the chunks made, of the links of the parent, and of the output; what is
  left is that the last chunk ends where the file does (`AllCovered`, from the
  definition of division).
- `ChunkingProof!HashesContentsHolds`: for any file, length of a chunk and length of
  the length. A state of the hash is `Gathered` from the padded message: the chunks
  that were compressed are its first ones, what waits comes after them
  (`Compressed`, `Ahead`). Every turn of `sha_256_write` keeps that, wherever it cuts
  (`TurnGathers`), and so does `sha_256_close`, whether the length fits in the chunk or
  needs one more (`PaddingIs`: these are the only two numbers of zeros);
  at the end all of the message is in chunks (`AllCompressed`). The bytes of the
  length, which the code shifts out, are its digits in base 256 (`LengthBytes`).

- `GossipProof!GossipTypeCorrect`, `NotFoundIsExhaustiveHolds`: for any number of
  hosts, readers and blocks. The invariant `Owing` says that what a peer owed when
  the lookup began it can still tell (`Fresh`), that a server that stopped owes
  nothing, and that the peers already asked have told it (`Told`); hence when all
  are asked, and the block did not come, the addresses are known. A peer that does
  not answer goes on owing, and the lookup does not get past it: it ends interrupted,
  or goes on after the server stopped.
- `GossipProof!FailsForCauseHolds`: for any number of hosts, blocks and sockets, a
  command that stops without a result has used its sockets up, and with no upset
  there are dead addresses enough among its peers to do that. The invariant
  `Frugal` counts: until there is an upset a host knows only hosts and dead
  addresses (`Calm`), and the sockets spent are at most one for each dead address in
  each walk before, and one for each of this walk that was asked already (`Spent`).
  It has also that a get that waits for an answer waits for a peer whose file of the
  block is gone (`LacksFile`).
- `ExchangeProof!FileReceivedHolds`: for any number of clients, blocks, lengths,
  faults and limits on descriptors, as long as no `recv` is short (`short_recv`
  shows why). The invariant `Whole` has, for each place a client can be at, where
  its child can be and what is on the way between them: a client that has written
  `g` units finds the unit `g + 1` next in the stream. When the child has gone the
  stream stays, so a client never reads past what was sent; that it stops early
  only when the server went away rests on `ClosedStays`, a connection nobody
  serves is never served again, and on `Queued`, a connection is accepted once
  and after its client has sent the CID.

- `ExchangeProof!ExchangeTypeCorrect`: with any faults, short receives too. That
  needs an invariant of its own (`Typed`), for then a client may take anything for
  the answer or the number: what it counts stays within bounds because the number
  is the first message after the answer, and after a short `recv` what is left of a
  message is zeros (`Counts`), and because no number comes among the addresses
  (`Stores`).
- `ExchangeProof!PeersReceivedHolds`: without short receives. A client that has
  stored `g` addresses has the first `g` that the server lists, and finds the next
  one next in the stream (`Holds`); if the server went away the stream ends early,
  or the number it read was none, and then what it stores are its peers or the
  empty address that `recv` of a closed connection leaves.
- `HiredisProof!CutAnywhere`: for any bytes and any cut. An item is a decision
  (`Decide`) on the type of the current task, on the depth and on the bytes that
  are left, and what is done then (`Carry`). A decision other than to wait is not
  changed by bytes that come later (`DecidedStays`: the first CR LF stays the first,
  and a string that is there stays there); one to wait leaves the reader at the
  same item, its type read or not, which is as if it had not looked
  (`ItemAgrees`, `LoopAgrees`). The library's induction theorems cannot be
  instantiated here; induction over numbers is had from the pigeonhole principle
  instead (`Induction!SetInduction`), for which a claim is stated as the set of the numbers it
  holds for.
- `HiredisProof!RepliesInOrderHolds`, `NoReplyLostHolds`, `ReaderKept`: for any set
  of answers that `AnswersAssumption` allows, any commands and any number of cuts.
  The invariant `Stream` says that there are the answers so far, their bytes one
  after the other, and a number of these that was read: what is on its way is the
  rest; and the reader goes on as a new one would that is given the bytes read
  since the last reply it returned (`ReaderAt`, `Follows`), or has found the error
  of the next answer. A call that is about to write or read has no reply left to
  return, hence at the end of the file there is none. That Redis answers a command
  with the right reply is no part of it: `Serve` chooses.
- `HiredisProof!DescriptorOwnedHolds`, `ConnectReportsHolds`: the invariant `Owned`
  says for each place of a call whether there is a descriptor, and that a context
  whose `connection_type` is that of a Unix socket was asked for one, which is what
  `redisReconnect` goes by.
- `AsyncProof!AsyncForgetsNone`: for any scripts, keys and hashes. The first part of
  the module is what `dict.c` gives: `dictFind`, `dictReplace`, `dictDelete` and
  `dictExpand` in terms of the keys that have an entry and of its value, each of
  them keeping a key in the chain of its hash, once. `Control` says that each callback is
  that of a command, and that a regular one waits in a list, runs or has run; once
  `__redisAsyncFree` has begun commands are refused, so that nothing is added
  behind it, and the entries up to `it` were called.
- `AsyncProof!AsyncRepliesMatch`, `AsyncSubscriptionsAgree`, `AsyncNeverAborts`: one
  inductive invariant for the three, `Joint`, beside `Control` and the types. Neither the lists nor
  the dicts suffice by themselves, because what an entry should be depends on
  messages that are on their way. `Joint` therefore says that there is a log: for
  each message to come, what Redis had subscribed to before it (`Logged`), the last
  being what it has now, and that this is what the commands that Redis has
  served want (`Serves`). Over this log
  - an entry counts the commands that Redis has not served and the messages to come
    that subscribe to its key, and is there if it counts any or the log begins with
    it (`Balanced`), which is `SubscriptionsAgree` when nothing is to come;
  - the regular callbacks that wait are those of commands not served and of replies
    to come, and one in the list of replies is behind no message of a channel
    (`Matched`), in the order of the commands (`Ordered`), so that the first in the
    list is whose turn it is, and a reply that finds none there finds the context
    subscribed or monitoring;
  - `MONITOR` is the last command and waits alone (`Monitored`).

  When the connection is lost, the last of these messages may be too; the log still
  ends with them (`lost`), and what the entries count includes them. A Redis that is
  full sends an error and closes: the first callback gets the error, and no later
  reply has to be matched (`Full`, `Answered`). `Proper` is used for what a command
  does to the log: who unsubscribes was subscribed or is to be, several new keys
  have no entry, `MONITOR` begins alone, and a regular command is not sent between
  the last `UNSUBSCRIBE` and its answer.
- `AsyncProof!AsyncTypeOK`: from the same, with `Bounded`: the callback that runs is
  of a command, and `it` stays within the entries, for a subscription is deleted
  only outside of `__redisAsyncFree`.

Only model-checked: all liveness (`GetTerminates`, `CallReturns`,
`LookupReturns`, `ShorterRetrievable`, `FileFound`, `CallsSettle`), which the
prover does not reach; `CommandsArrive`, and with it the type of `Hiredis` (the type
of its reader is `ReaderKept`), which for arbitrary commands need the round trip of
a number through its digits and of a command through its arguments; and
`CidDecodes`, whose definitions are recursive and work on bits.

## Not modelled

- The compression of SHA-256: two contents with one hash are out of the model.
  The byte that `hash_to_string` writes behind its buffer (`file.c:60`).
- The output file as something processes share (`tnfs.c:82`); the growth of
  descriptors in `read_block`, which does not close the file it removes
  (`dag.c:163-170`).
- Failures of `malloc`, and of `bind` and `listen`; `redisCommand` returning
  `NULL`, through which `redis.c` reads (`redis.c:36`); a full backlog; a full
  disk.
- hiredis: out of memory; conversions of floating-point numbers; a format that
  ends in a flag (`hiredis.c:299`); a custom set of reply functions; in `sds.c` what
  nothing here calls (splitting, joining, trimming, comparing, mapping, quoting).
  Asynchronous: a connect callback that frees the context, after which freed
  memory is read (`async.c:524`, `536`); `UNSUBSCRIBE` without names; a connect
  still in progress when the socket is writable; what a monitoring user gets, who
  loses lines after a read that brings no whole reply (`async.c:443`, which the
  model does and no property is about); the adapters other than libevent's.
- The logger and the parsing of arguments: no state of their own.

## Plan

The most important behaviour, shared blocks and the registry under them, came
first; then what hosts tell each other, the bytes of CIDs, and the library under
the registry. What is left:

1. The output of `get` as a file that processes share (`tnfs.c:82-92`).
2. Composition: the download in `BlockStore` shown to be what `Exchange` does;
   `Hiredis` shown to give `RedisClient` its commands and replies.
3. Proofs: `CommandsArrive`, by induction over the arguments as for the items of
   a reply.
