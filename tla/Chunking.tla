------------------------------ MODULE Chunking ------------------------------
(***************************************************************************)
(* How a file is cut into blocks and put together again: add_tnfs_file and *)
(* get_tnfs_file (tnfs.c), with create_chunks, create_parent and           *)
(* get_number_of_blocks (dag.c).  One process, one file; what other        *)
(* processes do to the blocks in between is the subject of BlockStore.     *)
(*                                                                         *)
(* A CID stands for the contents it was computed from, so a link is the    *)
(* chunk itself.                                                           *)
(***************************************************************************)
EXTENDS Integers, Sequences

CONSTANTS
    BLOCK_LIMIT,  \* bytes in a block
    MAX_LINKS,    \* links in a parent
    Bytes,        \* what a byte may be
    Files         \* bound: the files that are added

\* The greatest length of a file that is accepted.
MAX_FILE_LENGTH == BLOCK_LIMIT * MAX_LINKS

ASSUME ChunkingAssumption ==
    /\ BLOCK_LIMIT \in Nat \ {0}
    /\ MAX_LINKS \in Nat \ {0}
    /\ 0 \in Bytes
    /\ Files \subseteq Seq(Bytes)

VARIABLES
    file,       \* the contents of the file
    pc,         \* "add", "chunks", "get" or "done"
    data_size,  \* bytes that create_chunks has still to put into a block
    linksTab,   \* the links that create_chunks made so far
    parent,     \* the parent block: nbLinks and links
    next,       \* how many links get_tnfs_file has read
    output,     \* what it has written
    result      \* how add or get ended

vars == <<file, pc, data_size, linksTab, parent, next, output, result>>
got == <<next, output>>

NoParent == [nbLinks |-> 0, links |-> <<>>]

Init ==
    /\ file \in Files
    /\ pc = "add"
    /\ data_size = 0
    /\ linksTab = <<>>
    /\ parent = NoParent
    /\ next = 0
    /\ output = <<>>
    /\ result = "none"
-----------------------------------------------------------------------------
(* tnfs add.                                                               *)

Done(r) == pc' = "done" /\ result' = r

\* An empty file and one that is too big are refused.
AddFile ==
    /\ pc = "add"
    /\ \/ Len(file) = 0 /\ Done("empty") /\ UNCHANGED data_size
       \/ Len(file) > MAX_FILE_LENGTH /\ Done("too big") /\ UNCHANGED data_size
       \/ /\ Len(file) \in 1..MAX_FILE_LENGTH
          /\ pc' = "chunks"
          /\ data_size' = Len(file)
          /\ UNCHANGED result
    /\ UNCHANGED <<file, linksTab, parent, got>>

\* Mutant of get_number_of_blocks: rounded up, and one more.
RoundedUp(size) == ((size + BLOCK_LIMIT - 1) \div BLOCK_LIMIT) + 1

\* One more than are full, also when no byte is left for it.
get_number_of_blocks(size) == (size \div BLOCK_LIMIT) + 1

\* The bytes of chunk i (from 0), zeros to the end, and how many there are.
Chunk(i, size) ==
    [data |-> [j \in 1..BLOCK_LIMIT |->
                 IF j <= size THEN file[i * BLOCK_LIMIT + j] ELSE 0],
     size |-> size]

\* Mutant of CreateChunk: every block counts as full.
CreateFullChunk ==
    LET size  == IF data_size < BLOCK_LIMIT THEN data_size ELSE BLOCK_LIMIT
        chunk == [Chunk(Len(linksTab), size) EXCEPT !.size = BLOCK_LIMIT]
    IN  /\ pc = "chunks"
        /\ Len(linksTab) < get_number_of_blocks(Len(file))
        /\ data_size' = data_size - BLOCK_LIMIT
        /\ linksTab' = Append(linksTab, chunk)
        /\ UNCHANGED <<file, pc, parent, got, result>>

\* One turn of the loop of create_chunks.
CreateChunk ==
    LET size  == IF data_size < BLOCK_LIMIT THEN data_size ELSE BLOCK_LIMIT
        chunk == Chunk(Len(linksTab), size)
    IN  /\ pc = "chunks"
        /\ Len(linksTab) < get_number_of_blocks(Len(file))
        /\ data_size' = data_size - size
        /\ linksTab' = Append(linksTab, chunk)
        /\ UNCHANGED <<file, pc, parent, got, result>>

\* nbLinks counts all the links; only MAX_LINKS are copied.
CreateParent ==
    /\ pc = "chunks"
    /\ Len(linksTab) = get_number_of_blocks(Len(file))
    /\ parent' = [nbLinks |-> Len(linksTab),
                  links |-> IF Len(linksTab) <= MAX_LINKS THEN linksTab
                            ELSE SubSeq(linksTab, 1, MAX_LINKS)]
    /\ pc' = "get"
    /\ UNCHANGED <<file, data_size, linksTab, got, result>>
-----------------------------------------------------------------------------
(* tnfs get.                                                               *)

\* Mutant of GetChunk: the block is written with the zeros at its end.
GetWholeChunk ==
    /\ pc = "get" /\ next < parent.nbLinks /\ next < MAX_LINKS
    /\ output' = output \o parent.links[next + 1].data
    /\ next' = next + 1
    /\ UNCHANGED <<file, pc, data_size, linksTab, parent, result>>

GetChunk ==
    /\ pc = "get" /\ next < parent.nbLinks /\ next < MAX_LINKS
    /\ LET chunk == parent.links[next + 1]
       IN  output' = output \o SubSeq(chunk.data, 1, chunk.size)
    /\ next' = next + 1
    /\ UNCHANGED <<file, pc, data_size, linksTab, parent, result>>

\* Beyond the array of links are the data of the parent, which are zeros.
\* The link read there is an empty string, a block that nobody has: "Block
\* not found on the network."
LinkBeyond ==
    /\ pc = "get" /\ next < parent.nbLinks /\ next >= MAX_LINKS
    /\ Done("not found")
    /\ UNCHANGED <<file, data_size, linksTab, parent, got>>

\* "File downloaded !"
Downloaded ==
    /\ pc = "get" /\ next = parent.nbLinks
    /\ Done("downloaded")
    /\ UNCHANGED <<file, data_size, linksTab, parent, got>>

Next == \/ AddFile \/ CreateChunk \/ CreateParent
        \/ GetChunk \/ LinkBeyond \/ Downloaded
        \/ pc = "done" /\ UNCHANGED vars

Spec == Init /\ [][Next]_vars

\* The program runs to its end.
FairSpec == Spec /\ WF_vars(Next)
-----------------------------------------------------------------------------
(* Properties.                                                             *)

ChunkType == [data : [1..BLOCK_LIMIT -> Bytes], size : 0..BLOCK_LIMIT]

\* Type invariant.
TypeOK ==
    /\ file \in Files
    /\ pc \in {"add", "chunks", "get", "done"}
    /\ data_size \in Nat
    /\ linksTab \in Seq(ChunkType)
    /\ parent \in [nbLinks : Nat, links : Seq(ChunkType)]
    /\ next \in Nat
    /\ output \in Seq(Bytes)
    /\ result \in {"none", "empty", "too big", "downloaded", "not found"}

\* A file that was downloaded is the file that was added, not a byte more
\* or less (dag.c:24-44, tnfs.c:86-91).
RoundTrip ==
    /\ Len(output) <= Len(file) /\ output = SubSeq(file, 1, Len(output))
    /\ result = "downloaded" => output = file

\* What add accepts, get gives back: a file is refused only for its length
\* (tnfs.c:18-28, tnfs.h:5).
Retrievable == pc = "chunks" ~> result = "downloaded"

\* It does, for files shorter than the greatest length: they have links
\* enough for the chunk that get_number_of_blocks adds (dag.c:83-90, 122).
ShorterRetrievable ==
    pc = "chunks" /\ Len(file) < MAX_FILE_LENGTH ~> result = "downloaded"
=============================================================================
