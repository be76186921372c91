----------------------------- MODULE MCChunking -----------------------------
(* Instances of Chunking for TLC: all files of some lengths.  They are     *)
(* also what CIDs are computed from.                                       *)
EXTENDS ContentHash, Cid

CONSTANT Lengths

MCFiles == UNION {[1..n -> Bytes] : n \in Lengths}

\* Octets encoded in base 32 decode to themselves, whatever their number,
\* and so does a CID: different hashes have different CIDs, of a length
\* that the buffers hold (base-32.c:155-220, file.c:56-75).
CidDecodes ==
    pc = "add" =>
        /\ base32_decode(base32_encode(file)) = file
        /\ file # <<>> =>
             LET hash == [i \in 1..32 |-> file[((i - 1) % Len(file)) + 1]]
                 cid  == generate_cid(hash)
             IN  /\ Len(cid) + 1 = CID_LENGTH
                 /\ base32_decode(Tail(cid)) = hash_headers \o hash_to_string(hash)
=============================================================================
