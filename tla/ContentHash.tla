----------------------------- MODULE ContentHash ----------------------------
(***************************************************************************)
(* What the standard of SHA-256 says is compressed for the contents that   *)
(* Chunking cuts, and that Sha256 does so.                                 *)
(***************************************************************************)
EXTENDS Chunking, Sha256

Power256[k \in Nat] == IF k = 0 THEN 1 ELSE 256 * Power256[k - 1]

BigEndian(n) ==
    [i \in 1..TOTAL_LEN_LEN |-> (n \div Power256[TOTAL_LEN_LEN - i]) % 256]

\* What the standard says is compressed: the message, a bit, zeros, and the
\* length in bits, most significant byte first.
Padded(m) ==
    LET zeros == CHOOSE n \in 0..(CHUNK - 1) :
                   (Len(m) + 1 + n + TOTAL_LEN_LEN) % CHUNK = 0
    IN  m \o <<128>> \o Zeros(zeros) \o BigEndian(8 * Len(m))

InChunks(m) ==
    [i \in 1..(Len(m) \div CHUNK) |-> SubSeq(m, (i - 1) * CHUNK + 1, i * CHUNK)]

\* The hash is that of the contents, padded as the standard says, wherever
\* the calls of sha_256_write cut them (sha-256.c:137-224): at the edges of
\* a chunk, and when the length does not fit in the last one, or is of more
\* than one byte.
HashesContents ==
    pc = "add" =>
        /\ LET long == 333 * Len(file)
           IN  length_bytes(long) = BigEndian(8 * long)
        /\ \A i \in 0..Len(file) : \A j \in i..Len(file) :
             LET s1 == sha_256_write(sha_256_init, SubSeq(file, 1, i))
                 s2 == sha_256_write(s1, SubSeq(file, i + 1, j))
                 s3 == sha_256_write(s2, SubSeq(file, j + 1, Len(file)))
             IN  /\ sha_256_close(s3) = InChunks(Padded(file))
                 /\ calc_sha_256(file) = sha_256_close(s3)
=============================================================================
