------------------------------- MODULE Sha256 -------------------------------
(***************************************************************************)
(* SHA-256 (sha-256.c), in so far as it decides which chunks are           *)
(* compressed: how bytes that come in pieces are gathered, and what is     *)
(* added after the last one.  The compression is left out: a hash is the   *)
(* sequence of the chunks that went into it.                               *)
(***************************************************************************)
EXTENDS Integers, Sequences

CONSTANTS
    CHUNK,          \* SIZE_OF_SHA_256_CHUNK
    TOTAL_LEN_LEN   \* bytes of the length at the end of the last chunk

ASSUME Sha256Assumption == TOTAL_LEN_LEN \in Nat \ {0} /\ CHUNK \in Nat /\ CHUNK > TOTAL_LEN_LEN

Minimum(x, y) == IF x < y THEN x ELSE y
From(s, i) == SubSeq(s, i, Len(s))

consume_chunk(h, p) == Append(h, p)

sha_256_init == [h |-> <<>>, chunk |-> <<>>, space_left |-> CHUNK, total_len |-> 0]

\* One turn of the loop of sha_256_write: a whole chunk is taken from the
\* data, what is less waits in the chunk of the state until that is full.
WriteTurn(st) ==
    LET s    == st.s
        n    == Minimum(Len(st.data), s.space_left)
        some == SubSeq(st.data, 1, n)
        full == s.chunk \o some
    IN  IF st.data = <<>> THEN st
        ELSE [s    |-> IF s.space_left = CHUNK /\ Len(st.data) >= CHUNK
                       THEN [s EXCEPT !.h = consume_chunk(@, some)]
                       ELSE IF s.space_left = n
                       THEN [s EXCEPT !.h = consume_chunk(@, full), !.chunk = <<>>,
                                      !.space_left = CHUNK]
                       ELSE [s EXCEPT !.chunk = full, !.space_left = @ - n],
              data |-> From(st.data, n + 1)]

\* There are no more turns than bytes.
write_data(s, data) ==
    LET after[n \in Nat] ==
            IF n = 0 THEN [s |-> s, data |-> data] ELSE WriteTurn(after[n - 1])
    IN  after[Len(data)].s

sha_256_write(s, data) ==
    write_data([s EXCEPT !.total_len = @ + Len(data)], data)

Zeros(n) == [i \in 1..n |-> 0]

\* The length in bits: the last byte is shifted by three, the others are
\* taken from the length shifted by five the other way, the last one first.
length_bytes(len) ==
    LET left[n \in Nat] == IF n = 0 THEN len \div 32 ELSE left[n - 1] \div 256
    IN  [i \in 1..TOTAL_LEN_LEN |->
            IF i = TOTAL_LEN_LEN THEN (len * 8) % 256 ELSE left[TOTAL_LEN_LEN - 1 - i] % 256]

\* Mutant of sha_256_close: no place is kept for the bit after the data.
sha_256_close_tight(s) ==
    LET more == s.space_left < TOTAL_LEN_LEN
        h    == IF more
                THEN consume_chunk(s.h, s.chunk \o <<128>> \o Zeros(s.space_left - 1))
                ELSE s.h
        used == IF more THEN <<>> ELSE s.chunk \o <<128>>
    IN  consume_chunk(h, used \o Zeros(CHUNK - Len(used) - TOTAL_LEN_LEN)
                           \o length_bytes(s.total_len))

sha_256_close(s) ==
    LET more == s.space_left - 1 < TOTAL_LEN_LEN
        h    == IF more
                THEN consume_chunk(s.h, s.chunk \o <<128>> \o Zeros(s.space_left - 1))
                ELSE s.h
        used == IF more THEN <<>> ELSE s.chunk \o <<128>>
    IN  consume_chunk(h, used \o Zeros(CHUNK - Len(used) - TOTAL_LEN_LEN)
                           \o length_bytes(s.total_len))

calc_sha_256(input) == sha_256_close(sha_256_write(sha_256_init, input))
=============================================================================
