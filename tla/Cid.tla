--------------------------------- MODULE Cid --------------------------------
(***************************************************************************)
(* How a CID is made of a hash: base 32 (base-32.c), and what              *)
(* generate_cid_from_file_content puts together (file.c).  A byte and a    *)
(* character are numbers.                                                  *)
(***************************************************************************)
EXTENDS Sha256, Bitwise
-----------------------------------------------------------------------------
(* Base 32.                                                                *)

PADDING_CHAR == 61
encode_char(c) == LET v == c % 32 IN IF v < 26 THEN 65 + v ELSE 50 + v - 26

\* -1 for a character that is not one of base 32, the padding included.
decode_char(c) == IF c \in 65..90 THEN c - 65 ELSE IF c \in 50..55 THEN c - 50 + 26 ELSE -1

\* Block b of five bits starts in this octet, where so many bits follow it;
\* if they are negative, as many bits of it are in the next octet.
get_octet(b) == (b * 5) \div 8
get_offset(b) == 8 - 5 - ((5 * b) % 8)

shift_right(byte, n) ==
    IF n > 0 THEN byte \div 2^n ELSE (byte * 2^(0 - n)) % 256
shift_left(byte, n) == shift_right(byte, 0 - n)

\* Mutant of encode_sequence: the second part is shifted as the first.
encode_shifted(plain) ==
    [k \in 1..8 |->
        LET octet == get_octet(k - 1)
            junk  == get_offset(k - 1)
        IN  IF octet >= Len(plain) THEN PADDING_CHAR
            ELSE encode_char(shift_right(plain[octet + 1], junk)
                   | IF junk < 0 /\ octet < Len(plain) - 1
                     THEN shift_right(plain[octet + 2], 0 - junk) ELSE 0)]

\* Up to five octets make eight characters, the last ones padding.
encode_sequence(plain) ==
    [k \in 1..8 |->
        LET octet == get_octet(k - 1)
            junk  == get_offset(k - 1)
        IN  IF octet >= Len(plain) THEN PADDING_CHAR
            ELSE encode_char(shift_right(plain[octet + 1], junk)
                   | IF junk < 0 /\ octet < Len(plain) - 1
                     THEN shift_right(plain[octet + 2], 8 + junk) ELSE 0)]

\* The sequences one after the other.
RECURSIVE base32_encode(_)
base32_encode(plain) ==
    IF plain = <<>> THEN <<>>
    ELSE encode_sequence(SubSeq(plain, 1, Minimum(Len(plain), 5)))
         \o base32_encode(From(plain, 6))

\* The octets before the first character that is not one of base 32; the
\* string ends with one.
decode_sequence(coded) ==
    LET c(b)   == decode_char((coded \o [i \in 1..8 |-> 0])[b + 1])
        bad    == {b \in 0..7 : c(b) < 0}
        stop   == IF bad = {} THEN 8 ELSE CHOOSE b \in bad : \A d \in bad : b <= d
        octets == IF stop = 8 THEN 5 ELSE get_octet(stop)
        part(b, o) ==
            IF get_octet(b) = o THEN shift_left(c(b), get_offset(b))
            ELSE IF get_octet(b) + 1 = o /\ get_offset(b) < 0
                 THEN shift_left(c(b), 8 + get_offset(b)) ELSE 0
        upto[b \in -1..7, o \in 0..5] ==
            IF b = -1 THEN 0 ELSE upto[b - 1, o] | part(b, o)
    IN  [o \in 1..octets |-> upto[stop - 1, o - 1]]

\* Up to the first sequence that is not complete.
RECURSIVE base32_decode(_)
base32_decode(coded) ==
    LET octets == decode_sequence(coded)
    IN  IF Len(octets) < 5 THEN octets
        ELSE octets \o base32_decode(From(coded, 9))
-----------------------------------------------------------------------------
(* CIDs.                                                                   *)

\* Two hexadecimal digits for each byte.
RECURSIVE hash_to_string(_)
hash_to_string(hash) ==
    LET digit(n) == IF n < 10 THEN 48 + n ELSE 97 + n - 10
    IN  IF hash = <<>> THEN <<>>
        ELSE <<digit(Head(hash) \div 16), digit(Head(hash) % 16)>>
             \o hash_to_string(Tail(hash))
hash_headers == <<48, 49, 49, 50, 50, 48>>   \* "011220"
CID_LENGTH == 113 + 1

\* The CID for a hash of 32 bytes: "b", and in base 32 the headers and the
\* hash in hexadecimal, cut at 112 characters.
generate_cid(hash) ==
    <<98>> \o SubSeq(base32_encode(hash_headers \o hash_to_string(hash)), 1, 112)
=============================================================================
