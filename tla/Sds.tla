--------------------------------- MODULE Sds --------------------------------
(***************************************************************************)
(* The strings of hiredis (sds.c, sds.h): a header, whose type decides how *)
(* wide its two counts are, and the bytes.  A string is a record of its    *)
(* type, of the bytes it has allocated, and of those in use, whose number  *)
(* is the length.  Type 0 (SDS_TYPE_5) has no count of its allocation.     *)
(***************************************************************************)
EXTENDS Integers, Sequences

CONSTANTS
    Limits,           \* Limits[t]: a string of type t is shorter than this
    SDS_MAX_PREALLOC  \* up to this length a string that grows is doubled

SdsTypes == 0..4

\* sds.c:57-67 has 32, 255, 65535 and 2^32-1; no string reaches the last.
ASSUME SdsAssumption ==
    /\ Limits \in [SdsTypes -> Nat \ {0}]
    /\ \A t \in 0..3 : Limits[t] < Limits[t + 1]
    /\ SDS_MAX_PREALLOC \in Nat \ {0}
-----------------------------------------------------------------------------
sdsReqType(size) ==
    IF size < Limits[0] THEN 0
    ELSE IF size < Limits[1] THEN 1
    ELSE IF size < Limits[2] THEN 2
    ELSE IF size < Limits[3] THEN 3
    ELSE 4

\* Type 5 cannot remember empty space: a string to append to is of type 8.
AppendType(size) == IF sdsReqType(size) = 0 THEN 1 ELSE sdsReqType(size)

sdslen(s) == Len(s.buf)
sdsalloc(s) == IF s.type = 0 THEN sdslen(s) ELSE s.alloc
sdsavail(s) == sdsalloc(s) - sdslen(s)

\* The contents and their length are set; the allocation stays.
Contents(s, bytes) ==
    [s EXCEPT !.buf = bytes, !.alloc = IF s.type = 0 THEN Len(bytes) ELSE @]

sdsnewlen(bytes) ==
    [type  |-> IF bytes = <<>> THEN 1 ELSE sdsReqType(Len(bytes)),
     alloc |-> Len(bytes),
     buf   |-> bytes]

sdsempty == sdsnewlen(<<>>)
sdsdup(s) == sdsnewlen(s.buf)
sdsclear(s) == Contents(s, <<>>)

\* Mutant of sdsMakeRoomFor: the header stays, though the allocation grew.
KeepHeader(s, addlen) ==
    LET newlen == sdslen(s) + addlen
        alloc  == IF newlen < SDS_MAX_PREALLOC
                  THEN 2 * newlen ELSE newlen + SDS_MAX_PREALLOC
    IN  IF sdsavail(s) >= addlen THEN s
        ELSE [s EXCEPT !.type = IF @ = 0 THEN 1 ELSE @, !.alloc = alloc]

\* Room for so many bytes more: twice what is needed, in a header that holds it.
sdsMakeRoomFor(s, addlen) ==
    LET newlen == sdslen(s) + addlen
        alloc  == IF newlen < SDS_MAX_PREALLOC
                  THEN 2 * newlen ELSE newlen + SDS_MAX_PREALLOC
    IN  IF sdsavail(s) >= addlen THEN s
        ELSE [s EXCEPT !.type = AppendType(alloc), !.alloc = alloc]

sdsRemoveFreeSpace(s) ==
    [s EXCEPT !.type = sdsReqType(sdslen(s)), !.alloc = sdslen(s)]

sdscatlen(s, bytes) ==
    Contents(sdsMakeRoomFor(s, Len(bytes)), s.buf \o bytes)

sdscpylen(s, bytes) ==
    Contents(IF sdsalloc(s) < Len(bytes)
             THEN sdsMakeRoomFor(s, Len(bytes) - sdslen(s)) ELSE s, bytes)

sdsgrowzero(s, len) ==
    IF len <= sdslen(s) THEN s
    ELSE sdscatlen(s, [i \in 1..(len - sdslen(s)) |-> 0])

\* The bytes from start to end, both counted from 0, or from the end if
\* they are negative.
sdsrange(s, start, end) ==
    LET len  == sdslen(s)
        from(i) == IF i >= 0 THEN i ELSE IF len + i < 0 THEN 0 ELSE len + i
        last == IF from(end) >= len THEN len - 1 ELSE from(end)
    IN  IF len = 0 THEN s
        ELSE Contents(s, SubSeq(s.buf, from(start) + 1, last + 1))
-----------------------------------------------------------------------------
(* What every operation keeps: the allocation holds the contents, and the  *)
(* header counts it.                                                       *)

IsSds(s, Byte) ==
    /\ s \in [type : SdsTypes, alloc : Nat, buf : Seq(Byte)]
    /\ sdslen(s) <= sdsalloc(s)
    /\ s.type < 4 => s.alloc < Limits[s.type]
=============================================================================
