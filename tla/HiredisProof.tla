---------------------------- MODULE HiredisProof ----------------------------
(***************************************************************************)
(* Theorems about hiredis.  The first part is about strings and the parser *)
(* of replies: whatever the bytes, and however they are cut, a reader      *)
(* stays as its functions expect it to be, and ends as it would if it were *)
(* given all of them at once.  An item depends on the type of the current  *)
(* task and on the bytes that are left only (Decide), and takes some of    *)
(* them if it is complete; bytes that come later change neither that nor   *)
(* what it is (DecidedStays).                                              *)
(*                                                                         *)
(* The second part is about a connection, whatever the commands, the       *)
(* answers of Redis and the bounds.                                        *)
(***************************************************************************)
EXTENDS Hiredis, Induction, FiniteSetTheorems, SequenceTheorems, TLAPS
-----------------------------------------------------------------------------
(* Least and greatest numbers.                                             *)

\* A set of numbers that is not empty has a least one, which Min chooses.
LEMMA MinIsLeast ==
    ASSUME NEW S \in SUBSET Nat, S # {}
    PROVE  Min(S) \in S /\ \A x \in S : Min(S) <= x
<1> DEFINE N == {n \in Nat : \A k \in 0..n : k \notin S}
<1>1. \E m \in S : \A x \in S : m <= x
  <2> SUFFICES ASSUME ~\E m \in S : \A x \in S : m <= x
               PROVE  FALSE
    OBVIOUS
  <2>1. 0 \in N
    OBVIOUS
  <2>2. ASSUME NEW n \in Nat, n \in N
        PROVE  n + 1 \in N
    <3>1. n + 1 \notin S
      BY <2>2
    <3>2. \A k \in 0..(n + 1) : k \in 0..n \/ k = n + 1
      OBVIOUS
    <3>3. QED
      BY <2>2, <3>1, <3>2
  <2>3. \A n \in Nat : n \in N
    <3> HIDE DEF N
    <3>1. QED
      BY <2>1, <2>2, SetInduction
  <2>4. \A n \in Nat : n \notin S
    BY <2>3
  <2>5. QED
    BY <2>4
<1>2. QED
  BY <1>1 DEF Min

\* A set of numbers below a bound that is not empty has a greatest one.
LEMMA MaxIsGreatest ==
    ASSUME NEW S \in SUBSET Nat, S # {}, NEW b \in Nat, \A x \in S : x <= b
    PROVE  Max(S) \in S /\ \A x \in S : Max(S) >= x
<1> DEFINE D == {b - x : x \in S}
<1>1. D \in SUBSET Nat /\ D # {}
  <2>1. ASSUME NEW x \in S
        PROVE  b - x \in Nat
    OBVIOUS
  <2>2. QED
    BY <2>1
<1>2. Min(D) \in D /\ \A d \in D : Min(D) <= d
  <2> HIDE DEF D
  <2>1. QED
    BY <1>1, MinIsLeast
<1>3. PICK m \in S : Min(D) = b - m
  BY <1>2
<1>4. \A x \in S : m >= x
  <2>1. ASSUME NEW x \in S
        PROVE  m >= x
    <3>1. b - x \in D
      OBVIOUS
    <3>2. b - m <= b - x
      BY <1>2, <1>3, <3>1
    <3>3. QED
      BY <3>2
  <2>2. QED
    BY <2>1
<1>5. QED
  BY <1>4 DEF Max
-----------------------------------------------------------------------------
(* Strings.                                                                *)

\* What the operations of sds keep: IsSds, and a string of type 0 has no
\* room that is not used.
Sound(s, Bytes) == IsSds(s, Bytes) /\ (s.type = 0 => s.alloc = Len(s.buf))

LEMMA LimitsGrow ==
    /\ \A t \in 0..4 : Limits[t] \in Nat \ {0}
    /\ Limits[0] < Limits[1] /\ Limits[1] < Limits[2]
    /\ Limits[2] < Limits[3] /\ Limits[3] < Limits[4]
<1>1. Limits \in [0..4 -> Nat \ {0}] /\ \A t \in 0..3 : Limits[t] < Limits[t + 1]
  BY SdsAssumption DEF SdsTypes
<1>2. 0 \in 0..3 /\ 1 \in 0..3 /\ 2 \in 0..3 /\ 3 \in 0..3
  OBVIOUS
<1>3. Limits[0] < Limits[0 + 1] /\ Limits[1] < Limits[1 + 1]
      /\ Limits[2] < Limits[2 + 1] /\ Limits[3] < Limits[3 + 1]
  BY <1>1, <1>2
<1>4. QED
  BY <1>1, <1>3

\* The type that a size requires counts it.
LEMMA ReqType ==
    ASSUME NEW n \in Nat
    PROVE  /\ sdsReqType(n) \in SdsTypes
           /\ sdsReqType(n) < 4 => n < Limits[sdsReqType(n)]
           /\ AppendType(n) \in SdsTypes \ {0}
           /\ AppendType(n) < 4 => n < Limits[AppendType(n)]
<1>1. /\ sdsReqType(n) \in SdsTypes
      /\ sdsReqType(n) < 4 => n < Limits[sdsReqType(n)]
  BY LimitsGrow DEF sdsReqType, SdsTypes
<1>2. AppendType(n) \in SdsTypes \ {0}
  BY <1>1 DEF AppendType, SdsTypes
<1>3. ASSUME AppendType(n) < 4
      PROVE  n < Limits[AppendType(n)]
  <2>1. CASE sdsReqType(n) = 0
    <3>1. n < Limits[0] /\ AppendType(n) = 1
      BY <1>1, <2>1 DEF AppendType
    <3>2. QED
      BY <3>1, LimitsGrow
  <2>2. CASE sdsReqType(n) # 0
    BY <1>1, <1>3, <2>2 DEF AppendType
  <2>3. QED
    BY <2>1, <2>2
<1>4. QED
  BY <1>1, <1>2, <1>3

LEMMA NewIsSound ==
    ASSUME NEW Bytes, NEW bytes \in Seq(Bytes)
    PROVE  Sound(sdsnewlen(bytes), Bytes) /\ sdsnewlen(bytes).buf = bytes
<1> DEFINE s == sdsnewlen(bytes)
<1>1. Len(bytes) \in Nat /\ (bytes = <<>> => Len(bytes) = 0)
  OBVIOUS
<1>2. /\ s = [type |-> s.type, alloc |-> Len(bytes), buf |-> bytes]
      /\ s.alloc = Len(bytes) /\ s.buf = bytes
      /\ s.type = IF bytes = <<>> THEN 1 ELSE sdsReqType(Len(bytes))
  BY DEF sdsnewlen
<1>3. s.type \in SdsTypes /\ (s.type < 4 => Len(bytes) < Limits[s.type])
  BY <1>1, <1>2, ReqType, LimitsGrow DEF SdsTypes
<1> HIDE DEF s
<1>4. s \in [type : SdsTypes, alloc : Nat, buf : Seq(Bytes)]
  BY <1>1, <1>2, <1>3
<1>5. sdslen(s) <= sdsalloc(s)
  BY <1>1, <1>2 DEF sdslen, sdsalloc
<1>6. QED
  BY <1>2, <1>3, <1>4, <1>5 DEF Sound, IsSds, s

\* There is room for what sdsMakeRoomFor is asked for.
LEMMA RoomIsMade ==
    ASSUME NEW Bytes, NEW s, Sound(s, Bytes), NEW n \in Nat
    PROVE  /\ Sound(sdsMakeRoomFor(s, n), Bytes)
           /\ sdsMakeRoomFor(s, n).buf = s.buf
           /\ Len(s.buf) + n <= sdsalloc(sdsMakeRoomFor(s, n))
           /\ sdsMakeRoomFor(s, n).type = 0 => n = 0
<1> DEFINE len == Len(s.buf)
           newlen == len + n
           alloc == IF newlen < SDS_MAX_PREALLOC THEN 2 * newlen
                    ELSE newlen + SDS_MAX_PREALLOC
           t == sdsMakeRoomFor(s, n)
<1>1. /\ s.type \in SdsTypes /\ s.alloc \in Nat /\ s.buf \in Seq(Bytes)
      /\ s = [type |-> s.type, alloc |-> s.alloc, buf |-> s.buf]
      /\ s \in [type : SdsTypes, alloc : Nat, buf : Seq(Bytes)]
  BY DEF Sound, IsSds
<1>2. len \in Nat
  BY <1>1
<1>3. sdsalloc(s) \in Nat /\ len <= sdsalloc(s) /\ sdslen(s) = len
  BY <1>1, <1>2 DEF Sound, IsSds, sdsalloc, sdslen
<1>4. CASE sdsavail(s) >= n
  <2>1. t = s
    BY <1>4 DEF sdsMakeRoomFor
  <2>2. len + n <= sdsalloc(s)
    BY <1>2, <1>3, <1>4 DEF sdsavail
  <2>3. s.type = 0 => n = 0
    BY <1>2, <1>3, <2>2 DEF sdsalloc
  <2>4. QED
    BY <2>1, <2>2, <2>3
<1>5. CASE ~(sdsavail(s) >= n)
  <2>1. t = [s EXCEPT !.type = AppendType(alloc), !.alloc = alloc]
    BY <1>3, <1>5 DEF sdsMakeRoomFor, sdslen
  <2>2. alloc \in Nat /\ newlen \in Nat /\ newlen <= alloc
    BY <1>2, SdsAssumption
  <2>3. /\ AppendType(alloc) \in SdsTypes \ {0}
        /\ AppendType(alloc) < 4 => alloc < Limits[AppendType(alloc)]
    <3> HIDE DEF alloc
    <3>1. QED
      BY <2>2, ReqType
  <2> HIDE DEF alloc, newlen
  <2>4. t = [type |-> AppendType(alloc), alloc |-> alloc, buf |-> s.buf]
    BY <1>1, <2>1
  <2> HIDE DEF t, len
  <2>5. t.type = AppendType(alloc) /\ t.alloc = alloc /\ t.buf = s.buf
    BY <2>4
  <2>6. t \in [type : SdsTypes, alloc : Nat, buf : Seq(Bytes)]
    BY <1>1, <2>2, <2>3, <2>4
  <2>7. t.type # 0 /\ sdsalloc(t) = alloc
    BY <2>3, <2>5 DEF sdsalloc
  <2>8. newlen = len + n /\ len = Len(s.buf)
    BY DEF newlen, len
  <2>9. sdslen(t) = len
    BY <2>5, <2>8 DEF sdslen
  <2>10. len <= alloc /\ len + n <= alloc
    BY <1>2, <2>2, <2>8
  <2>11. IsSds(t, Bytes)
    BY <2>3, <2>5, <2>6, <2>7, <2>9, <2>10 DEF IsSds
  <2>12. QED
    BY <2>5, <2>7, <2>8, <2>10, <2>11 DEF Sound, t
<1>6. QED
  BY <1>4, <1>5

\* New contents for which there is room.
LEMMA ContentsSound ==
    ASSUME NEW Bytes, NEW s, Sound(s, Bytes), NEW bytes \in Seq(Bytes),
           Len(bytes) <= sdsalloc(s)
    PROVE  Sound(Contents(s, bytes), Bytes) /\ Contents(s, bytes).buf = bytes
<1> DEFINE t == Contents(s, bytes)
<1>1. /\ s.type \in SdsTypes /\ s.alloc \in Nat /\ s.buf \in Seq(Bytes)
      /\ s = [type |-> s.type, alloc |-> s.alloc, buf |-> s.buf]
      /\ s.type < 4 => s.alloc < Limits[s.type]
      /\ s.type = 0 => s.alloc = Len(s.buf)
  BY DEF Sound, IsSds
<1>2. Len(bytes) \in Nat /\ Len(s.buf) \in Nat
  BY <1>1
<1>3. t = [type |-> s.type, alloc |-> IF s.type = 0 THEN Len(bytes) ELSE s.alloc,
           buf |-> bytes]
  <2> DEFINE alloc == IF s.type = 0 THEN Len(bytes) ELSE s.alloc
  <2>1. s \in [type : SdsTypes, alloc : Nat, buf : Seq(Bytes)]
    BY DEF Sound, IsSds
  <2>2. t = [s EXCEPT !.buf = bytes, !.alloc = alloc]
    BY DEF Contents
  <2> HIDE DEF alloc, t
  <2>3. t = [type |-> s.type, alloc |-> alloc, buf |-> bytes]
    BY <2>1, <2>2
  <2>4. QED
    BY <2>3 DEF alloc
<1> HIDE DEF t
<1>4. /\ t.type = s.type /\ t.buf = bytes
      /\ t.alloc = IF s.type = 0 THEN Len(bytes) ELSE s.alloc
  BY <1>3
<1>5. CASE s.type = 0
  <2>1. Len(bytes) <= Len(s.buf) /\ s.alloc < Limits[0] /\ s.alloc = Len(s.buf)
    BY <1>1, <1>5 DEF sdsalloc, sdslen
  <2>2. Limits[0] \in Nat
    BY LimitsGrow
  <2>3. Len(bytes) < Limits[0]
    BY <1>1, <1>2, <2>1, <2>2
  <2>4. sdslen(t) = Len(bytes) /\ sdsalloc(t) = Len(bytes)
    BY <1>4, <1>5 DEF sdslen, sdsalloc
  <2>5. t \in [type : SdsTypes, alloc : Nat, buf : Seq(Bytes)]
    BY <1>1, <1>2, <1>3, <1>5
  <2>6. QED
    BY <1>2, <1>4, <1>5, <2>3, <2>4, <2>5 DEF Sound, IsSds, t
<1>6. CASE s.type # 0
  <2>1. sdslen(t) = Len(bytes) /\ sdsalloc(t) = s.alloc /\ sdsalloc(s) = s.alloc
    BY <1>4, <1>6 DEF sdslen, sdsalloc
  <2>2. t \in [type : SdsTypes, alloc : Nat, buf : Seq(Bytes)]
    BY <1>1, <1>2, <1>3, <1>6
  <2>3. QED
    BY <1>1, <1>2, <1>4, <1>6, <2>1, <2>2 DEF Sound, IsSds, t
<1>7. QED
  BY <1>5, <1>6

LEMMA CatIsSound ==
    ASSUME NEW Bytes, NEW s, Sound(s, Bytes), NEW bytes \in Seq(Bytes)
    PROVE  Sound(sdscatlen(s, bytes), Bytes) /\ sdscatlen(s, bytes).buf = s.buf \o bytes
<1> DEFINE t == sdsMakeRoomFor(s, Len(bytes))
<1>1. Len(bytes) \in Nat /\ s.buf \in Seq(Bytes)
  BY DEF Sound, IsSds
<1>2. Sound(t, Bytes) /\ Len(s.buf) + Len(bytes) <= sdsalloc(t)
  BY <1>1, RoomIsMade
<1>3. s.buf \o bytes \in Seq(Bytes) /\ Len(s.buf \o bytes) = Len(s.buf) + Len(bytes)
  BY <1>1
<1> HIDE DEF t
<1>4. Sound(Contents(t, s.buf \o bytes), Bytes)
      /\ Contents(t, s.buf \o bytes).buf = s.buf \o bytes
  BY <1>2, <1>3, ContentsSound
<1>5. QED
  BY <1>4 DEF sdscatlen, t

\* The bytes from some place on.
LEMMA RangeIsSound ==
    ASSUME NEW Bytes, NEW s, Sound(s, Bytes), NEW n \in 0..Len(s.buf)
    PROVE  /\ Sound(sdsrange(s, n, -1), Bytes)
           /\ sdsrange(s, n, -1).buf = SubSeq(s.buf, n + 1, Len(s.buf))
<1>1. s.buf \in Seq(Bytes) /\ Len(s.buf) \in Nat /\ Len(s.buf) <= sdsalloc(s)
      /\ sdsalloc(s) \in Nat
  <2>1. s.buf \in Seq(Bytes) /\ s.alloc \in Nat
    BY DEF Sound, IsSds
  <2>2. QED
    BY <2>1 DEF Sound, IsSds, sdslen, sdsalloc
<1>2. CASE Len(s.buf) = 0
  <2>1. sdsrange(s, n, -1) = s
    BY <1>2 DEF sdsrange, sdslen
  <2>2. SubSeq(s.buf, n + 1, Len(s.buf)) = <<>> /\ s.buf = <<>>
    BY <1>1, <1>2
  <2>3. QED
    BY <2>1, <2>2
<1>3. CASE Len(s.buf) # 0
  <2> DEFINE bytes == SubSeq(s.buf, n + 1, Len(s.buf))
  <2>1. sdsrange(s, n, -1) = Contents(s, bytes)
    BY <1>1, <1>3 DEF sdsrange, sdslen
  <2>2. bytes \in Seq(Bytes) /\ Len(bytes) <= Len(s.buf) /\ Len(bytes) \in Nat
    BY <1>1
  <2> HIDE DEF bytes
  <2>3. Len(bytes) <= sdsalloc(s)
    BY <1>1, <2>2
  <2>4. Sound(Contents(s, bytes), Bytes) /\ Contents(s, bytes).buf = bytes
    BY <2>2, <2>3, ContentsSound
  <2>5. QED
    BY <2>1, <2>4 DEF bytes
<1>4. QED
  BY <1>2, <1>3
-----------------------------------------------------------------------------
(* Readers.                                                                *)

Types == {"none"} \cup {TypeOfByte[b] : b \in DOMAIN TypeOfByte}
Task == [type : Types, elements : Int, idx : Int]

Fields(r) ==
    r \in [err : BOOLEAN, buf : {r.buf}, pos : Nat, len : Nat, stack : Seq(Task),
           reply : {r.reply}]

\* The stack of a reply that has begun: each task is that of an element of
\* the array below it.
Nested(stack) ==
    /\ stack \in Seq(Task) /\ Len(stack) <= STACK
    /\ \A d \in 2..Len(stack) :
         /\ stack[d - 1].type = "ARRAY"
         /\ stack[d].idx \in 0..(stack[d - 1].elements - 1)

\* What the functions of the reader keep.
Good(r, Bytes) ==
    /\ Fields(r)
    /\ Sound(r.buf, Bytes)
    /\ r.len = Len(r.buf.buf)
    /\ r.pos <= r.len
    /\ Nested(r.stack)

LEMMA TypesAre == Types = {"none", "ERROR", "STATUS", "INTEGER", "STRING", "ARRAY"}
<1>1. /\ DOMAIN TypeOfByte = {"-", "+", ":", "$", "*"}
      /\ TypeOfByte["-"] = "ERROR" /\ TypeOfByte["+"] = "STATUS"
      /\ TypeOfByte[":"] = "INTEGER" /\ TypeOfByte["$"] = "STRING"
      /\ TypeOfByte["*"] = "ARRAY"
  BY DEF TypeOfByte
<1>2. QED
  BY <1>1 DEF Types

LEMMA UntypedIsTask == Untyped \in Task
  BY DEF Untyped, Task, Types

LEMMA SetPos ==
    ASSUME NEW r, Fields(r), NEW p \in Nat
    PROVE  LET t == [r EXCEPT !.pos = p] IN
           /\ Fields(t)
           /\ t.err = r.err /\ t.buf = r.buf /\ t.pos = p /\ t.len = r.len
           /\ t.stack = r.stack /\ t.reply = r.reply
<1> DEFINE t == [r EXCEPT !.pos = p]
<1>1. t = [err |-> r.err, buf |-> r.buf, pos |-> p, len |-> r.len,
           stack |-> r.stack, reply |-> r.reply]
  BY DEF Fields
<1>2. r.err \in BOOLEAN /\ r.len \in Nat /\ r.stack \in Seq(Task)
  BY DEF Fields
<1> HIDE DEF t
<1>3. QED
  BY <1>1, <1>2 DEF Fields, t

LEMMA SetStack ==
    ASSUME NEW r, Fields(r), NEW s \in Seq(Task)
    PROVE  LET t == [r EXCEPT !.stack = s] IN
           /\ Fields(t)
           /\ t.err = r.err /\ t.buf = r.buf /\ t.pos = r.pos /\ t.len = r.len
           /\ t.stack = s /\ t.reply = r.reply
<1> DEFINE t == [r EXCEPT !.stack = s]
<1>1. t = [err |-> r.err, buf |-> r.buf, pos |-> r.pos, len |-> r.len,
           stack |-> s, reply |-> r.reply]
  BY DEF Fields
<1>2. r.err \in BOOLEAN /\ r.len \in Nat /\ r.pos \in Nat
  BY DEF Fields
<1> HIDE DEF t
<1>3. QED
  BY <1>1, <1>2 DEF Fields, t

LEMMA SetReply ==
    ASSUME NEW r, Fields(r), NEW v
    PROVE  LET t == [r EXCEPT !.reply = v] IN
           /\ Fields(t)
           /\ t.err = r.err /\ t.buf = r.buf /\ t.pos = r.pos /\ t.len = r.len
           /\ t.stack = r.stack /\ t.reply = v
<1> DEFINE t == [r EXCEPT !.reply = v]
<1>1. t = [err |-> r.err, buf |-> r.buf, pos |-> r.pos, len |-> r.len,
           stack |-> r.stack, reply |-> v]
  BY DEF Fields
<1>2. r.err \in BOOLEAN /\ r.len \in Nat /\ r.pos \in Nat /\ r.stack \in Seq(Task)
  BY DEF Fields
<1> HIDE DEF t
<1>3. QED
  BY <1>1, <1>2 DEF Fields, t

LEMMA SetErr ==
    ASSUME NEW r, Fields(r), NEW e \in BOOLEAN
    PROVE  LET t == [r EXCEPT !.err = e] IN
           /\ Fields(t)
           /\ t.err = e /\ t.buf = r.buf /\ t.pos = r.pos /\ t.len = r.len
           /\ t.stack = r.stack /\ t.reply = r.reply
<1> DEFINE t == [r EXCEPT !.err = e]
<1>1. t = [err |-> e, buf |-> r.buf, pos |-> r.pos, len |-> r.len,
           stack |-> r.stack, reply |-> r.reply]
  BY DEF Fields
<1>2. r.pos \in Nat /\ r.len \in Nat /\ r.stack \in Seq(Task)
  BY DEF Fields
<1> HIDE DEF t
<1>3. QED
  BY <1>1, <1>2 DEF Fields, t

\* A reader that is new.
LEMMA NewIsGood ==
    ASSUME NEW Bytes
    PROVE  LET c == redisReaderCreate IN
           /\ Good(c, Bytes) /\ c.err = FALSE /\ c.stack = <<>> /\ c.reply = NoReply
           /\ c.len = 0 /\ c.pos = 0 /\ Rest(c) = <<>>
<1> DEFINE c == redisReaderCreate
<1>1. c = [err |-> FALSE, buf |-> sdsempty, pos |-> 0, len |-> 0,
           stack |-> <<>>, reply |-> NoReply]
  BY DEF redisReaderCreate
<1>2. Sound(sdsempty, Bytes) /\ sdsempty.buf = <<>>
  <2>1. <<>> \in Seq(Bytes)
    OBVIOUS
  <2>2. QED
    BY <2>1, NewIsSound DEF sdsempty
<1>3. Nested(<<>>)
  BY ReaderAssumption DEF Nested
<1> HIDE DEF c
<1>4. Good(c, Bytes)
  BY <1>1, <1>2, <1>3 DEF Good, Fields
<1>5. Rest(c) = <<>>
  <2>1. Rest(c) = SubSeq(<<>>, 1, 0)
    BY <1>1, <1>2 DEF Rest
  <2>2. QED
    BY <2>1
<1>6. QED
  BY <1>1, <1>4, <1>5 DEF c

\* One that has failed.
LEMMA FailIsGood ==
    ASSUME NEW Bytes, NEW r
    PROVE  LET f == Fail(r) IN
           /\ Good(f.r, Bytes) /\ f.r.err = TRUE /\ f.ok = FALSE
           /\ f.r.stack = <<>> /\ f.r.reply = NoReply /\ f.r.len = 0
<1> DEFINE c == redisReaderCreate
           t == [c EXCEPT !.err = TRUE]
<1>1. Good(c, Bytes) /\ c.stack = <<>> /\ c.reply = NoReply /\ c.len = 0
  BY NewIsGood
<1>2. Fail(r) = [ok |-> FALSE, r |-> t]
  BY DEF Fail, Stop
<1> HIDE DEF c
<1>3. /\ Fields(t)
      /\ t.err = TRUE /\ t.buf = c.buf /\ t.pos = c.pos /\ t.len = c.len
      /\ t.stack = c.stack /\ t.reply = c.reply
  BY <1>1, SetErr DEF Good
<1> HIDE DEF t
<1>4. Good(t, Bytes)
  BY <1>1, <1>3 DEF Good
<1>5. QED
  BY <1>1, <1>2, <1>3, <1>4

\* The bytes that are left, and those left after some more of them.
LEMMA RestIs ==
    ASSUME NEW Bytes, NEW r, Good(r, Bytes)
    PROVE  /\ Rest(r) \in Seq(Bytes) /\ Len(Rest(r)) \in Nat
           /\ Len(Rest(r)) = r.len - r.pos
           /\ r.len \in Nat /\ r.pos \in Nat /\ r.pos <= r.len
           /\ r.stack \in Seq(Task) /\ Len(r.stack) \in Nat
<1>1. r.buf.buf \in Seq(Bytes)
  BY DEF Good, Sound, IsSds
<1>2. r.len \in Nat /\ r.pos \in Nat /\ r.pos <= r.len /\ r.len = Len(r.buf.buf)
      /\ r.stack \in Seq(Task)
  BY DEF Good, Fields
<1>3. /\ SubSeq(r.buf.buf, r.pos + 1, r.len) \in Seq(Bytes)
      /\ Len(SubSeq(r.buf.buf, r.pos + 1, r.len)) = r.len - r.pos
  BY <1>1, <1>2, SMTT(20)
<1>4. QED
  BY <1>2, <1>3 DEF Rest

Past(r, m) == [r EXCEPT !.pos = @ + m]

LEMMA PastIsGood ==
    ASSUME NEW Bytes, NEW r, Good(r, Bytes), NEW m \in 0..Len(Rest(r))
    PROVE  /\ Good(Past(r, m), Bytes)
           /\ Rest(Past(r, m)) = SubSeq(Rest(r), m + 1, Len(Rest(r)))
           /\ Past(r, m).err = r.err /\ Past(r, m).stack = r.stack
           /\ Past(r, m).reply = r.reply /\ Past(r, m).pos = r.pos + m
           /\ Past(r, m).len = r.len /\ Past(r, m).buf = r.buf
<1> DEFINE t == Past(r, m)
<1>1. /\ Rest(r) \in Seq(Bytes) /\ Len(Rest(r)) \in Nat
      /\ Len(Rest(r)) = r.len - r.pos
      /\ r.len \in Nat /\ r.pos \in Nat /\ r.pos <= r.len
  BY RestIs
<1>2. r.pos + m \in Nat /\ r.pos + m <= r.len /\ m \in Nat
  BY <1>1
<1>3. Fields(r)
  BY DEF Good
<1>4. /\ Fields(t)
      /\ t.err = r.err /\ t.buf = r.buf /\ t.pos = r.pos + m /\ t.len = r.len
      /\ t.stack = r.stack /\ t.reply = r.reply
  BY <1>2, <1>3, SetPos DEF Past
<1> HIDE DEF t
<1>5. Good(t, Bytes)
  BY <1>2, <1>4 DEF Good
<1>6. Rest(t) = SubSeq(Rest(r), m + 1, Len(Rest(r)))
  <2>1. r.buf.buf \in Seq(Bytes) /\ r.len = Len(r.buf.buf)
    BY DEF Good, Sound, IsSds
  <2> DEFINE s == r.buf.buf
             p == r.pos
             n == r.len
  <2>2. s \in Seq(Bytes) /\ p \in Nat /\ n \in Nat /\ n = Len(s) /\ p + m <= n
    BY <1>1, <1>2, <2>1
  <2>3. Rest(t) = SubSeq(s, p + m + 1, n) /\ Rest(r) = SubSeq(s, p + 1, n)
    BY <1>4 DEF Rest
  <2>4. Len(Rest(r)) = n - p
    BY <1>1
  <2> HIDE DEF s, p, n
  <2>5. SubSeq(s, p + m + 1, n) = SubSeq(SubSeq(s, p + 1, n), m + 1, n - p)
    BY <1>2, <2>2
  <2>6. QED
    BY <2>3, <2>4, <2>5
<1>7. QED
  BY <1>4, <1>5, <1>6 DEF t

\* Creating an object leaves all but the reply.
LEMMA CreateIsGood ==
    ASSUME NEW Bytes, NEW r, Good(r, Bytes), NEW obj
    PROVE  LET t == Create(r, obj) IN
           /\ Good(t, Bytes) /\ Rest(t) = Rest(r)
           /\ t.err = r.err /\ t.buf = r.buf /\ t.pos = r.pos /\ t.len = r.len
           /\ t.stack = r.stack
<1> DEFINE t == Create(r, obj)
<1>1. \E v : t = [r EXCEPT !.reply = v]
  BY DEF Create
<1>2. PICK v : t = [r EXCEPT !.reply = v]
  BY <1>1
<1>3. Fields(r)
  BY DEF Good
<1> HIDE DEF t
<1>4. /\ Fields(t)
      /\ t.err = r.err /\ t.buf = r.buf /\ t.pos = r.pos /\ t.len = r.len
      /\ t.stack = r.stack
  BY <1>2, <1>3, SetReply
<1>5. Good(t, Bytes) /\ Rest(t) = Rest(r)
  BY <1>4 DEF Good, Rest
<1>6. QED
  BY <1>4, <1>5 DEF t

LEMMA NestedPart ==
    ASSUME NEW s, Nested(s), NEW n \in 0..Len(s)
    PROVE  /\ Nested(SubSeq(s, 1, n)) /\ Len(SubSeq(s, 1, n)) = n
           /\ \A d \in 1..n : SubSeq(s, 1, n)[d] = s[d]
<1> DEFINE t == SubSeq(s, 1, n)
<1>1. s \in Seq(Task) /\ Len(s) \in Nat /\ Len(s) <= STACK /\ STACK \in Nat
  BY ReaderAssumption DEF Nested
<1>2. t \in Seq(Task) /\ Len(t) = n /\ \A d \in 1..n : t[d] = s[d]
  BY <1>1
<1> HIDE DEF t
<1>3. Len(t) <= STACK
  BY <1>1, <1>2
<1>4. ASSUME NEW d \in 2..Len(t)
      PROVE  t[d - 1].type = "ARRAY" /\ t[d].idx \in 0..(t[d - 1].elements - 1)
  <2>1. d \in 1..n /\ d - 1 \in 1..n /\ d \in 2..Len(s)
    BY <1>1, <1>2
  <2>2. t[d] = s[d] /\ t[d - 1] = s[d - 1]
    BY <1>2, <2>1
  <2>3. QED
    BY <2>1, <2>2 DEF Nested
<1>5. QED
  BY <1>2, <1>3, <1>4 DEF Nested, t

LEMMA NestedAppend ==
    ASSUME NEW s, Nested(s), NEW t \in Task, Len(s) < STACK,
           s # <<>> => /\ s[Len(s)].type = "ARRAY"
                       /\ t.idx \in 0..(s[Len(s)].elements - 1)
    PROVE  Nested(Append(s, t))
<1> DEFINE u == Append(s, t)
<1>1. s \in Seq(Task) /\ Len(s) \in Nat /\ STACK \in Nat
  BY ReaderAssumption DEF Nested
<1>2. /\ u \in Seq(Task) /\ Len(u) = Len(s) + 1 /\ u[Len(s) + 1] = t
      /\ \A d \in 1..Len(s) : u[d] = s[d]
  BY <1>1
<1> HIDE DEF u
<1>3. Len(u) <= STACK
  BY <1>1, <1>2
<1>4. ASSUME NEW d \in 2..Len(u)
      PROVE  u[d - 1].type = "ARRAY" /\ u[d].idx \in 0..(u[d - 1].elements - 1)
  <2>1. d - 1 \in 1..Len(s) /\ u[d - 1] = s[d - 1]
    BY <1>1, <1>2
  <2>2. CASE d \in 2..Len(s)
    <3>1. u[d] = s[d]
      BY <1>1, <1>2, <2>2
    <3>2. QED
      BY <2>1, <2>2, <3>1 DEF Nested
  <2>3. CASE d = Len(s) + 1
    <3>1. d - 1 = Len(s) /\ u[d] = t /\ s # <<>>
      BY <1>1, <1>2, <2>1, <2>3
    <3>2. QED
      BY <2>1, <3>1
  <2>4. d \in 2..Len(s) \/ d = Len(s) + 1
    BY <1>1, <1>2
  <2>5. QED
    BY <2>2, <2>3, <2>4
<1>5. QED
  BY <1>2, <1>3, <1>4 DEF Nested, u

LEMMA NextIsGood ==
    ASSUME NEW Bytes, NEW r, Good(r, Bytes)
    PROVE  LET t == moveToNextTask(r) IN
           /\ Good(t, Bytes) /\ Rest(t) = Rest(r)
           /\ t.err = r.err /\ t.buf = r.buf /\ t.pos = r.pos /\ t.len = r.len
           /\ t.reply = r.reply
<1> DEFINE more == {d \in 2..Len(r.stack) :
                      r.stack[d].idx # r.stack[d - 1].elements - 1}
           m == Max(more)
           t == moveToNextTask(r)
           new == [Untyped EXCEPT !.idx = r.stack[m].idx + 1]
           stack == Append(SubSeq(r.stack, 1, m - 1), new)
<1>1. Fields(r) /\ r.stack \in Seq(Task) /\ Len(r.stack) \in Nat /\ Nested(r.stack)
      /\ Len(r.stack) <= STACK /\ STACK \in Nat
  BY ReaderAssumption DEF Good, Fields, Nested
<1>2. ASSUME NEW s, Nested(s), t = [r EXCEPT !.stack = s]
      PROVE  /\ Good(t, Bytes) /\ Rest(t) = Rest(r)
             /\ t.err = r.err /\ t.buf = r.buf /\ t.pos = r.pos /\ t.len = r.len
             /\ t.reply = r.reply
  <2> HIDE DEF t
  <2>1. s \in Seq(Task)
    BY <1>2 DEF Nested
  <2>2. /\ Fields(t)
        /\ t.err = r.err /\ t.buf = r.buf /\ t.pos = r.pos /\ t.len = r.len
        /\ t.stack = s /\ t.reply = r.reply
    BY <1>1, <1>2, <2>1, SetStack
  <2>3. QED
    BY <1>2, <2>2 DEF Good, Rest
<1>3. CASE more = {}
  <2>1. t = [r EXCEPT !.stack = <<>>]
    BY <1>3 DEF moveToNextTask
  <2>2. Nested(<<>>)
    BY ReaderAssumption DEF Nested
  <2>3. QED
    BY <1>2, <2>1, <2>2
<1>4. CASE more # {}
  <2>1. more \in SUBSET Nat /\ \A d \in more : d <= Len(r.stack)
    BY <1>1
  <2>2. m \in more
    <3> HIDE DEF more
    <3>1. QED
      BY <1>1, <1>4, <2>1, MaxIsGreatest
  <2>3. /\ m \in 2..Len(r.stack) /\ m - 1 \in 0..Len(r.stack) /\ m - 1 \in 1..(m - 1)
        /\ r.stack[m].idx # r.stack[m - 1].elements - 1
    BY <1>1, <2>2, SMTT(20)
  <2>4. t = [r EXCEPT !.stack = stack]
    BY <1>4 DEF moveToNextTask
  <2> HIDE DEF m, more, t
  <2>5. /\ r.stack[m - 1].type = "ARRAY"
        /\ r.stack[m].idx \in 0..(r.stack[m - 1].elements - 1)
    BY <1>1, <2>3 DEF Nested
  <2>6. r.stack[m - 1] \in Task /\ r.stack[m - 1].elements \in Int
    <3>1. r.stack[m - 1] \in Task
      BY <1>1, <2>3
    <3>2. QED
      BY <3>1 DEF Task
  <2>7. r.stack[m].idx + 1 \in 0..(r.stack[m - 1].elements - 1)
    <3> DEFINE i == r.stack[m].idx
               e == r.stack[m - 1].elements
    <3>1. e \in Int /\ i \in 0..(e - 1) /\ i # e - 1
      BY <2>3, <2>5, <2>6
    <3> HIDE DEF i, e
    <3>2. i + 1 \in 0..(e - 1)
      BY <3>1
    <3>3. QED
      BY <3>2 DEF i, e
  <2>8. new \in Task /\ new.idx = r.stack[m].idx + 1
    <3> DEFINE i == r.stack[m].idx + 1
    <3>1. i \in Int
      BY <2>7
    <3> HIDE DEF i
    <3>2. [Untyped EXCEPT !.idx = i] \in Task /\ [Untyped EXCEPT !.idx = i].idx = i
      BY <3>1 DEF Untyped, Task, Types
    <3>3. QED
      BY <3>2 DEF i
  <2> HIDE DEF new
  <2> DEFINE low == SubSeq(r.stack, 1, m - 1)
  <2>9. Nested(low) /\ Len(low) = m - 1 /\ low[m - 1] = r.stack[m - 1]
    BY <1>1, <2>3, NestedPart
  <2>10. Len(low) < STACK /\ low[Len(low)] = r.stack[m - 1]
    BY <1>1, <2>3, <2>9
  <2> HIDE DEF low
  <2>11. Nested(Append(low, new))
    BY <2>5, <2>7, <2>8, <2>9, <2>10, NestedAppend
  <2>12. QED
    BY <1>2, <2>4, <2>11 DEF low, t
<1>5. QED
  BY <1>3, <1>4
-----------------------------------------------------------------------------
(* What an item decides.  It depends on the type of the current task, on   *)
(* how many tasks there are and on the bytes that are left only.           *)

LEMMA NewlineIs ==
    ASSUME NEW Bytes, NEW s \in Seq(Bytes)
    PROVE  LET n == seekNewline(s)
               EndAt(i) == s[i] = CR /\ s[i + 1] = LF
           IN  \/ n = -1 /\ \A i \in 1..(Len(s) - 1) : ~EndAt(i)
               \/ n \in 0..(Len(s) - 2) /\ EndAt(n + 1) /\ \A i \in 1..n : ~EndAt(i)
<1> DEFINE ends == {i \in 1..(Len(s) - 1) : s[i] = CR /\ s[i + 1] = LF}
           n == seekNewline(s)
<1>1. Len(s) \in Nat
  OBVIOUS
<1>2. n = IF ends = {} THEN -1 ELSE Min(ends) - 1
  BY DEF seekNewline
<1>3. CASE ends = {}
  BY <1>2, <1>3
<1>4. CASE ends # {}
  <2>1. ends \in SUBSET Nat
    BY <1>1
  <2>2. Min(ends) \in ends /\ \A i \in ends : Min(ends) <= i
    <3> HIDE DEF ends
    <3>1. QED
      BY <1>4, <2>1, MinIsLeast
  <2>3. /\ Min(ends) \in 1..(Len(s) - 1)
        /\ s[Min(ends)] = CR /\ s[Min(ends) + 1] = LF
    BY <2>2
  <2>4. n = Min(ends) - 1
    BY <1>2, <1>4
  <2> DEFINE m == Min(ends)
  <2>5. m \in 1..(Len(s) - 1) /\ s[m] = CR /\ s[m + 1] = LF /\ n = m - 1
        /\ \A i \in ends : m <= i
    BY <2>2, <2>3, <2>4
  <2> HIDE DEF m, n
  <2>6. n \in 0..(Len(s) - 2) /\ n + 1 = m
    BY <1>1, <2>5
  <2>7. ASSUME NEW i \in 1..n, s[i] = CR /\ s[i + 1] = LF
        PROVE  FALSE
    <3>1. i \in ends
      BY <1>1, <2>6, <2>7
    <3>2. m <= i
      BY <2>5, <3>1
    <3>3. QED
      BY <2>6, <3>2
  <2>8. QED
    BY <2>5, <2>6, <2>7 DEF n
<1>5. QED
  BY <1>3, <1>4

\* A line that is complete stays the same when more bytes come.
LEMMA NewlineStays ==
    ASSUME NEW Bytes, NEW s \in Seq(Bytes), NEW x \in Seq(Bytes), seekNewline(s) # -1
    PROVE  /\ seekNewline(s \o x) = seekNewline(s)
           /\ seekNewline(s) \in 0..(Len(s) - 2)
           /\ SubSeq(s \o x, 1, seekNewline(s)) = SubSeq(s, 1, seekNewline(s))
<1> DEFINE t == s \o x
           n == seekNewline(s)
           m == seekNewline(t)
<1>1. /\ t \in Seq(Bytes) /\ Len(t) = Len(s) + Len(x) /\ Len(s) \in Nat /\ Len(x) \in Nat
      /\ \A i \in 1..Len(s) : t[i] = s[i]
  OBVIOUS
<1>2. /\ n \in 0..(Len(s) - 2) /\ s[n + 1] = CR /\ s[n + 2] = LF
      /\ \A i \in 1..n : ~(s[i] = CR /\ s[i + 1] = LF)
  <2>1. n + 1 + 1 = n + 2
    BY NewlineIs
  <2>2. QED
    BY <2>1, NewlineIs
<1> HIDE DEF t, n, m
<1>3. n + 1 \in 1..Len(s) /\ n + 2 \in 1..Len(s) /\ n + 1 \in 1..(Len(t) - 1)
      /\ (n + 1) + 1 = n + 2
  BY <1>1, <1>2
<1>4. t[n + 1] = CR /\ t[n + 2] = LF
  BY <1>1, <1>2, <1>3
<1>5. /\ m \in 0..(Len(t) - 2) /\ t[m + 1] = CR /\ t[m + 2] = LF
      /\ \A i \in 1..m : ~(t[i] = CR /\ t[i + 1] = LF)
  <2>1. \/ m = -1 /\ \A i \in 1..(Len(t) - 1) : ~(t[i] = CR /\ t[i + 1] = LF)
        \/ /\ m \in 0..(Len(t) - 2) /\ t[m + 1] = CR /\ t[(m + 1) + 1] = LF
           /\ \A i \in 1..m : ~(t[i] = CR /\ t[i + 1] = LF)
    BY <1>1, NewlineIs DEF m
  <2>2. m # -1
    BY <1>3, <1>4, <2>1
  <2>3. m \in 0..(Len(t) - 2) => (m + 1) + 1 = m + 2
    OBVIOUS
  <2>4. QED
    BY <2>1, <2>2, <2>3
<1>6. m <= n
  <2>1. SUFFICES ASSUME ~(m <= n)
                 PROVE  FALSE
    OBVIOUS
  <2>2. n + 1 \in 1..m
    BY <1>1, <1>2, <1>5, <2>1
  <2>3. QED
    BY <1>3, <1>4, <1>5, <2>2
<1>7. m >= n
  <2>1. SUFFICES ASSUME ~(m >= n)
                 PROVE  FALSE
    OBVIOUS
  <2>2. m + 1 \in 1..n /\ m + 1 \in 1..Len(s) /\ m + 2 \in 1..Len(s) /\ (m + 1) + 1 = m + 2
    BY <1>1, <1>2, <1>5, <2>1
  <2>3. s[m + 1] = CR /\ s[m + 2] = LF
    BY <1>1, <1>5, <2>2
  <2>4. QED
    BY <1>2, <2>2, <2>3
<1>8. m = n
  BY <1>1, <1>2, <1>5, <1>6, <1>7
<1>9. SubSeq(t, 1, n) = SubSeq(s, 1, n)
  <2>1. n <= Len(s) /\ n <= Len(t) /\ n \in Nat
    BY <1>1, <1>2
  <2>2. /\ SubSeq(t, 1, n) \in Seq(Bytes) /\ Len(SubSeq(t, 1, n)) = n
        /\ SubSeq(s, 1, n) \in Seq(Bytes) /\ Len(SubSeq(s, 1, n)) = n
        /\ \A i \in 1..n : SubSeq(t, 1, n)[i] = t[i] /\ SubSeq(s, 1, n)[i] = s[i]
    BY <1>1, <2>1
  <2>3. \A i \in 1..n : t[i] = s[i]
    BY <1>1, <2>1
  <2>4. QED
    BY <2>2, <2>3, SeqEqual
<1>10. QED
  BY <1>2, <1>8, <1>9 DEF m, n, t

\* Bytes are one number or none.
LEMMA OneNumber ==
    ASSUME NEW s, NEW range, string2ll(s) \cap range # {}
    PROVE  (CHOOSE v \in string2ll(s) : TRUE) \in range
<1>1. \A v, w \in Unsigned(Tail(s)) : v = w
  BY DEF Unsigned
<1>2. \A v, w \in Unsigned(s) : v = w
  BY DEF Unsigned
<1>3. \A v, w \in string2ll(s) : v = w
  <2>1. CASE s = <<"0">>
    BY <2>1 DEF string2ll
  <2>2. CASE s # <<"0">> /\ s # <<>> /\ s[1] = "-"
    BY <1>1, <2>2 DEF string2ll
  <2>3. CASE s # <<"0">> /\ ~(s # <<>> /\ s[1] = "-")
    BY <1>2, <2>3 DEF string2ll
  <2>4. QED
    BY <2>1, <2>2, <2>3
<1>4. (CHOOSE v \in string2ll(s) : TRUE) \in string2ll(s)
  OBVIOUS
<1>5. QED
  BY <1>3, <1>4

Wait == [is |-> "wait", taken |-> 0, obj |-> NoReply]
Bad  == [is |-> "bad", taken |-> 0, obj |-> NoReply]
Whole(n, obj) == [is |-> "whole", taken |-> n, obj |-> obj]
Begins(n, count) ==
    [is |-> "array", taken |-> n, obj |-> [type |-> "ARRAY", elements |-> count]]

NumberOf(line) == CHOOSE v \in string2ll(line) : TRUE

DecideLine(type, rest) ==
    LET n == seekNewline(rest)
        line == SubSeq(rest, 1, n)
    IN  IF n = -1 THEN Wait
        ELSE IF type # "INTEGER" THEN Whole(n + 2, [type |-> type, str |-> line])
        ELSE IF string2ll(line) \cap ((-LLONG_MAX - 1)..LLONG_MAX) = {} THEN Bad
        ELSE Whole(n + 2, [type |-> "INTEGER", integer |-> NumberOf(line)])

DecideBulk(rest) ==
    LET n == seekNewline(rest)
        line == SubSeq(rest, 1, n)
        len  == NumberOf(line)
    IN  IF n = -1 THEN Wait
        ELSE IF string2ll(line) \cap (-1..LLONG_MAX) = {} THEN Bad
        ELSE IF len = -1 THEN Whole(n + 2, [type |-> "NIL"])
        ELSE IF n + 2 + len + 2 > Len(rest) THEN Wait
        ELSE Whole(n + 2 + len + 2,
                   [type |-> "STRING", str |-> SubSeq(rest, n + 3, n + 2 + len)])

DecideArray(depth, rest) ==
    LET n == seekNewline(rest)
        line  == SubSeq(rest, 1, n)
        count == NumberOf(line)
    IN  IF depth = STACK THEN Bad
        ELSE IF n = -1 THEN Wait
        ELSE IF string2ll(line) \cap (-1..INT_MAX) = {} THEN Bad
        ELSE IF count = -1 THEN Whole(n + 2, [type |-> "NIL"])
        ELSE Begins(n + 2, count)

Decide(type, depth, rest) ==
    IF type \in {"ERROR", "STATUS", "INTEGER"} THEN DecideLine(type, rest)
    ELSE IF type = "STRING" THEN DecideBulk(rest)
    ELSE DecideArray(depth, rest)

\* What is decided takes bytes that are there.
LEMMA DecidedBytes ==
    ASSUME NEW Bytes, NEW rest \in Seq(Bytes), NEW type, NEW depth
    PROVE  LET d == Decide(type, depth, rest) IN
           /\ d.is \in {"wait", "bad", "whole", "array"}
           /\ d.is = "wait" => d = Wait
           /\ d.is = "bad" => d = Bad
           /\ d.is \in {"whole", "array"} => d.taken \in 2..Len(rest)
           /\ d.is = "array" => /\ depth # STACK /\ type \notin {"ERROR", "STATUS", "INTEGER", "STRING"}
                                /\ d.obj.elements \in Nat
                                /\ d.obj = [type |-> "ARRAY", elements |-> d.obj.elements]
<1> DEFINE n == seekNewline(rest)
           line == SubSeq(rest, 1, n)
<1>1. n = -1 \/ n \in 0..(Len(rest) - 2)
  BY NewlineIs
<1>2. Len(rest) \in Nat
  OBVIOUS
<1>3. n # -1 => n + 2 \in 2..Len(rest)
  BY <1>1, <1>2
<1> HIDE DEF n, line
<1>4. CASE type \in {"ERROR", "STATUS", "INTEGER"}
  <2>1. Decide(type, depth, rest) = DecideLine(type, rest)
    BY <1>4 DEF Decide
  <2>2. \/ n = -1 /\ DecideLine(type, rest) = Wait
        \/ n # -1 /\ DecideLine(type, rest) = Bad
        \/ n # -1 /\ \E obj : DecideLine(type, rest) = Whole(n + 2, obj)
    BY DEF DecideLine, n
  <2>3. QED
    BY <1>3, <2>1, <2>2 DEF Wait, Bad, Whole
<1>5. CASE type = "STRING"
  <2> DEFINE len == NumberOf(line)
  <2>1. Decide(type, depth, rest) = DecideBulk(rest)
    BY <1>5 DEF Decide
  <2>2. string2ll(line) \cap (-1..LLONG_MAX) # {} => len \in -1..LLONG_MAX
    BY OneNumber DEF NumberOf
  <2> HIDE DEF len
  <2>3. \/ DecideBulk(rest) = Wait
        \/ DecideBulk(rest) = Bad
        \/ n # -1 /\ \E obj : DecideBulk(rest) = Whole(n + 2, obj)
        \/ /\ n # -1 /\ len \in Nat /\ n + 2 + len + 2 \in 2..Len(rest)
           /\ \E obj : DecideBulk(rest) = Whole(n + 2 + len + 2, obj)
    <3>1. CASE n = -1 \/ string2ll(line) \cap (-1..LLONG_MAX) = {}
      BY <3>1 DEF DecideBulk, n, line
    <3>2. CASE n # -1 /\ string2ll(line) \cap (-1..LLONG_MAX) # {}
      <4>1. len \in -1..LLONG_MAX
        BY <2>2, <3>2
      <4>2. CASE len = -1
        BY <3>2, <4>2 DEF DecideBulk, n, line, len
      <4>3. CASE len # -1 /\ n + 2 + len + 2 > Len(rest)
        BY <3>2, <4>3 DEF DecideBulk, n, line, len
      <4>4. CASE len # -1 /\ ~(n + 2 + len + 2 > Len(rest))
        <5>1. DecideBulk(rest) =
                Whole(n + 2 + len + 2,
                      [type |-> "STRING", str |-> SubSeq(rest, n + 3, n + 2 + len)])
          BY <3>2, <4>4 DEF DecideBulk, n, line, len
        <5>2. len \in Nat
          BY <4>1, <4>4, ReaderAssumption
        <5>3. n \in Nat
          BY <1>1, <3>2
        <5>4. n + 2 + len + 2 \in 2..Len(rest)
          BY <1>2, <4>4, <5>2, <5>3
        <5>5. QED
          BY <3>2, <5>1, <5>2, <5>4
      <4>5. QED
        BY <4>2, <4>3, <4>4
    <3>3. QED
      BY <3>1, <3>2
  <2>4. QED
    BY <1>3, <1>5, <2>1, <2>3 DEF Wait, Bad, Whole
<1>6. CASE type \notin {"ERROR", "STATUS", "INTEGER", "STRING"}
  <2> DEFINE count == NumberOf(line)
  <2>1. Decide(type, depth, rest) = DecideArray(depth, rest)
    BY <1>6 DEF Decide
  <2>2. string2ll(line) \cap (-1..INT_MAX) # {} => count \in -1..INT_MAX
    BY OneNumber DEF NumberOf
  <2> HIDE DEF count
  <2>3. \/ DecideArray(depth, rest) = Wait
        \/ DecideArray(depth, rest) = Bad
        \/ n # -1 /\ \E obj : DecideArray(depth, rest) = Whole(n + 2, obj)
        \/ /\ n # -1 /\ depth # STACK /\ count \in -1..INT_MAX /\ count # -1
           /\ DecideArray(depth, rest) = Begins(n + 2, count)
    BY <2>2 DEF DecideArray, n, line, count
  <2>4. CASE /\ n # -1 /\ depth # STACK /\ count \in -1..INT_MAX /\ count # -1
             /\ DecideArray(depth, rest) = Begins(n + 2, count)
    <3>1. count \in Nat
      BY <2>4, ReaderAssumption
    <3>2. QED
      BY <1>3, <1>6, <2>1, <2>4, <3>1 DEF Begins
  <2>5. CASE \/ DecideArray(depth, rest) = Wait
             \/ DecideArray(depth, rest) = Bad
             \/ n # -1 /\ \E obj : DecideArray(depth, rest) = Whole(n + 2, obj)
    BY <1>3, <2>1, <2>5 DEF Wait, Bad, Whole
  <2>6. QED
    BY <2>3, <2>4, <2>5
<1>7. QED
  BY <1>4, <1>5, <1>6

\* What is decided is decided once and for all: more bytes change nothing.
LEMMA DecidedStays ==
    ASSUME NEW Bytes, NEW rest \in Seq(Bytes), NEW x \in Seq(Bytes), NEW type, NEW depth,
           Decide(type, depth, rest).is # "wait"
    PROVE  Decide(type, depth, rest \o x) = Decide(type, depth, rest)
<1> DEFINE n == seekNewline(rest)
           line == SubSeq(rest, 1, n)
           more == rest \o x
<1>1. /\ more \in Seq(Bytes) /\ Len(more) = Len(rest) + Len(x)
      /\ Len(rest) \in Nat /\ Len(x) \in Nat
      /\ \A i \in 1..Len(rest) : more[i] = rest[i]
  OBVIOUS
<1>2. n # -1 => /\ seekNewline(more) = n /\ SubSeq(more, 1, n) = line
                /\ n \in 0..(Len(rest) - 2)
  BY NewlineStays
<1>3. Wait.is = "wait"
  BY DEF Wait
<1> HIDE DEF n, line, more
<1>4. CASE type \in {"ERROR", "STATUS", "INTEGER"}
  <2>1. DecideLine(type, rest).is # "wait"
    BY <1>4 DEF Decide
  <2>2. n # -1
    BY <1>3, <2>1 DEF DecideLine, n
  <2>3. DecideLine(type, more) = DecideLine(type, rest)
    BY <1>2, <2>2 DEF DecideLine, n, line
  <2>4. QED
    BY <1>4, <2>3 DEF Decide, more
<1>5. CASE type = "STRING"
  <2> DEFINE len == NumberOf(line)
  <2>1. DecideBulk(rest).is # "wait" /\ Decide(type, depth, rest) = DecideBulk(rest)
        /\ Decide(type, depth, more) = DecideBulk(more)
    BY <1>5 DEF Decide
  <2>2. n # -1
    BY <1>3, <2>1 DEF DecideBulk, n
  <2>3. seekNewline(more) = n /\ SubSeq(more, 1, n) = line /\ n \in 0..(Len(rest) - 2)
    BY <1>2, <2>2
  <2>4. CASE string2ll(line) \cap (-1..LLONG_MAX) = {}
    <3>1. DecideBulk(rest) = Bad /\ DecideBulk(more) = Bad
      BY <2>2, <2>3, <2>4 DEF DecideBulk, n, line
    <3>2. QED
      BY <2>1, <3>1 DEF more
  <2>5. CASE string2ll(line) \cap (-1..LLONG_MAX) # {}
    <3>1. len \in -1..LLONG_MAX
      BY <2>5, OneNumber DEF NumberOf
    <3> HIDE DEF len
    <3>2. CASE len = -1
      <4>1. /\ DecideBulk(rest) = Whole(n + 2, [type |-> "NIL"])
            /\ DecideBulk(more) = Whole(n + 2, [type |-> "NIL"])
        BY <2>2, <2>3, <2>5, <3>2 DEF DecideBulk, n, line, len
      <4>2. QED
        BY <2>1, <4>1 DEF more
    <3>3. CASE len # -1
      <4>1. ~(n + 2 + len + 2 > Len(rest))
        BY <1>3, <2>1, <2>2, <2>5, <3>3 DEF DecideBulk, n, line, len
      <4>2. len \in Nat
        BY <3>1, <3>3, ReaderAssumption
      <4>3. ~(n + 2 + len + 2 > Len(more)) /\ n + 2 + len <= Len(rest)
        BY <1>1, <2>3, <4>1, <4>2
      <4>4. SubSeq(more, n + 3, n + 2 + len) = SubSeq(rest, n + 3, n + 2 + len)
        <5> DEFINE a == n + 3
                   b == n + 2 + len
                   p == SubSeq(more, a, b)
                   q == SubSeq(rest, a, b)
        <5>1. a \in 1..(Len(rest) + 1) /\ b \in Nat /\ b <= Len(rest) /\ b <= Len(more)
              /\ a <= b + 1
          BY <1>1, <2>3, <4>2, <4>3
        <5> HIDE DEF a, b
        <5>2. /\ p \in Seq(Bytes) /\ Len(p) = b - a + 1
              /\ \A i \in 1..(b - a + 1) : p[i] = more[a + i - 1]
          BY <1>1, <5>1
        <5>3. /\ q \in Seq(Bytes) /\ Len(q) = b - a + 1
              /\ \A i \in 1..(b - a + 1) : q[i] = rest[a + i - 1]
          BY <1>1, <5>1
        <5>4. \A i \in 1..(b - a + 1) : more[a + i - 1] = rest[a + i - 1]
          BY <1>1, <5>1
        <5> HIDE DEF p, q
        <5>5. /\ Len(p) = Len(q) /\ p \in Seq(Bytes) /\ q \in Seq(Bytes)
              /\ \A i \in 1..Len(p) : p[i] = q[i]
          BY <5>2, <5>3, <5>4
        <5>6. p = q
          BY <5>5, SeqEqual
        <5>7. QED
          BY <5>6 DEF a, b, p, q
      <4>5. /\ DecideBulk(rest) =
                 Whole(n + 2 + len + 2,
                       [type |-> "STRING", str |-> SubSeq(rest, n + 3, n + 2 + len)])
            /\ DecideBulk(more) =
                 Whole(n + 2 + len + 2,
                       [type |-> "STRING", str |-> SubSeq(more, n + 3, n + 2 + len)])
        BY <2>2, <2>3, <2>5, <3>3, <4>1, <4>3 DEF DecideBulk, n, line, len
      <4>6. QED
        BY <2>1, <4>4, <4>5 DEF more
    <3>4. QED
      BY <3>2, <3>3
  <2>6. QED
    BY <2>4, <2>5
<1>6. CASE type \notin {"ERROR", "STATUS", "INTEGER", "STRING"}
  <2>1. DecideArray(depth, rest).is # "wait"
    BY <1>6 DEF Decide
  <2>2. depth = STACK \/ n # -1
    BY <1>3, <2>1 DEF DecideArray, n
  <2>3. DecideArray(depth, more) = DecideArray(depth, rest)
    BY <1>2, <2>2 DEF DecideArray, n, line
  <2>4. QED
    BY <1>6, <2>3 DEF Decide, more
<1>7. QED
  BY <1>4, <1>5, <1>6
-----------------------------------------------------------------------------
(* What is done then.                                                      *)

\* A reader in the middle of a reply.
Ready(r, Bytes) == Good(r, Bytes) /\ r.err = FALSE /\ r.stack # <<>>

Carry(r, d) ==
    IF d.is = "wait" THEN Stop(r)
    ELSE IF d.is = "bad" THEN Fail(r)
    ELSE IF d.is = "whole" THEN Complete(Past(r, d.taken), d.obj)
    ELSE Elements(Create(Past(r, d.taken), d.obj), d.obj.elements)

Decision(r) == Decide(Current(r).type, Len(r.stack), Rest(r))

LEMMA CurrentIs ==
    ASSUME NEW Bytes, NEW r, Ready(r, Bytes)
    PROVE  /\ Current(r) = r.stack[Len(r.stack)] /\ Current(r) \in Task
           /\ Len(r.stack) \in 1..STACK /\ r.stack \in Seq(Task)
<1>1. r.stack \in Seq(Task) /\ r.stack # <<>> /\ Len(r.stack) <= STACK /\ STACK \in Nat
  BY ReaderAssumption DEF Ready, Good, Nested
<1>2. Len(r.stack) \in 1..STACK
  BY <1>1
<1>3. Current(r) = r.stack[Len(r.stack)]
  BY DEF Current, Last
<1>4. QED
  BY <1>1, <1>2, <1>3

\* Going on twice.
LEMMA PastTwice ==
    ASSUME NEW Bytes, NEW r, Good(r, Bytes), NEW m \in Nat, NEW k \in Nat
    PROVE  /\ [Past(r, m) EXCEPT !.pos = @ + k] = Past(r, m + k)
           /\ \A n \in Nat : [r EXCEPT !.pos = @ + n + 2] = Past(r, n + 2)
<1> DEFINE p == r.pos + m
           t == [r EXCEPT !.pos = p]
           q == r.pos + (m + k)
           u == [r EXCEPT !.pos = q]
<1>1. r.pos \in Nat /\ Fields(r)
  BY RestIs DEF Good
<1>2. p \in Nat /\ q \in Nat /\ p + k = q
  BY <1>1
<1>3. t = Past(r, m) /\ u = Past(r, m + k)
  BY DEF Past
<1>4. [t EXCEPT !.pos = p + k] = u
  <2> HIDE DEF p, q
  <2>1. /\ t = [err |-> r.err, buf |-> r.buf, pos |-> p, len |-> r.len,
                stack |-> r.stack, reply |-> r.reply]
        /\ u = [err |-> r.err, buf |-> r.buf, pos |-> q, len |-> r.len,
                stack |-> r.stack, reply |-> r.reply]
    BY <1>1 DEF Fields
  <2> HIDE DEF t, u
  <2>2. [t EXCEPT !.pos = p + k] =
               [err |-> r.err, buf |-> r.buf, pos |-> p + k, len |-> r.len,
                stack |-> r.stack, reply |-> r.reply]
    BY <2>1
  <2>3. QED
    BY <1>2, <2>1, <2>2
<1>5. t.pos = p
  BY <1>1, <1>2, SetPos
<1>6. [Past(r, m) EXCEPT !.pos = @ + k] = [t EXCEPT !.pos = p + k]
  <2>1. [Past(r, m) EXCEPT !.pos = @ + k] = [t EXCEPT !.pos = t.pos + k]
    BY <1>3
  <2>2. QED
    BY <1>5, <2>1
<1>7. ASSUME NEW n \in Nat
      PROVE  [r EXCEPT !.pos = @ + n + 2] = Past(r, n + 2)
  <2>1. r.pos + n + 2 = r.pos + (n + 2)
    BY <1>1
  <2>2. QED
    BY <2>1 DEF Past
<1>8. QED
  BY <1>3, <1>4, <1>6, <1>7

\* The processors of items carry out what is decided.
LEMMA TypedIs ==
    ASSUME NEW Bytes, NEW r, Ready(r, Bytes), Current(r).type # "none"
    PROVE  ProcessTyped(Done(r)) = Carry(r, Decision(r))
<1> DEFINE rest == Rest(r)
           n == seekNewline(rest)
           line == SubSeq(rest, 1, n)
           type == Current(r).type
           depth == Len(r.stack)
<1>1. /\ rest \in Seq(Bytes) /\ Len(rest) \in Nat /\ Len(rest) = r.len - r.pos
      /\ r.len \in Nat /\ r.pos \in Nat /\ Good(r, Bytes)
  BY RestIs DEF Ready
<1>2. n = -1 \/ n \in 0..(Len(rest) - 2)
  BY <1>1, NewlineIs
<1>3. n # -1 => [r EXCEPT !.pos = @ + n + 2] = Past(r, n + 2)
  <2>1. n # -1 => n \in Nat
    BY <1>1, <1>2
  <2> HIDE DEF n
  <2>2. QED
    BY <1>1, <2>1, PastTwice
<1>4. type \in {"ERROR", "STATUS", "INTEGER", "STRING", "ARRAY"}
  <2>1. type \in Types
    BY CurrentIs DEF Task
  <2>2. QED
    BY <2>1, TypesAre
<1>5. Done(r).ok = TRUE /\ Done(r).r = r
  BY DEF Done
<1>6. Decision(r) = Decide(type, depth, rest)
  BY DEF Decision
<1> HIDE DEF rest, n, line, depth
<1>7. CASE type \in {"ERROR", "STATUS", "INTEGER"}
  <2>1. ProcessTyped(Done(r)) = processLineItem(r)
    BY <1>5, <1>7 DEF ProcessTyped
  <2>2. Decision(r) = DecideLine(type, rest)
    BY <1>6, <1>7 DEF Decide
  <2>3. CASE n = -1
    <3>1. processLineItem(r) = Stop(r)
      BY <2>3 DEF processLineItem, WithLine, n, rest
    <3>2. DecideLine(type, rest) = Wait
      BY <2>3 DEF DecideLine, n
    <3>3. QED
      BY <2>1, <2>2, <3>1, <3>2 DEF Carry, Wait
  <2>4. CASE n # -1 /\ type # "INTEGER"
    <3>1. processLineItem(r) = Complete(Past(r, n + 2), [type |-> type, str |-> line])
      BY <1>3, <2>4 DEF processLineItem, WithLine, n, rest, line
    <3>2. DecideLine(type, rest) = Whole(n + 2, [type |-> type, str |-> line])
      BY <2>4 DEF DecideLine, n, line
    <3>3. QED
      BY <2>1, <2>2, <3>1, <3>2 DEF Carry, Whole
  <2>5. CASE n # -1 /\ type = "INTEGER"
    <3> DEFINE range == (-LLONG_MAX - 1)..LLONG_MAX
    <3>1. processLineItem(r) =
            IF string2ll(line) \cap range = {} THEN Fail(r)
            ELSE Complete(Past(r, n + 2), [type |-> "INTEGER", integer |-> NumberOf(line)])
      BY <1>3, <2>5 DEF processLineItem, WithLine, WithNumber, NumberOf, n, rest, line
    <3>2. DecideLine(type, rest) =
            IF string2ll(line) \cap range = {} THEN Bad
            ELSE Whole(n + 2, [type |-> "INTEGER", integer |-> NumberOf(line)])
      BY <2>5 DEF DecideLine, n, line
    <3>3. QED
      BY <2>1, <2>2, <3>1, <3>2 DEF Carry, Whole, Bad
  <2>6. QED
    BY <2>3, <2>4, <2>5
<1>8. CASE type = "STRING"
  <2> DEFINE past == Past(r, n + 2)
             len == NumberOf(line)
             range == -1..LLONG_MAX
  <2>1. ProcessTyped(Done(r)) = processBulkItem(r)
    BY <1>5, <1>8 DEF ProcessTyped
  <2>2. Decision(r) = DecideBulk(rest)
    BY <1>6, <1>8 DEF Decide
  <2>3. CASE n = -1
    <3>1. processBulkItem(r) = Stop(r)
      BY <2>3 DEF processBulkItem, WithLine, n, rest
    <3>2. DecideBulk(rest) = Wait
      BY <2>3 DEF DecideBulk, n
    <3>3. QED
      BY <2>1, <2>2, <3>1, <3>2 DEF Carry, Wait
  <2>4. CASE n # -1
    <3>1. processBulkItem(r) =
            IF string2ll(line) \cap range = {} THEN Fail(r) ELSE String(r, past, len, 2)
      BY <1>3, <2>4 DEF processBulkItem, WithLine, WithNumber, NumberOf, n, rest, line
    <3>2. CASE string2ll(line) \cap range = {}
      <4>1. DecideBulk(rest) = Bad
        BY <2>4, <3>2 DEF DecideBulk, n, line
      <4>2. QED
        BY <2>1, <2>2, <3>1, <3>2, <4>1 DEF Carry, Bad
    <3>3. CASE string2ll(line) \cap range # {}
      <4>1. len \in -1..LLONG_MAX
        BY <3>3, OneNumber DEF NumberOf
      <4>2. n \in Nat /\ n + 2 \in 0..Len(rest) /\ n + 2 \in Nat
        BY <1>1, <1>2, <2>4
      <4>3. /\ past.pos = r.pos + (n + 2)
            /\ Rest(past) = SubSeq(rest, (n + 2) + 1, Len(rest))
        <5>1. n + 2 \in 0..Len(Rest(r))
          BY <4>2 DEF rest
        <5> DEFINE m == n + 2
        <5>2. m \in 0..Len(Rest(r)) /\ Good(r, Bytes)
          BY <1>1, <5>1
        <5> HIDE DEF m
        <5>3. /\ Past(r, m).pos = r.pos + m
              /\ Rest(Past(r, m)) = SubSeq(Rest(r), m + 1, Len(Rest(r)))
          BY <5>2, PastIsGood
        <5>4. QED
          BY <5>3 DEF m, rest
      <4> HIDE DEF past, len
      <4>4. CASE len = -1
        <5>1. DecideBulk(rest) = Whole(n + 2, [type |-> "NIL"])
          BY <2>4, <3>3, <4>4 DEF DecideBulk, n, line, len
        <5>2. String(r, past, len, 2) = Complete(past, [type |-> "NIL"])
          BY <4>4 DEF String
        <5>3. QED
          BY <2>1, <2>2, <3>1, <3>3, <5>1, <5>2 DEF Carry, Whole, past
      <4>5. CASE len # -1
        <5>1. len \in Nat
          BY <4>1, <4>5, ReaderAssumption
        <5>2. (past.pos + len + 2 > r.len) <=> (n + 2 + len + 2 > Len(rest))
          BY <1>1, <4>2, <4>3, <5>1
        <5>3. CASE n + 2 + len + 2 > Len(rest)
          <6>1. DecideBulk(rest) = Wait
            BY <2>4, <3>3, <4>5, <5>3 DEF DecideBulk, n, line, len
          <6>2. String(r, past, len, 2) = Stop(r)
            BY <4>5, <5>2, <5>3 DEF String
          <6>3. QED
            BY <2>1, <2>2, <3>1, <3>3, <6>1, <6>2 DEF Carry, Wait
        <5>4. CASE ~(n + 2 + len + 2 > Len(rest))
          <6> DEFINE obj == [type |-> "STRING", str |-> SubSeq(rest, n + 3, n + 2 + len)]
          <6>1. DecideBulk(rest) = Whole(n + 2 + len + 2, obj)
            BY <2>4, <3>3, <4>5, <5>4 DEF DecideBulk, n, line, len
          <6>2. SubSeq(Rest(past), 1, len) = SubSeq(rest, n + 3, n + 2 + len)
            <7>1. SubSeq(SubSeq(rest, (n + 2) + 1, Len(rest)), 1, len)
                    = SubSeq(rest, n + 3, n + 2 + len)
              BY <1>1, <4>2, <5>1, <5>4
            <7>2. QED
              BY <4>3, <7>1
          <6>3. [past EXCEPT !.pos = @ + len + 2] = Past(r, n + 2 + len + 2)
            <7>1. [past EXCEPT !.pos = @ + (len + 2)] = Past(r, (n + 2) + (len + 2))
              <8>1. n + 2 \in Nat /\ len + 2 \in Nat
                BY <4>2, <5>1
              <8> DEFINE m == n + 2
                         k == len + 2
              <8> HIDE DEF m, k
              <8>2. [Past(r, m) EXCEPT !.pos = @ + k] = Past(r, m + k)
                BY <1>1, <8>1, PastTwice DEF m, k
              <8>3. QED
                BY <8>2 DEF m, k, past
            <7>2. past.pos + len + 2 = past.pos + (len + 2)
                  /\ (n + 2) + (len + 2) = n + 2 + len + 2
              <8>1. past.pos \in Nat
                BY <1>1, <4>2, <4>3
              <8>2. QED
                BY <4>2, <5>1, <8>1
            <7>3. QED
              BY <7>1, <7>2
          <6>4. String(r, past, len, 2) = Complete(Past(r, n + 2 + len + 2), obj)
            BY <4>5, <5>2, <5>4, <6>2, <6>3 DEF String
          <6>5. QED
            BY <2>1, <2>2, <3>1, <3>3, <6>1, <6>4 DEF Carry, Whole
        <5>5. QED
          BY <5>3, <5>4
      <4>6. QED
        BY <4>4, <4>5
    <3>4. QED
      BY <3>2, <3>3
  <2>5. QED
    BY <2>3, <2>4
<1>9. CASE type = "ARRAY"
  <2> DEFINE past == Past(r, n + 2)
             count == NumberOf(line)
             range == -1..INT_MAX
  <2>1. ProcessTyped(Done(r)) = processMultiBulkItem(r)
    BY <1>5, <1>9 DEF ProcessTyped
  <2>2. Decision(r) = DecideArray(depth, rest)
    BY <1>6, <1>9 DEF Decide
  <2>3. CASE depth = STACK
    <3>1. processMultiBulkItem(r) = Fail(r)
      BY <2>3 DEF processMultiBulkItem, depth
    <3>2. DecideArray(depth, rest) = Bad
      BY <2>3 DEF DecideArray
    <3>3. QED
      BY <2>1, <2>2, <3>1, <3>2 DEF Carry, Bad
  <2>4. CASE depth # STACK /\ n = -1
    <3>1. processMultiBulkItem(r) = Stop(r)
      BY <2>4 DEF processMultiBulkItem, WithLine, n, rest, depth
    <3>2. DecideArray(depth, rest) = Wait
      BY <2>4 DEF DecideArray, n
    <3>3. QED
      BY <2>1, <2>2, <3>1, <3>2 DEF Carry, Wait
  <2>5. CASE depth # STACK /\ n # -1
    <3> DEFINE obj == [type |-> "ARRAY", elements |-> count]
    <3>1. processMultiBulkItem(r) =
            IF string2ll(line) \cap range = {} THEN Fail(r)
            ELSE IF count = -1 THEN Complete(past, [type |-> "NIL"])
            ELSE Elements(Create(past, obj), count)
      BY <1>3, <2>5
      DEF processMultiBulkItem, WithLine, WithNumber, NumberOf, n, rest, line, depth
    <3> HIDE DEF count, past
    <3>2. DecideArray(depth, rest) =
            IF string2ll(line) \cap range = {} THEN Bad
            ELSE IF count = -1 THEN Whole(n + 2, [type |-> "NIL"])
            ELSE Begins(n + 2, count)
      BY <2>5 DEF DecideArray, n, line, count
    <3>3. CASE string2ll(line) \cap range = {}
      BY <2>1, <2>2, <3>1, <3>2, <3>3 DEF Carry, Bad
    <3>4. CASE string2ll(line) \cap range # {} /\ count = -1
      BY <2>1, <2>2, <3>1, <3>2, <3>4 DEF Carry, Whole, past
    <3>5. CASE string2ll(line) \cap range # {} /\ count # -1
      BY <2>1, <2>2, <3>1, <3>2, <3>5 DEF Carry, Begins, past
    <3>6. QED
      BY <3>3, <3>4, <3>5
  <2>6. QED
    BY <2>3, <2>4, <2>5
<1>10. QED
  BY <1>4, <1>7, <1>8, <1>9
-----------------------------------------------------------------------------
(* An item leaves the reader as it should be.                              *)

LEMMA ElementsIsGood ==
    ASSUME NEW Bytes, NEW r, Ready(r, Bytes), NEW count \in Nat,
           Len(r.stack) < STACK, Current(r).type = "ARRAY"
    PROVE  LET t == Elements(r, count).r IN
           /\ Elements(r, count) = Done(t)
           /\ Good(t, Bytes) /\ Rest(t) = Rest(r) /\ t.err = FALSE
           /\ t.pos = r.pos /\ t.len = r.len /\ t.buf = r.buf /\ t.reply = r.reply
<1>1. Good(r, Bytes) /\ r.err = FALSE /\ Fields(r) /\ Nested(r.stack)
  BY DEF Ready, Good
<1>2. CASE count = 0
  <2>1. Elements(r, count) = Done(moveToNextTask(r))
    BY <1>2 DEF Elements
  <2>2. Done(moveToNextTask(r)).r = moveToNextTask(r)
    BY DEF Done
  <2>3. QED
    BY <1>1, <2>1, <2>2, NextIsGood
<1>3. CASE count # 0
  <2> DEFINE n == Len(r.stack)
             low == [r.stack EXCEPT ![n].elements = count]
             new == Append(low, Untyped)
             t == [r EXCEPT !.stack = new]
  <2>1. Elements(r, count) = Done(t) /\ Done(t).r = t
    BY <1>3 DEF Elements, Done
  <2>2. /\ r.stack \in Seq(Task) /\ n \in 1..STACK /\ n < STACK /\ STACK \in Nat
        /\ r.stack[n] \in Task /\ r.stack[n].type = "ARRAY"
    BY CurrentIs, ReaderAssumption
  <2> DEFINE top == [r.stack[n] EXCEPT !.elements = count]
  <2>3. top \in Task /\ top.type = "ARRAY" /\ top.elements = count /\ top.idx = r.stack[n].idx
    BY <2>2 DEF Task
  <2>4. low = [r.stack EXCEPT ![n] = top]
    OBVIOUS
  <2> HIDE DEF top, low
  <2>5. /\ low \in Seq(Task) /\ Len(low) = n /\ low[n] = top
        /\ \A d \in 1..n : d # n => low[d] = r.stack[d]
    BY <2>2, <2>3, <2>4
  <2>6. Nested(low)
    <3>1. ASSUME NEW d \in 2..Len(low)
          PROVE  low[d - 1].type = "ARRAY" /\ low[d].idx \in 0..(low[d - 1].elements - 1)
      <4>1. d \in 2..n /\ d - 1 \in 1..n /\ d - 1 # n /\ d \in 1..n
        BY <2>2, <2>5
      <4>2. low[d - 1] = r.stack[d - 1] /\ low[d].idx = r.stack[d].idx
        BY <2>3, <2>5, <4>1
      <4>3. QED
        BY <1>1, <4>1, <4>2 DEF Nested
    <3>2. QED
      BY <2>2, <2>5, <3>1 DEF Nested
  <2>7. Untyped \in Task /\ Untyped.idx = 0
    BY UntypedIsTask DEF Untyped
  <2>8. 0 \in 0..(count - 1)
    BY <1>3
  <2>9. Nested(new)
    BY <2>2, <2>3, <2>5, <2>6, <2>7, <2>8, NestedAppend
  <2>10. new \in Seq(Task)
    BY <2>9 DEF Nested
  <2> HIDE DEF new
  <2>11. /\ Fields(t)
         /\ t.err = r.err /\ t.buf = r.buf /\ t.pos = r.pos /\ t.len = r.len
         /\ t.stack = new /\ t.reply = r.reply
    BY <1>1, <2>10, SetStack
  <2> HIDE DEF t
  <2>12. Good(t, Bytes) /\ Rest(t) = Rest(r)
    BY <1>1, <2>9, <2>11 DEF Good, Rest
  <2>13. QED
    BY <1>1, <2>1, <2>11, <2>12
<1>4. QED
  BY <1>2, <1>3

\* An array for which there is a task left waits for its line only.
Waits(r) == Current(r).type = "ARRAY" => Len(r.stack) # STACK

\* What processing an item of r may come to.
Kept(item, r, Bytes) ==
    /\ item.ok \in BOOLEAN /\ Good(item.r, Bytes)
    /\ item.ok => item.r.err = FALSE /\ Len(Rest(item.r)) < Len(Rest(r))
    /\ ~item.ok /\ item.r.err = FALSE =>
         Ready(item.r, Bytes) /\ Waits(item.r) /\ Len(Rest(item.r)) <= Len(Rest(r))
    /\ item.r.err => item.r.len = 0 /\ item.r.stack = <<>> /\ item.r.reply = NoReply

\* Nothing is taken when bytes are missing.
LEMMA KeptStop ==
    ASSUME NEW Bytes, NEW r, Ready(r, Bytes), Waits(r)
    PROVE  Kept(Stop(r), r, Bytes)
<1>1. Good(r, Bytes) /\ r.err = FALSE
  BY DEF Ready
<1>2. Rest(r) \in Seq(Bytes) /\ Len(Rest(r)) \in Nat
  BY <1>1, RestIs
<1>3. Len(Rest(r)) <= Len(Rest(r))
  BY <1>2
<1> DEFINE item == Stop(r)
<1>4. item.ok = FALSE /\ item.r = r
  BY DEF Stop
<1> HIDE DEF item
<1>5. Kept(item, r, Bytes)
  BY <1>1, <1>2, <1>3, <1>4 DEF Kept
<1>6. QED
  BY <1>5 DEF item

LEMMA KeptFail ==
    ASSUME NEW Bytes, NEW r, NEW s
    PROVE  Kept(Fail(s), r, Bytes)
<1> DEFINE item == Fail(s)
<1>1. /\ Good(item.r, Bytes) /\ item.r.err = TRUE /\ item.ok = FALSE
      /\ item.r.stack = <<>> /\ item.r.reply = NoReply /\ item.r.len = 0
  BY FailIsGood
<1> HIDE DEF item
<1>2. Kept(item, r, Bytes)
  BY <1>1 DEF Kept
<1>3. QED
  BY <1>2 DEF item

LEMMA CarryKeeps ==
    ASSUME NEW Bytes, NEW r, Ready(r, Bytes), Current(r).type # "none"
    PROVE  Kept(Carry(r, Decision(r)), r, Bytes)
<1> DEFINE d == Decision(r)
<1>1. /\ Rest(r) \in Seq(Bytes) /\ Len(Rest(r)) \in Nat /\ Good(r, Bytes) /\ r.err = FALSE
      /\ r.stack # <<>>
  BY RestIs DEF Ready
<1>2. /\ d.is \in {"wait", "bad", "whole", "array"}
      /\ d.is \in {"whole", "array"} => d.taken \in 2..Len(Rest(r))
      /\ d.is = "array" => /\ Len(r.stack) # STACK
                           /\ Current(r).type \notin {"ERROR", "STATUS", "INTEGER", "STRING"}
                           /\ d.obj.elements \in Nat
  BY <1>1, DecidedBytes DEF Decision
<1> HIDE DEF d
<1>3. CASE d.is = "wait"
  <2>1. Carry(r, d) = Stop(r)
    BY <1>3 DEF Carry
  <2>2. Waits(r)
    <3>1. Current(r).type = "ARRAY" /\ Len(r.stack) = STACK => d = Bad
      BY DEF d, Decision, Decide, DecideArray
    <3>2. QED
      BY <1>3, <3>1 DEF Waits, Bad
  <2>3. QED
    BY <2>1, <2>2, KeptStop DEF d
<1>4. CASE d.is = "bad"
  <2>1. Carry(r, d) = Fail(r)
    BY <1>4 DEF Carry
  <2>2. QED
    BY <2>1, KeptFail DEF d
<1>5. CASE d.is \in {"whole", "array"}
  <2> DEFINE m == d.taken
             p == Past(r, m)
             obj == d.obj
             c == Create(p, obj)
  <2>1. m \in 2..Len(Rest(r)) /\ m \in 0..Len(Rest(r))
    BY <1>1, <1>2, <1>5
  <2> HIDE DEF m
  <2>2. /\ Good(p, Bytes) /\ p.err = FALSE /\ p.stack = r.stack
        /\ Rest(p) = SubSeq(Rest(r), m + 1, Len(Rest(r)))
    BY <1>1, <2>1, PastIsGood
  <2>3. Len(Rest(p)) < Len(Rest(r))
    BY <1>1, <2>1, <2>2
  <2> HIDE DEF p, obj
  <2>4. Good(c, Bytes) /\ c.err = FALSE /\ c.stack = r.stack /\ Rest(c) = Rest(p)
    BY <2>2, CreateIsGood, ZenonT(40)
  <2> HIDE DEF c
  <2>5. CASE d.is = "whole"
    <3> DEFINE t == moveToNextTask(c)
    <3>1. Carry(r, d) = Done(t) /\ Done(t).ok = TRUE /\ Done(t).r = t
      BY <2>5 DEF Carry, Complete, Done, c, p, m, obj
    <3>2. Good(t, Bytes) /\ t.err = FALSE /\ Rest(t) = Rest(c)
      BY <2>4, NextIsGood
    <3> HIDE DEF t
    <3>3. QED
      BY <2>3, <2>4, <3>1, <3>2 DEF Kept, d
  <2>6. CASE d.is = "array"
    <3> DEFINE t == Elements(c, d.obj.elements).r
    <3>1. Ready(c, Bytes) /\ Current(c) = Current(r)
      BY <1>1, <2>4 DEF Ready, Current
    <3>2. Current(r).type = "ARRAY" /\ Len(r.stack) < STACK
      <4>1. Current(r).type \in Types /\ Len(r.stack) \in 1..STACK /\ STACK \in Nat
        BY CurrentIs, ReaderAssumption DEF Task
      <4>2. QED
        BY <1>2, <2>6, <4>1, TypesAre
    <3>3. /\ Elements(c, d.obj.elements) = Done(t)
          /\ Good(t, Bytes) /\ Rest(t) = Rest(c) /\ t.err = FALSE
      BY <1>2, <2>4, <2>6, <3>1, <3>2, ElementsIsGood, ZenonT(40)
    <3>4. Carry(r, d) = Done(t)
      BY <2>6, <3>3 DEF Carry, c, p, m, obj
    <3>5. Done(t).ok = TRUE /\ Done(t).r = t
      BY DEF Done
    <3> HIDE DEF t
    <3>6. QED
      BY <2>3, <2>4, <3>3, <3>4, <3>5 DEF Kept, d
  <2>7. QED
    BY <1>5, <2>5, <2>6
<1>6. QED
  BY <1>2, <1>3, <1>4, <1>5 DEF d

\* A task whose type has been read.
Typed(r) == [Past(r, 1) EXCEPT !.stack =
                [@ EXCEPT ![Len(@)].type = TypeOfByte[Head(Rest(r))]]]

\* The three outcomes of reading a type.
LEMMA ReadTypeIs ==
    ASSUME NEW Bytes, NEW r, Ready(r, Bytes), Current(r).type = "none"
    PROVE  \/ Rest(r) = <<>> /\ ReadType(r) = Stop(r)
           \/ /\ Rest(r) # <<>> /\ Head(Rest(r)) \notin DOMAIN TypeOfByte
              /\ ReadType(r) = Fail(r)
           \/ /\ Rest(r) # <<>> /\ Head(Rest(r)) \in DOMAIN TypeOfByte
              /\ ReadType(r) = Done(Typed(r))
              /\ Ready(Typed(r), Bytes) /\ Current(Typed(r)).type # "none"
              /\ Rest(Typed(r)) = Tail(Rest(r)) /\ Typed(r).reply = r.reply
              /\ Typed(r).stack =
                   [r.stack EXCEPT ![Len(r.stack)].type = TypeOfByte[Head(Rest(r))]]
<1>1. /\ Rest(r) \in Seq(Bytes) /\ Len(Rest(r)) \in Nat /\ Good(r, Bytes) /\ r.err = FALSE
      /\ r.stack # <<>> /\ r.pos \in Nat /\ Nested(r.stack) /\ Fields(r)
  BY RestIs DEF Ready, Good
<1>2. CASE Rest(r) = <<>>
  BY <1>2 DEF ReadType
<1>3. CASE Rest(r) # <<>> /\ Head(Rest(r)) \notin DOMAIN TypeOfByte
  BY <1>3 DEF ReadType
<1>4. CASE Rest(r) # <<>> /\ Head(Rest(r)) \in DOMAIN TypeOfByte
  <2> DEFINE n == Len(r.stack)
             type == TypeOfByte[Head(Rest(r))]
             p == Past(r, 1)
             new == [r.stack EXCEPT ![n].type = type]
             top == [r.stack[n] EXCEPT !.type = type]
             t == [p EXCEPT !.stack = new]
  <2>1. 1 \in 0..Len(Rest(r))
    BY <1>1, <1>4
  <2>2. /\ Good(p, Bytes) /\ p.err = FALSE /\ p.stack = r.stack /\ p.reply = r.reply
        /\ Rest(p) = SubSeq(Rest(r), 1 + 1, Len(Rest(r)))
    BY <1>1, <2>1, PastIsGood
  <2>3. Rest(p) = Tail(Rest(r))
    <3>1. Rest(p) = SubSeq(Rest(r), 2, Len(Rest(r)))
      BY <2>2
    <3>2. Tail(Rest(r)) = SubSeq(Rest(r), 2, Len(Rest(r)))
      BY <1>1, <1>4, TailIsSubSeq
    <3>3. QED
      BY <3>1, <3>2
  <2>4. type \in Types /\ type # "none"
    <3>1. type \in {TypeOfByte[b] : b \in DOMAIN TypeOfByte}
      BY <1>4
    <3>2. \A b \in DOMAIN TypeOfByte : TypeOfByte[b] # "none"
      BY DEF TypeOfByte
    <3>3. QED
      BY <1>4, <3>1, <3>2 DEF Types
  <2>5. /\ ReadType(r) = Done([r EXCEPT !.pos = @ + 1,
                               !.stack = [@ EXCEPT ![Len(@)].type = type]])
    BY <1>4 DEF ReadType
  <2>6. [r EXCEPT !.pos = @ + 1, !.stack = [@ EXCEPT ![Len(@)].type = type]] = t
    <3> HIDE DEF type
    <3>1. [r EXCEPT !.pos = @ + 1, !.stack = [@ EXCEPT ![Len(@)].type = type]]
            = [[r EXCEPT !.pos = @ + 1] EXCEPT !.stack = new]
      <4> DEFINE q == r.pos + 1
      <4> HIDE DEF new, q
      <4>1. [r EXCEPT !.pos = q, !.stack = new] = [[r EXCEPT !.pos = q] EXCEPT !.stack = new]
        BY <1>1 DEF Fields
      <4>2. QED
        BY <4>1 DEF new, q
    <3>2. QED
      BY <3>1 DEF Past
  <2>7. Typed(r) = t
    BY <2>2 DEF Typed
  <2>8. /\ r.stack \in Seq(Task) /\ n \in 1..STACK /\ STACK \in Nat /\ r.stack[n] \in Task
        /\ r.stack[n].type = "none"
    BY CurrentIs, ReaderAssumption
  <2> HIDE DEF type
  <2>9. top \in Task /\ top.type = type /\ top.idx = r.stack[n].idx
    BY <2>4, <2>8 DEF Task
  <2>10. new = [r.stack EXCEPT ![n] = top]
    OBVIOUS
  <2> HIDE DEF top, new
  <2>11. /\ new \in Seq(Task) /\ Len(new) = n /\ new[n] = top
         /\ \A d \in 1..n : d # n => new[d] = r.stack[d]
    BY <2>8, <2>9, <2>10
  <2>12. Nested(new)
    <3>1. ASSUME NEW d \in 2..Len(new)
          PROVE  new[d - 1].type = "ARRAY" /\ new[d].idx \in 0..(new[d - 1].elements - 1)
      <4>1. d \in 2..n /\ d - 1 \in 1..n /\ d - 1 # n /\ d \in 1..n
        BY <2>8, <2>11
      <4>2. new[d - 1] = r.stack[d - 1] /\ new[d].idx = r.stack[d].idx
        BY <2>9, <2>11, <4>1
      <4>3. QED
        BY <1>1, <4>1, <4>2 DEF Nested
    <3>2. QED
      BY <2>8, <2>11, <3>1 DEF Nested
  <2> HIDE DEF p
  <2>13. /\ Fields(t)
         /\ t.err = p.err /\ t.buf = p.buf /\ t.pos = p.pos /\ t.len = p.len
         /\ t.stack = new /\ t.reply = p.reply
    BY <2>2, <2>11, SetStack DEF Good
  <2> HIDE DEF t
  <2>14. Good(t, Bytes) /\ Rest(t) = Rest(p)
    BY <2>2, <2>12, <2>13 DEF Good, Rest
  <2>15. new # <<>>
    BY <2>8, <2>11
  <2>16. Ready(t, Bytes) /\ Current(t).type # "none"
    <3>1. Ready(t, Bytes)
      BY <2>2, <2>13, <2>14, <2>15 DEF Ready
    <3>2. Current(t) = t.stack[Len(t.stack)]
      BY <3>1, CurrentIs
    <3>3. QED
      BY <2>4, <2>9, <2>11, <2>13, <3>1, <3>2
  <2>17. QED
    BY <1>4, <2>2, <2>3, <2>5, <2>6, <2>7, <2>13, <2>14, <2>16 DEF new, type
<1>5. QED
  BY <1>2, <1>3, <1>4

\* An item that is complete takes bytes; one that is not leaves the reader in
\* the middle of the reply; one that is bad ends it.
LEMMA ItemKeeps ==
    ASSUME NEW Bytes, NEW r, Ready(r, Bytes)
    PROVE  Kept(processItem(r), r, Bytes)
<1>1. /\ Rest(r) \in Seq(Bytes) /\ Len(Rest(r)) \in Nat /\ Good(r, Bytes) /\ r.err = FALSE
  BY RestIs DEF Ready
<1>2. processItem(r) = ProcessTyped(ReadType(r))
  BY DEF processItem
<1>3. CASE Current(r).type # "none"
  <2>1. ReadType(r) = Done(r)
    BY <1>3 DEF ReadType
  <2>2. QED
    BY <1>2, <1>3, <2>1, TypedIs, CarryKeeps
<1>4. CASE Current(r).type = "none"
  <2>1. CASE ReadType(r) = Stop(r)
    <3>1. processItem(r) = Stop(r)
      BY <1>2, <2>1 DEF ProcessTyped, Stop
    <3>2. QED
      BY <1>4, <3>1, KeptStop DEF Waits
  <2>2. CASE ReadType(r) = Fail(r)
    <3>1. processItem(r) = Fail(r)
      BY <1>2, <2>2, FailIsGood DEF ProcessTyped
    <3>2. QED
      BY <3>1, KeptFail
  <2>3. CASE /\ Rest(r) # <<>>
             /\ ReadType(r) = Done(Typed(r))
             /\ Ready(Typed(r), Bytes) /\ Current(Typed(r)).type # "none"
             /\ Rest(Typed(r)) = Tail(Rest(r))
    <3> DEFINE t == Typed(r)
    <3>1. Kept(Carry(t, Decision(t)), t, Bytes)
      BY <2>3, CarryKeeps
    <3>2. processItem(r) = Carry(t, Decision(t))
      BY <1>2, <2>3, TypedIs
    <3>3. Len(Rest(t)) < Len(Rest(r)) /\ Len(Rest(t)) \in Nat
      BY <1>1, <2>3
    <3> DEFINE item == Carry(t, Decision(t))
    <3> HIDE DEF t, item
    <3>4. Kept(item, t, Bytes) /\ processItem(r) = item
      BY <3>1, <3>2 DEF item
    <3>5. Good(item.r, Bytes) /\ Len(Rest(item.r)) \in Nat
      BY <3>4, RestIs DEF Kept
    <3>6. QED
      BY <1>1, <3>3, <3>4, <3>5 DEF Kept
  <2>4. QED
    BY <1>4, <2>1, <2>2, <2>3, ReadTypeIs
<1>5. QED
  BY <1>3, <1>4
-----------------------------------------------------------------------------
(* The loop over the items.                                                *)

AfterItem(item) ==
    IF item.ok /\ item.r.stack # <<>> THEN processItem(item.r) ELSE item

\* The first n items.
FirstItems(f, n, r) ==
    /\ f = [k \in 0..n |-> f[k]]
    /\ f[0] = Done(r)
    /\ \A k \in 0..(n - 1) : f[k + 1] = AfterItem(f[k])

LEMMA FirstItemsExist ==
    ASSUME NEW r
    PROVE  \A n \in Nat : \E f : FirstItems(f, n, r)
<1> DEFINE S == {n \in Nat : \E f : FirstItems(f, n, r)}
<1>1. 0 \in S
  <2> DEFINE f == [k \in 0..0 |-> Done(r)]
  <2>1. f = [k \in 0..0 |-> f[k]] /\ f[0] = Done(r)
    OBVIOUS
  <2>2. \A k \in 0..(0 - 1) : FALSE
    OBVIOUS
  <2> HIDE DEF f
  <2>3. FirstItems(f, 0, r)
    BY <2>1, <2>2 DEF FirstItems
  <2>4. QED
    BY <2>3
<1>2. ASSUME NEW n \in Nat, n \in S
      PROVE  n + 1 \in S
  <2>1. PICK f : FirstItems(f, n, r)
    BY <1>2
  <2> DEFINE g == [k \in 0..(n + 1) |-> IF k <= n THEN f[k] ELSE AfterItem(f[n])]
  <2>2. g = [k \in 0..(n + 1) |-> g[k]]
    OBVIOUS
  <2>3. g[0] = Done(r)
    BY <2>1 DEF FirstItems
  <2>4. ASSUME NEW k \in 0..((n + 1) - 1)
        PROVE  g[k + 1] = AfterItem(g[k])
    <3>1. k \in 0..(n + 1) /\ k + 1 \in 0..(n + 1) /\ k <= n
      OBVIOUS
    <3>2. g[k] = f[k]
      BY <3>1
    <3>3. CASE k = n
      <4>1. ~(k + 1 <= n)
        BY <3>3
      <4>2. g[k + 1] = AfterItem(f[n])
        BY <3>1, <4>1
      <4>3. QED
        BY <3>2, <3>3, <4>2
    <3>4. CASE k # n
      <4>1. k + 1 <= n /\ k \in 0..(n - 1)
        BY <3>1, <3>4
      <4>2. g[k + 1] = f[k + 1]
        BY <3>1, <4>1
      <4>3. f[k + 1] = AfterItem(f[k])
        BY <2>1, <4>1 DEF FirstItems
      <4>4. QED
        BY <3>2, <4>2, <4>3
    <3>5. QED
      BY <3>3, <3>4
  <2> HIDE DEF g
  <2>5. FirstItems(g, n + 1, r)
    BY <2>2, <2>3, <2>4 DEF FirstItems
  <2>6. QED
    BY <2>5
<1> HIDE DEF S
<1>3. \A n \in Nat : n \in S
  BY <1>1, <1>2, SetInduction
<1>4. QED
  BY <1>3 DEF S

LEMMA FirstItemsAgree ==
    ASSUME NEW r, NEW n \in Nat, NEW m \in Nat, NEW f, NEW g,
           FirstItems(f, n, r), FirstItems(g, m, r)
    PROVE  \A k \in Nat : k <= n /\ k <= m => f[k] = g[k]
<1> DEFINE S == {k \in Nat : k <= n /\ k <= m => f[k] = g[k]}
<1>1. 0 \in S
  BY DEF FirstItems
<1>2. ASSUME NEW k \in Nat, k \in S
      PROVE  k + 1 \in S
  <2>1. SUFFICES ASSUME k + 1 <= n, k + 1 <= m
                 PROVE  f[k + 1] = g[k + 1]
    OBVIOUS
  <2>2. k \in 0..(n - 1) /\ k \in 0..(m - 1) /\ k <= n /\ k <= m
    BY <2>1
  <2>3. f[k] = g[k]
    BY <1>2, <2>2
  <2>4. f[k + 1] = AfterItem(f[k]) /\ g[k + 1] = AfterItem(g[k])
    BY <2>2 DEF FirstItems
  <2>5. QED
    BY <2>3, <2>4
<1> HIDE DEF S
<1>3. \A k \in Nat : k \in S
  BY <1>1, <1>2, SetInduction
<1>4. QED
  BY <1>3 DEF S

\* There is such a loop, and Items is it.
LEMMA ItemsAre ==
    ASSUME NEW r
    PROVE  /\ Items(r)[0] = Done(r)
           /\ \A n \in Nat :
                Items(r)[n + 1] =
                    IF Items(r)[n].ok /\ Items(r)[n].r.stack # <<>>
                    THEN processItem(Items(r)[n].r) ELSE Items(r)[n]
<1> DEFINE Some(n) == CHOOSE f : FirstItems(f, n, r)
           F == [n \in Nat |-> Some(n)[n]]
           Body(a, n) == IF n = 0 THEN Done(r)
                         ELSE IF a[n - 1].ok /\ a[n - 1].r.stack # <<>>
                              THEN processItem(a[n - 1].r) ELSE a[n - 1]
           Is(a) == a = [n \in Nat |-> Body(a, n)]
<1>1. \A n \in Nat : FirstItems(Some(n), n, r)
  BY FirstItemsExist
<1> HIDE DEF Some
<1>2. F[0] = Done(r)
  BY <1>1 DEF FirstItems
<1>3. ASSUME NEW n \in Nat, n # 0
      PROVE  F[n] = AfterItem(F[n - 1])
  <2> DEFINE f == Some(n)
             g == Some(n - 1)
  <2>1. n - 1 \in Nat /\ n - 1 <= n /\ n - 1 <= n - 1 /\ n - 1 \in 0..(n - 1)
        /\ (n - 1) + 1 = n
    BY <1>3
  <2>2. FirstItems(f, n, r) /\ FirstItems(g, n - 1, r)
    BY <1>1, <2>1
  <2>3. F[n] = f[n] /\ F[n - 1] = g[n - 1]
    BY <2>1
  <2> HIDE DEF f, g
  <2>4. f[n - 1] = g[n - 1]
    <3> DEFINE m == n - 1
    <3>1. m \in Nat /\ m <= n /\ m <= m /\ FirstItems(g, m, r)
      BY <2>1, <2>2
    <3> HIDE DEF m
    <3>2. f[m] = g[m]
      BY <2>2, <3>1, FirstItemsAgree
    <3>3. QED
      BY <3>2 DEF m
  <2>5. f[n] = AfterItem(f[n - 1])
    <3>1. f[(n - 1) + 1] = AfterItem(f[n - 1])
      BY <2>1, <2>2 DEF FirstItems
    <3>2. QED
      BY <2>1, <3>1
  <2> HIDE DEF F
  <2>6. QED
    BY <2>3, <2>4, <2>5
<1>4. Is(F)
  <2>1. \A n \in Nat : F[n] = Body(F, n)
    <3> HIDE DEF F
    <3>1. QED
      BY <1>2, <1>3 DEF AfterItem
  <2>2. F = [n \in Nat |-> F[n]]
    OBVIOUS
  <2> HIDE DEF F
  <2>3. QED
    BY <2>1, <2>2
<1>5. Items(r) = CHOOSE a : Is(a)
  BY DEF Items
<1>6. Is(Items(r))
  <2> HIDE DEF Is, F
  <2>1. QED
    BY <1>4, <1>5
<1> HIDE DEF F
<1>7. \A n \in Nat : Items(r)[n] = Body(Items(r), n)
  <2> DEFINE a == Items(r)
  <2>1. a = [n \in Nat |-> Body(a, n)]
    BY <1>6
  <2> HIDE DEF a, Body
  <2>2. \A n \in Nat : a[n] = Body(a, n)
    BY <2>1
  <2>3. QED
    BY <2>2 DEF a
<1>8. Items(r)[0] = Done(r)
  BY <1>7
<1>9. ASSUME NEW n \in Nat
      PROVE  Items(r)[n + 1] =
                IF Items(r)[n].ok /\ Items(r)[n].r.stack # <<>>
                THEN processItem(Items(r)[n].r) ELSE Items(r)[n]
  <2>1. n + 1 \in Nat /\ n + 1 # 0 /\ (n + 1) - 1 = n
    OBVIOUS
  <2>2. Items(r)[n + 1] = Body(Items(r), n + 1)
    BY <1>7, <2>1
  <2>3. QED
    BY <2>1, <2>2
<1>10. QED
  BY <1>8, <1>9

\* The loop goes on only as long as there are bytes: each item takes some.
LEMMA FuelLasts ==
    ASSUME NEW Bytes, NEW r, Ready(r, Bytes)
    PROVE  \A n \in Nat :
             LET item == Items(r)[n] IN
             item.ok /\ item.r.stack # <<>> =>
                 Ready(item.r, Bytes) /\ Len(Rest(item.r)) + n <= Len(Rest(r))
<1> DEFINE OfItem(n) == LET item == Items(r)[n] IN
                    item.ok /\ item.r.stack # <<>> =>
                        Ready(item.r, Bytes) /\ Len(Rest(item.r)) + n <= Len(Rest(r))
           S == {n \in Nat : OfItem(n)}
<1>1. Len(Rest(r)) \in Nat
  BY RestIs DEF Ready
<1>2. 0 \in S
  <2>1. Items(r)[0].r = r
    <3>1. Items(r)[0] = Done(r)
      BY ItemsAre
    <3>2. QED
      BY <3>1 DEF Done
  <2>2. Len(Rest(r)) + 0 <= Len(Rest(r))
    BY <1>1
  <2>3. QED
    BY <2>1, <2>2
<1>3. ASSUME NEW n \in Nat, n \in S
      PROVE  n + 1 \in S
  <2> DEFINE last == Items(r)[n]
             next == Items(r)[n + 1]
  <2>1. next = IF last.ok /\ last.r.stack # <<>> THEN processItem(last.r) ELSE last
    BY ItemsAre
  <2>2. SUFFICES ASSUME next.ok, next.r.stack # <<>>
                 PROVE  Ready(next.r, Bytes) /\ Len(Rest(next.r)) + (n + 1) <= Len(Rest(r))
    OBVIOUS
  <2>3. last.ok /\ last.r.stack # <<>> /\ next = processItem(last.r)
    BY <2>1, <2>2
  <2>4. Ready(last.r, Bytes) /\ Len(Rest(last.r)) + n <= Len(Rest(r))
    BY <1>3, <2>3
  <2> HIDE DEF last, next
  <2>5. Kept(next, last.r, Bytes)
    BY <2>3, <2>4, ItemKeeps
  <2>6. /\ Good(next.r, Bytes) /\ next.r.err = FALSE
        /\ Len(Rest(next.r)) < Len(Rest(last.r))
    BY <2>2, <2>5 DEF Kept
  <2>7. Len(Rest(next.r)) \in Nat /\ Len(Rest(last.r)) \in Nat
    BY <2>4, <2>6, RestIs DEF Ready
  <2> DEFINE a == Len(Rest(next.r))
             b == Len(Rest(last.r))
             c == Len(Rest(r))
  <2>8. a \in Nat /\ b \in Nat /\ c \in Nat /\ a < b /\ b + n <= c
    BY <1>1, <2>4, <2>6, <2>7
  <2> HIDE DEF a, b, c
  <2>9. a + (n + 1) <= c
    BY <2>8
  <2>10. QED
    BY <2>2, <2>6, <2>9 DEF Ready, a, c
<1> HIDE DEF S
<1>4. \A n \in Nat : n \in S
  BY <1>2, <1>3, SetInduction
<1>5. QED
  BY <1>4 DEF S

\* A loop that has ended has ended.
LEMMA LoopEnds ==
    ASSUME NEW r, NEW n \in Nat, ~(Items(r)[n].ok /\ Items(r)[n].r.stack # <<>>)
    PROVE  \A k \in Nat : Items(r)[n + k] = Items(r)[n]
<1> DEFINE S == {k \in Nat : Items(r)[n + k] = Items(r)[n]}
<1>1. 0 \in S
  BY n + 0 = n
<1>2. ASSUME NEW k \in Nat, k \in S
      PROVE  k + 1 \in S
  <2>1. n + k \in Nat /\ n + (k + 1) = (n + k) + 1
    OBVIOUS
  <2>2. Items(r)[n + k] = Items(r)[n]
    BY <1>2
  <2>3. Items(r)[(n + k) + 1] = Items(r)[n + k]
    BY <2>1, <2>2, ItemsAre
  <2>4. QED
    BY <2>1, <2>2, <2>3
<1> HIDE DEF S
<1>3. \A k \in Nat : k \in S
  BY <1>1, <1>2, SetInduction
<1>4. QED
  BY <1>3 DEF S

LEMMA EnoughItems ==
    ASSUME NEW Bytes, NEW r, Ready(r, Bytes), NEW n \in Nat, n > Len(Rest(r))
    PROVE  processItems(r) = Items(r)[n].r
<1> DEFINE m == Len(Rest(r)) + 1
<1>1. Len(Rest(r)) \in Nat
  BY RestIs DEF Ready
<1>2. ~(Items(r)[m].ok /\ Items(r)[m].r.stack # <<>>)
  <2>1. SUFFICES ASSUME Items(r)[m].ok /\ Items(r)[m].r.stack # <<>>
                 PROVE  FALSE
    OBVIOUS
  <2>2. m \in Nat
    BY <1>1
  <2> DEFINE q == Items(r)[m].r
  <2>3. Ready(q, Bytes) /\ Len(Rest(q)) + m <= Len(Rest(r))
    BY <2>1, <2>2, FuelLasts
  <2> HIDE DEF q
  <2>4. Len(Rest(q)) \in Nat
    BY <2>3, RestIs DEF Ready
  <2>5. QED
    BY <1>1, <2>3, <2>4
<1>3. m \in Nat /\ n - m \in Nat /\ m + (n - m) = n
  BY <1>1
<1> HIDE DEF m
<1>4. Items(r)[m + (n - m)] = Items(r)[m]
  <2> DEFINE k == n - m
  <2>1. k \in Nat
    BY <1>3
  <2> HIDE DEF k
  <2>2. Items(r)[m + k] = Items(r)[m]
    BY <1>2, <1>3, <2>1, LoopEnds
  <2>3. QED
    BY <2>2 DEF k
<1>5. QED
  BY <1>3, <1>4 DEF processItems, m

\* The loop takes one item, and goes on with the next.
LEMMA ProcessIs ==
    ASSUME NEW Bytes, NEW r, Ready(r, Bytes)
    PROVE  LET item == processItem(r) IN
           processItems(r) = IF item.ok /\ item.r.stack # <<>>
                             THEN processItems(item.r) ELSE item.r
<1> DEFINE item == processItem(r)
           m == Len(Rest(r))
<1>1. m \in Nat
  BY RestIs DEF Ready
<1>2. Items(r)[1] = item
  <2>1. Items(r)[0] = Done(r) /\ Done(r).ok = TRUE /\ Done(r).r = r /\ r.stack # <<>>
    BY ItemsAre DEF Done, Ready
  <2>2. Items(r)[0 + 1] = processItem(Items(r)[0].r)
    BY <2>1, ItemsAre
  <2>3. QED
    BY <2>1, <2>2
<1>3. Kept(item, r, Bytes)
  BY ItemKeeps
<1> HIDE DEF item
<1>4. CASE item.ok /\ item.r.stack # <<>>
  <2> DEFINE q == item.r
             S == {n \in Nat : /\ Items(r)[n + 1].ok = Items(q)[n].ok
                               /\ Items(r)[n + 1].r = Items(q)[n].r}
  <2>1. item.ok = TRUE
    BY <1>3, <1>4 DEF Kept
  <2>2. 0 \in S
    <3> HIDE DEF q
    <3>1. Items(q)[0] = Done(q)
      BY ItemsAre
    <3>2. Items(q)[0].ok = TRUE /\ Items(q)[0].r = q
      BY <3>1 DEF Done
    <3>3. Items(r)[0 + 1].ok = TRUE /\ Items(r)[0 + 1].r = q
      BY <1>2, <2>1 DEF q
    <3>4. QED
      BY <3>2, <3>3
  <2>3. ASSUME NEW n \in Nat, n \in S
        PROVE  n + 1 \in S
    <3> DEFINE a == Items(r)[n + 1]
               b == Items(q)[n]
    <3>1. a.ok = b.ok /\ a.r = b.r
      BY <2>3
    <3>2. Items(r)[(n + 1) + 1] =
            IF a.ok /\ a.r.stack # <<>> THEN processItem(a.r) ELSE a
      BY ItemsAre
    <3>3. Items(q)[n + 1] = IF b.ok /\ b.r.stack # <<>> THEN processItem(b.r) ELSE b
      BY ItemsAre
    <3> HIDE DEF a, b
    <3>4. /\ Items(r)[(n + 1) + 1].ok = Items(q)[n + 1].ok
          /\ Items(r)[(n + 1) + 1].r = Items(q)[n + 1].r
      BY <3>1, <3>2, <3>3
    <3>5. QED
      BY <3>4
  <2>4. \A n \in Nat : n \in S
    <3> HIDE DEF S
    <3>1. QED
      BY <2>2, <2>3, SetInduction
  <2>5. Items(r)[m + 1].r = Items(q)[m].r
    BY <1>1, <2>4
  <2>6. Ready(q, Bytes) /\ m > Len(Rest(q))
    <3>1. Good(q, Bytes) /\ q.err = FALSE /\ Len(Rest(q)) < m
      BY <1>3, <1>4 DEF Kept
    <3>2. Len(Rest(q)) \in Nat
      BY <3>1, RestIs
    <3>3. QED
      BY <1>1, <1>4, <3>1, <3>2 DEF Ready
  <2>7. processItems(q) = Items(q)[m].r
    <3> HIDE DEF q, m
    <3>1. QED
      BY <1>1, <2>6, EnoughItems
  <2>8. processItems(r) = Items(r)[m + 1].r
    BY DEF processItems
  <2>9. QED
    BY <1>4, <2>5, <2>7, <2>8 DEF item
<1>5. CASE ~(item.ok /\ item.r.stack # <<>>)
  <2>1. Items(r)[1 + m] = Items(r)[1]
    <3> HIDE DEF m
    <3>1. QED
      BY <1>1, <1>2, <1>5, LoopEnds
  <2>2. 1 + m = m + 1
    BY <1>1
  <2>3. QED
    BY <1>2, <1>5, <2>1, <2>2 DEF processItems, item
<1>6. QED
  BY <1>4, <1>5

\* What is left of a reader when the items have been taken.
Taken(q, Bytes) ==
    /\ Good(q, Bytes)
    /\ q.err => q.len = 0 /\ q.stack = <<>> /\ q.reply = NoReply
    /\ ~q.err /\ q.stack # <<>> => Waits(q)

LEMMA ProcessKeeps ==
    ASSUME NEW Bytes, NEW r, Ready(r, Bytes)
    PROVE  Taken(processItems(r), Bytes)
<1> DEFINE S == {n \in Nat : \A q : Ready(q, Bytes) /\ Len(Rest(q)) < n
                                      => Taken(processItems(q), Bytes)}
<1>1. 0 \in S
  <2>1. ASSUME NEW q, Ready(q, Bytes)
        PROVE  ~(Len(Rest(q)) < 0)
    <3>1. Len(Rest(q)) \in Nat
      BY <2>1, RestIs DEF Ready
    <3>2. QED
      BY <3>1
  <2>2. QED
    BY <2>1
<1>2. ASSUME NEW n \in Nat, n \in S
      PROVE  n + 1 \in S
  <2>1. ASSUME NEW q, Ready(q, Bytes), Len(Rest(q)) < n + 1
        PROVE  Taken(processItems(q), Bytes)
    <3> DEFINE item == processItem(q)
    <3>1. Kept(item, q, Bytes)
      BY <2>1, ItemKeeps
    <3>2. processItems(q) = IF item.ok /\ item.r.stack # <<>>
                            THEN processItems(item.r) ELSE item.r
      BY <2>1, ProcessIs
    <3> HIDE DEF item
    <3>3. CASE item.ok /\ item.r.stack # <<>>
      <4>1. Good(item.r, Bytes) /\ item.r.err = FALSE /\ Len(Rest(item.r)) < Len(Rest(q))
        BY <3>1, <3>3 DEF Kept
      <4>2. Len(Rest(item.r)) \in Nat /\ Len(Rest(q)) \in Nat
        BY <2>1, <4>1, RestIs DEF Ready
      <4>3. Len(Rest(item.r)) < n
        BY <2>1, <4>1, <4>2
      <4>4. Taken(processItems(item.r), Bytes)
        BY <1>2, <3>3, <4>1, <4>3 DEF Ready
      <4>5. QED
        BY <3>2, <3>3, <4>4
    <3>4. CASE ~(item.ok /\ item.r.stack # <<>>)
      BY <3>1, <3>2, <3>4 DEF Kept, Taken
    <3>5. QED
      BY <3>3, <3>4
  <2>2. QED
    BY <2>1
<1>3. \A n \in Nat : n \in S
  <2> HIDE DEF S
  <2>1. QED
    BY <1>1, <1>2, SetInduction
<1>4. Len(Rest(r)) \in Nat /\ Len(Rest(r)) < Len(Rest(r)) + 1 /\ Len(Rest(r)) + 1 \in Nat
  BY RestIs DEF Ready
<1>5. QED
  BY <1>3, <1>4
-----------------------------------------------------------------------------
(* What the reader offers.                                                 *)

LEMMA SetBuf ==
    ASSUME NEW r, Fields(r), NEW b
    PROVE  LET t == [r EXCEPT !.buf = b] IN
           /\ Fields(t)
           /\ t.err = r.err /\ t.buf = b /\ t.pos = r.pos /\ t.len = r.len
           /\ t.stack = r.stack /\ t.reply = r.reply
<1> DEFINE t == [r EXCEPT !.buf = b]
<1>1. t = [err |-> r.err, buf |-> b, pos |-> r.pos, len |-> r.len,
           stack |-> r.stack, reply |-> r.reply]
  BY DEF Fields
<1>2. r.err \in BOOLEAN /\ r.len \in Nat /\ r.pos \in Nat /\ r.stack \in Seq(Task)
  BY DEF Fields
<1> HIDE DEF t
<1>3. QED
  BY <1>1, <1>2 DEF Fields, t

LEMMA SetLen ==
    ASSUME NEW r, Fields(r), NEW n \in Nat
    PROVE  LET t == [r EXCEPT !.len = n] IN
           /\ Fields(t)
           /\ t.err = r.err /\ t.buf = r.buf /\ t.pos = r.pos /\ t.len = n
           /\ t.stack = r.stack /\ t.reply = r.reply
<1> DEFINE t == [r EXCEPT !.len = n]
<1>1. t = [err |-> r.err, buf |-> r.buf, pos |-> r.pos, len |-> n,
           stack |-> r.stack, reply |-> r.reply]
  BY DEF Fields
<1>2. r.err \in BOOLEAN /\ r.len \in Nat /\ r.pos \in Nat /\ r.stack \in Seq(Task)
  BY DEF Fields
<1> HIDE DEF t
<1>3. QED
  BY <1>1, <1>2 DEF Fields, t

SetAll(r, b, p, n) == [r EXCEPT !.buf = b, !.pos = p, !.len = n]

LEMMA SetBytes ==
    ASSUME NEW r, Fields(r), NEW b, NEW p \in Nat, NEW n \in Nat
    PROVE  LET t == SetAll(r, b, p, n) IN
           /\ Fields(t)
           /\ t.err = r.err /\ t.buf = b /\ t.pos = p /\ t.len = n
           /\ t.stack = r.stack /\ t.reply = r.reply
<1> DEFINE t == SetAll(r, b, p, n)
           u == [r EXCEPT !.buf = b]
           v == [u EXCEPT !.pos = p]
           w == [v EXCEPT !.len = n]
<1>1. t = w
  BY DEF Fields, SetAll
<1>2. /\ Fields(u)
      /\ u.err = r.err /\ u.buf = b /\ u.stack = r.stack /\ u.reply = r.reply
  BY SetBuf
<1> HIDE DEF u
<1>3. /\ Fields(v)
      /\ v.err = u.err /\ v.buf = u.buf /\ v.pos = p /\ v.stack = u.stack /\ v.reply = u.reply
  BY <1>2, SetPos
<1> HIDE DEF v
<1>4. /\ Fields(w)
      /\ w.err = v.err /\ w.buf = v.buf /\ w.pos = v.pos /\ w.len = n
      /\ w.stack = v.stack /\ w.reply = v.reply
  BY <1>3, SetLen
<1> HIDE DEF w, t
<1>5. QED
  BY <1>1, <1>2, <1>3, <1>4 DEF t

\* The bytes from some place on, when there come more.
LEMMA RestOfCat ==
    ASSUME NEW Bytes, NEW s \in Seq(Bytes), NEW x \in Seq(Bytes), NEW n \in 0..Len(s)
    PROVE  SubSeq(s \o x, n + 1, Len(s \o x)) = SubSeq(s, n + 1, Len(s)) \o x
<1> DEFINE y == s \o x
           a == Len(s)
           b == Len(x)
           p == SubSeq(y, n + 1, Len(y))
           q == SubSeq(s, n + 1, Len(s))
           z == q \o x
<1>1. a \in Nat /\ b \in Nat /\ n \in 0..a
  OBVIOUS
<1>2. y \in Seq(Bytes) /\ Len(y) = a + b
      /\ \A i \in 1..(a + b) : y[i] = IF i <= a THEN s[i] ELSE x[i - a]
  OBVIOUS
<1>3. q \in Seq(Bytes) /\ Len(q) = a - n /\ \A i \in 1..(a - n) : q[i] = s[n + i]
  OBVIOUS
<1>4. x \in Seq(Bytes) /\ Len(x) = b
  OBVIOUS
<1> HIDE DEF y, q, a, b
<1>5. p \in Seq(Bytes) /\ Len(p) = (a + b) - n /\ \A i \in 1..((a + b) - n) : p[i] = y[n + i]
  <2>1. n + 1 \in Int /\ Len(y) \in Int /\ Len(y) = a + b
    BY <1>1, <1>2
  <2>2. \A i \in (n + 1)..Len(y) : y[i] \in Bytes
    <3>1. \A i \in 1..Len(y) : y[i] \in Bytes
      BY <1>2
    <3>2. QED
      BY <1>1, <2>1, <3>1
  <2>3. /\ p \in Seq(Bytes) /\ Len(p) = IF n + 1 <= Len(y) THEN Len(y) - (n + 1) + 1 ELSE 0
        /\ \A i \in 1..(Len(y) - (n + 1) + 1) : p[i] = y[(n + 1) + i - 1]
    <3> HIDE DEF p
    <3>1. p = SubSeq(y, n + 1, Len(y))
      BY DEF p
    <3>2. QED
      BY <2>1, <2>2, <3>1, SubSeqProperties
  <2>4. Len(y) - (n + 1) + 1 = (a + b) - n
    BY <1>1, <2>1
  <2>5. \A i \in 1..((a + b) - n) : (n + 1) + i - 1 = n + i
    BY <1>1
  <2>6. Len(p) = (a + b) - n
    BY <1>1, <2>1, <2>3
  <2> HIDE DEF p
  <2>7. QED
    BY <2>3, <2>4, <2>5, <2>6
<1>6. z \in Seq(Bytes) /\ Len(z) = (a - n) + b
      /\ \A i \in 1..((a - n) + b) : z[i] = IF i <= a - n THEN q[i] ELSE x[i - (a - n)]
  <2>1. z \in Seq(Bytes) /\ Len(z) = Len(q) + Len(x)
        /\ \A i \in 1..(Len(q) + Len(x)) : z[i] = IF i <= Len(q) THEN q[i] ELSE x[i - Len(q)]
    <3> DEFINE T == Seq(Bytes)
    <3>1. q \in T /\ x \in T
      BY <1>3, <1>4
    <3>2. QED
      BY <3>1
  <2> HIDE DEF z
  <2>2. QED
    BY <1>1, <1>3, <1>4, <2>1
<1> HIDE DEF p, z
<1>7. ASSUME NEW i \in 1..((a + b) - n)
      PROVE  p[i] = z[i]
  <2>1. n + i \in 1..(a + b) /\ i \in 1..((a - n) + b) /\ (n + i) - a = i - (a - n)
        /\ (n + i <= a <=> i <= a - n)
    BY <1>1
  <2>2. p[i] = IF n + i <= a THEN s[n + i] ELSE x[(n + i) - a]
    BY <1>2, <1>5, <2>1
  <2>3. z[i] = IF i <= a - n THEN q[i] ELSE x[i - (a - n)]
    BY <1>6, <2>1
  <2>4. i <= a - n => q[i] = s[n + i]
    BY <1>1, <1>3
  <2>5. QED
    BY <2>1, <2>2, <2>3, <2>4
<1>8. (a + b) - n = (a - n) + b
  BY <1>1
<1>9. Len(p) = Len(z) /\ \A i \in 1..Len(p) : p[i] = z[i]
  BY <1>5, <1>6, <1>7, <1>8
<1>10. p = z
  BY <1>5, <1>6, <1>9, SeqEqual
<1>11. QED
  BY <1>10 DEF p, z, q, y

LEMMA FeedIs ==
    ASSUME NEW Bytes, NEW r, Good(r, Bytes), NEW bytes \in Seq(Bytes)
    PROVE  LET t == redisReaderFeed(r, bytes) IN
           /\ Good(t, Bytes)
           /\ t.err = r.err /\ t.stack = r.stack /\ t.reply = r.reply
           /\ r.err => t = r
           /\ r.err = FALSE => Rest(t) = Rest(r) \o bytes
<1>1. r.err \in BOOLEAN /\ Fields(r) /\ Nested(r.stack) /\ Sound(r.buf, Bytes)
      /\ r.len = Len(r.buf.buf) /\ r.buf.buf \in Seq(Bytes)
  BY DEF Good, Fields, Sound, IsSds
<1>2. r.len \in Nat /\ r.pos \in Nat /\ r.pos <= r.len
  BY RestIs
<1>3. CASE r.err
  BY <1>3 DEF redisReaderFeed, SetAll
<1>4. CASE r.err = FALSE
  <2> DEFINE anew == r.len = 0 /\ sdsavail(r.buf) > REDIS_READER_MAX_BUF
             old == IF anew THEN sdsempty ELSE r.buf
             buf == sdscatlen(old, bytes)
             pos == IF anew THEN 0 ELSE r.pos
             len == sdslen(buf)
             t == SetAll(r, buf, pos, len)
  <2>1. redisReaderFeed(r, bytes) = t
    BY <1>4 DEF redisReaderFeed, SetAll
  <2>2. Sound(sdsempty, Bytes) /\ sdsempty.buf = <<>>
    <3>1. <<>> \in Seq(Bytes)
      OBVIOUS
    <3>2. QED
      BY <3>1, NewIsSound DEF sdsempty
  <2>3. Sound(old, Bytes) /\ old.buf = r.buf.buf
    <3>1. r.len = 0 => r.buf.buf = <<>>
      <4> DEFINE s == r.buf.buf
      <4>1. s \in Seq(Bytes) /\ (r.len = 0 => Len(s) = 0)
        BY <1>1
      <4> HIDE DEF s
      <4>2. Len(s) = 0 => s = <<>>
        BY <4>1
      <4>3. QED
        BY <4>1, <4>2 DEF s
    <3>2. QED
      BY <1>1, <2>2, <3>1
  <2>4. pos = r.pos
    BY <1>2
  <2> HIDE DEF anew, old, pos
  <2>5. Sound(buf, Bytes) /\ buf.buf = r.buf.buf \o bytes
    BY <2>3, CatIsSound
  <2> HIDE DEF buf
  <2>6. len = Len(buf.buf) /\ len = r.len + Len(bytes) /\ len \in Nat
    BY <1>1, <1>2, <2>5 DEF sdslen
  <2> HIDE DEF len
  <2>7. /\ Fields(t)
        /\ t.err = r.err /\ t.buf = buf /\ t.pos = r.pos /\ t.len = len
        /\ t.stack = r.stack /\ t.reply = r.reply
    <3>1. Fields(r) /\ pos \in Nat /\ len \in Nat
      BY <1>1, <1>2, <2>4, <2>6
    <3> HIDE DEF pos, t
    <3>2. t = SetAll(r, buf, pos, len)
      BY DEF t
    <3>3. /\ Fields(t)
          /\ t.err = r.err /\ t.buf = buf /\ t.pos = pos /\ t.len = len
          /\ t.stack = r.stack /\ t.reply = r.reply
      BY <3>1, <3>2, SetBytes
    <3>4. QED
      BY <2>4, <3>3
  <2> HIDE DEF t
  <2>8. r.pos <= len
    <3>1. Len(bytes) \in Nat
      OBVIOUS
    <3>2. QED
      BY <1>2, <2>6, <3>1
  <2>9. Good(t, Bytes)
    BY <1>1, <2>5, <2>6, <2>7, <2>8 DEF Good
  <2>10. Rest(t) = Rest(r) \o bytes
    <3>1. Rest(t) = SubSeq(r.buf.buf \o bytes, r.pos + 1, Len(r.buf.buf \o bytes))
      BY <2>5, <2>6, <2>7 DEF Rest
    <3>2. r.pos \in 0..Len(r.buf.buf)
      BY <1>1, <1>2
    <3>3. Rest(r) = SubSeq(r.buf.buf, r.pos + 1, Len(r.buf.buf))
      BY <1>1 DEF Rest
    <3> DEFINE s == r.buf.buf
               n == r.pos
    <3>4. s \in Seq(Bytes) /\ n \in 0..Len(s)
      BY <1>1, <3>2
    <3> HIDE DEF s, n
    <3>5. SubSeq(s \o bytes, n + 1, Len(s \o bytes)) = SubSeq(s, n + 1, Len(s)) \o bytes
      BY <3>4, RestOfCat
    <3>6. QED
      BY <3>1, <3>3, <3>5 DEF s, n
  <2>11. QED
    BY <1>4, <2>1, <2>7, <2>9, <2>10
<1>5. QED
  BY <1>1, <1>3, <1>4

\* Bytes that have been consumed are given up, and no others.
LEMMA DiscardIs ==
    ASSUME NEW Bytes, NEW r, Good(r, Bytes)
    PROVE  LET t == Discard(r) IN
           /\ Good(t, Bytes) /\ Rest(t) = Rest(r)
           /\ t.err = r.err /\ t.stack = r.stack /\ t.reply = r.reply
<1>1. Fields(r) /\ Nested(r.stack) /\ Sound(r.buf, Bytes)
      /\ r.len = Len(r.buf.buf) /\ r.buf.buf \in Seq(Bytes)
  BY DEF Good, Sound, IsSds
<1>2. r.len \in Nat /\ r.pos \in Nat /\ r.pos <= r.len
      /\ Rest(r) \in Seq(Bytes) /\ Len(Rest(r)) \in Nat
  BY RestIs
<1>3. CASE r.pos >= DISCARD
  <2> DEFINE buf == sdsrange(r.buf, r.pos, -1)
             len == sdslen(buf)
             t == SetAll(r, buf, 0, len)
  <2>1. Discard(r) = t
    BY <1>3 DEF Discard, SetAll
  <2>2. r.pos \in 0..Len(r.buf.buf)
    BY <1>1, <1>2
  <2>3. Sound(buf, Bytes) /\ buf.buf = SubSeq(r.buf.buf, r.pos + 1, Len(r.buf.buf))
    <3> DEFINE s == r.buf
               n == r.pos
    <3>1. Sound(s, Bytes) /\ n \in 0..Len(s.buf)
      BY <1>1, <2>2
    <3> HIDE DEF s, n
    <3>2. /\ Sound(sdsrange(s, n, -1), Bytes)
          /\ sdsrange(s, n, -1).buf = SubSeq(s.buf, n + 1, Len(s.buf))
      BY <3>1, RangeIsSound
    <3>3. QED
      BY <3>2 DEF s, n
  <2> HIDE DEF buf
  <2>4. buf.buf = Rest(r)
    BY <1>1, <2>3 DEF Rest
  <2>5. len = Len(Rest(r)) /\ len \in Nat
    BY <1>2, <2>4 DEF sdslen
  <2> HIDE DEF len
  <2>6. /\ Fields(t)
        /\ t.err = r.err /\ t.buf = buf /\ t.pos = 0 /\ t.len = len
        /\ t.stack = r.stack /\ t.reply = r.reply
    <3>1. Fields(r) /\ 0 \in Nat /\ len \in Nat
      BY <1>1, <2>5
    <3> HIDE DEF t
    <3>2. t = SetAll(r, buf, 0, len)
      BY DEF t
    <3>3. QED
      BY <3>1, <3>2, SetBytes
  <2> HIDE DEF t
  <2>7. Good(t, Bytes)
    BY <1>1, <2>3, <2>4, <2>5, <2>6 DEF Good
  <2>8. Rest(t) = Rest(r)
    <3>1. Rest(t) = SubSeq(Rest(r), 1, Len(Rest(r)))
      <4>1. Rest(t) = SubSeq(t.buf.buf, t.pos + 1, t.len)
        BY DEF Rest
      <4>2. t.buf.buf = Rest(r) /\ t.pos + 1 = 1 /\ t.len = Len(Rest(r))
        BY <2>4, <2>5, <2>6
      <4>3. QED
        BY <4>1, <4>2
    <3> DEFINE s == Rest(r)
    <3> HIDE DEF s
    <3>2. s \in Seq(Bytes) => SubSeq(s, 1, Len(s)) = s
      OBVIOUS
    <3>3. QED
      BY <1>2, <3>1, <3>2 DEF s
  <2>9. QED
    BY <2>1, <2>6, <2>7, <2>8
<1>4. CASE ~(r.pos >= DISCARD)
  BY <1>4 DEF Discard, SetAll
<1>5. QED
  BY <1>3, <1>4

\* A reader between two calls.
Sane(r, Bytes) ==
    /\ Good(r, Bytes)
    /\ r.stack = <<>> => r.reply = NoReply
    /\ r.err => r.stack = <<>>
    /\ ~r.err /\ r.stack # <<>> => Waits(r)

\* The reader as redisReaderGetReply goes on with it.
Begun(r) == IF r.stack = <<>> THEN [r EXCEPT !.stack = <<Untyped>>] ELSE r

LEMMA BegunIs ==
    ASSUME NEW Bytes, NEW r, Good(r, Bytes), r.err = FALSE
    PROVE  LET t == Begun(r) IN
           /\ Ready(t, Bytes) /\ Rest(t) = Rest(r) /\ t.reply = r.reply
           /\ t.stack = IF r.stack = <<>> THEN <<Untyped>> ELSE r.stack
<1>1. CASE r.stack # <<>>
  BY <1>1 DEF Begun, Ready
<1>2. CASE r.stack = <<>>
  <2> DEFINE new == <<Untyped>>
             t == [r EXCEPT !.stack = new]
  <2>1. Begun(r) = t
    BY <1>2 DEF Begun
  <2>2. Nested(<<>>) /\ Len(<<>>) < STACK
    BY ReaderAssumption DEF Nested
  <2>3. Nested(Append(<<>>, Untyped))
    BY <2>2, UntypedIsTask, NestedAppend
  <2>4. Append(<<>>, Untyped) = <<Untyped>>
    OBVIOUS
  <2>5. Nested(new) /\ new \in Seq(Task) /\ new # <<>>
    BY <2>3, <2>4 DEF Nested
  <2>6. Fields(r)
    BY DEF Good
  <2> HIDE DEF new
  <2>7. /\ Fields(t)
        /\ t.err = r.err /\ t.buf = r.buf /\ t.pos = r.pos /\ t.len = r.len
        /\ t.stack = new /\ t.reply = r.reply
    BY <2>5, <2>6, SetStack
  <2> HIDE DEF t
  <2>8. Good(t, Bytes) /\ Rest(t) = Rest(r)
    BY <2>5, <2>7 DEF Good, Rest
  <2>9. QED
    BY <1>2, <2>1, <2>5, <2>7, <2>8 DEF Ready, new
<1>3. QED
  BY <1>1, <1>2

\* What a call of redisReaderGetReply comes to.
LEMMA GetReplyIs ==
    ASSUME NEW Bytes, NEW r, Sane(r, Bytes)
    PROVE  LET next == redisReaderGetReply(r)
               q == processItems(Begun(r))
           IN  /\ Sane(next.r, Bytes)
               /\ \/ /\ r.err \/ r.len = 0
                     /\ next.r = r /\ next.reply = NoReply
                  \/ /\ r.err = FALSE /\ q.err
                     /\ next.r.err /\ next.reply = NoReply
                  \/ /\ r.err = FALSE /\ q.err = FALSE /\ next.r.err = FALSE
                     /\ next.r.stack = q.stack /\ Rest(next.r) = Rest(q)
                     /\ IF q.stack = <<>> THEN next.reply = q.reply /\ next.r.reply = NoReply
                        ELSE next.reply = NoReply /\ next.r.reply = q.reply
<1> DEFINE next == redisReaderGetReply(r)
           q == processItems(Begun(r))
           d == Discard(q)
<1>1. Good(r, Bytes) /\ r.err \in BOOLEAN
  BY DEF Sane, Good, Fields
<1>2. CASE r.err \/ r.len = 0
  <2>1. next = [reply |-> NoReply, r |-> r]
    BY <1>2 DEF redisReaderGetReply
  <2>2. next.r = r /\ next.reply = NoReply
    BY <2>1
  <2>3. QED
    BY <1>2, <2>2
<1>3. CASE ~(r.err \/ r.len = 0)
  <2>1. next = IF q.err THEN [reply |-> NoReply, r |-> q] ELSE Deliver(d)
    BY <1>3 DEF redisReaderGetReply, Begun
  <2>2. Taken(q, Bytes) /\ r.err = FALSE
    BY <1>1, <1>3, BegunIs, ProcessKeeps
  <2> HIDE DEF q, next
  <2>3. Good(q, Bytes) /\ q.err \in BOOLEAN
    BY <2>2 DEF Taken, Good, Fields
  <2>4. /\ Good(d, Bytes) /\ Rest(d) = Rest(q)
        /\ d.err = q.err /\ d.stack = q.stack /\ d.reply = q.reply
    BY <2>3, DiscardIs
  <2>5. CASE q.err
    <3>1. next.r = q /\ next.reply = NoReply
      BY <2>1, <2>5
    <3>2. QED
      BY <2>2, <2>5, <3>1 DEF Taken, Sane, next, q
  <2>6. CASE ~q.err
    <3> HIDE DEF d
    <3>1. next = Deliver(d)
      BY <2>1, <2>6
    <3>2. CASE d.stack = <<>>
      <4> DEFINE t == [d EXCEPT !.reply = NoReply]
      <4>1. next.reply = d.reply /\ next.r = t
        BY <3>1, <3>2 DEF Deliver
      <4>2. Fields(d)
        BY <2>4 DEF Good
      <4>3. /\ Fields(t)
            /\ t.err = d.err /\ t.buf = d.buf /\ t.pos = d.pos /\ t.len = d.len
            /\ t.stack = d.stack /\ t.reply = NoReply
        BY <4>2, SetReply
      <4> HIDE DEF t
      <4>4. Good(t, Bytes) /\ Rest(t) = Rest(d)
        BY <2>4, <4>3 DEF Good, Rest
      <4>5. Sane(t, Bytes)
        BY <2>4, <2>6, <3>2, <4>3, <4>4 DEF Sane
      <4>6. QED
        BY <2>2, <2>3, <2>4, <2>6, <3>2, <4>1, <4>3, <4>4, <4>5 DEF next, q
    <3>3. CASE d.stack # <<>>
      <4>1. next.reply = NoReply /\ next.r = d
        BY <3>1, <3>3 DEF Deliver
      <4>2. Sane(d, Bytes)
        <5>1. Waits(q)
          BY <2>2, <2>4, <2>6, <3>3 DEF Taken
        <5>2. Waits(d)
          BY <2>4, <5>1 DEF Waits, Current
        <5>3. QED
          BY <2>4, <2>6, <3>3, <5>2 DEF Sane
      <4>3. QED
        BY <2>2, <2>3, <2>4, <2>6, <3>3, <4>1, <4>2 DEF next, q
    <3>4. QED
      BY <3>2, <3>3
  <2>7. QED
    BY <2>5, <2>6
<1>4. QED
  BY <1>2, <1>3

LEMMA FeedIsSane ==
    ASSUME NEW Bytes, NEW r, Sane(r, Bytes), NEW bytes \in Seq(Bytes)
    PROVE  Sane(redisReaderFeed(r, bytes), Bytes)
<1> DEFINE t == redisReaderFeed(r, bytes)
<1>1. Good(r, Bytes)
  BY DEF Sane
<1>2. Good(t, Bytes) /\ t.err = r.err /\ t.stack = r.stack /\ t.reply = r.reply
  BY <1>1, FeedIs
<1> HIDE DEF t
<1>3. Sane(t, Bytes)
  BY <1>2 DEF Sane, Waits, Current
<1>4. QED
  BY <1>3 DEF t

\* What is proved of a reader is what TLC checks of it.
LEMMA SaneIsReader ==
    ASSUME NEW Bytes, NEW r, Sane(r, Bytes)
    PROVE  IsReader(r, Bytes)
<1>1. Good(r, Bytes) /\ (r.stack = <<>> => r.reply = NoReply)
  BY DEF Sane
<1>2. /\ r.err \in BOOLEAN /\ IsSds(r.buf, Bytes) /\ r.len = sdslen(r.buf)
      /\ r.stack \in Seq(Task) /\ Nested(r.stack) /\ Len(r.stack) <= STACK
  BY <1>1 DEF Good, Fields, Sound, sdslen, Nested
<1>3. r.pos \in 0..r.len
  BY <1>1, RestIs
<1>4. Len(r.stack) \in 0..STACK
  BY <1>2, ReaderAssumption
<1>5. ASSUME NEW d \in DOMAIN r.stack
      PROVE  /\ r.stack[d].type \in Types
             /\ d > 1 => /\ r.stack[d - 1].type = "ARRAY"
                         /\ r.stack[d].idx \in 0..(r.stack[d - 1].elements - 1)
  <2>1. r.stack[d] \in Task /\ d \in 1..Len(r.stack)
    BY <1>2
  <2>2. r.stack[d].type \in Types
    BY <2>1 DEF Task
  <2>3. d > 1 => d \in 2..Len(r.stack)
    BY <1>2, <2>1
  <2>4. QED
    BY <1>2, <2>2, <2>3 DEF Nested
<1>6. QED
  BY <1>1, <1>2, <1>3, <1>4, <1>5 DEF IsReader, Types

LEMMA NewIsSane ==
    ASSUME NEW Bytes
    PROVE  Sane(redisReaderCreate, Bytes)
BY NewIsGood DEF Sane
-----------------------------------------------------------------------------
(* Bytes that come later.  A reader is longer than another by x if it is   *)
(* at the same place, and has the bytes x behind those that the other has. *)

Longer(r, s, x) ==
    s.stack = r.stack /\ s.reply = r.reply /\ Rest(s) = Rest(r) \o x

\* What items depend on is the same, or both have failed.
Same(r, s) ==
    /\ r.err = s.err
    /\ r.err = FALSE => r.stack = s.stack /\ r.reply = s.reply /\ Rest(r) = Rest(s)

\* The reply with one more object, and the stack when an object is complete.
ReplyWith(stack, reply, obj) ==
    LET place == [i \in 1..(Len(stack) - 1) |-> stack[i + 1].idx] IN
    IF Len(stack) = 1 THEN [p \in {Root} |-> obj]
    ELSE [p \in DOMAIN reply \cup {place} |-> IF p = place THEN obj ELSE reply[p]]

NextStack(stack) ==
    LET more == {d \in 2..Len(stack) : stack[d].idx # stack[d - 1].elements - 1} IN
    IF more = {} THEN <<>>
    ELSE Append(SubSeq(stack, 1, Max(more) - 1),
                [Untyped EXCEPT !.idx = stack[Max(more)].idx + 1])

SetReplyTo(r, v) == [r EXCEPT !.reply = v]
SetStackTo(r, v) == [r EXCEPT !.stack = v]

LEMMA CreateSame ==
    ASSUME NEW Bytes, NEW r, Good(r, Bytes), NEW obj
    PROVE  Create(r, obj).reply = ReplyWith(r.stack, r.reply, obj)
<1> DEFINE v == ReplyWith(r.stack, r.reply, obj)
<1>1. Create(r, obj) = SetReplyTo(r, v)
  BY DEF Create, ReplyWith, Place, SetReplyTo
<1> HIDE DEF v
<1>2. Fields(r)
  BY DEF Good
<1>3. SetReplyTo(r, v).reply = v
  BY <1>2, SetReply DEF SetReplyTo
<1>4. QED
  BY <1>1, <1>3 DEF v

LEMMA NextSame ==
    ASSUME NEW Bytes, NEW r, Good(r, Bytes)
    PROVE  moveToNextTask(r).stack = NextStack(r.stack)
<1> DEFINE v == NextStack(r.stack)
<1>1. moveToNextTask(r) = SetStackTo(r, v)
  BY DEF moveToNextTask, NextStack, SetStackTo
<1> HIDE DEF v
<1>2. DOMAIN r = {"err", "buf", "pos", "len", "stack", "reply"}
  BY DEF Good, Fields
<1>3. SetStackTo(r, v).stack = v
  BY <1>2 DEF SetStackTo
<1>4. QED
  BY <1>1, <1>3 DEF v

ElementsStack(stack, count) ==
    IF count = 0 THEN NextStack(stack)
    ELSE Append([stack EXCEPT ![Len(stack)].elements = count], Untyped)

LEMMA ElementsSame ==
    ASSUME NEW Bytes, NEW r, Good(r, Bytes), NEW count
    PROVE  /\ Elements(r, count).ok = TRUE
           /\ Elements(r, count).r.stack = ElementsStack(r.stack, count)
<1> DEFINE v == ElementsStack(r.stack, count)
<1>1. CASE count = 0
  <2>1. Elements(r, count) = Done(moveToNextTask(r))
    BY <1>1 DEF Elements
  <2>2. Elements(r, count).ok = TRUE /\ Elements(r, count).r = moveToNextTask(r)
    BY <2>1 DEF Done
  <2>3. QED
    BY <1>1, <2>2, NextSame DEF ElementsStack
<1>2. CASE count # 0
  <2>1. Elements(r, count) = Done(SetStackTo(r, v))
    BY <1>2 DEF Elements, ElementsStack, SetStackTo
  <2> HIDE DEF v
  <2>2. Elements(r, count).ok = TRUE /\ Elements(r, count).r = SetStackTo(r, v)
    BY <2>1 DEF Done
  <2>3. DOMAIN r = {"err", "buf", "pos", "len", "stack", "reply"}
    BY DEF Good, Fields
  <2>4. SetStackTo(r, v).stack = v
    BY <2>3 DEF SetStackTo
  <2>5. QED
    BY <2>2, <2>4 DEF v
<1>3. QED
  BY <1>1, <1>2

\* What is carried out leaves readers alike that were.
LEMMA CarryAgrees ==
    ASSUME NEW Bytes, NEW r, Ready(r, Bytes), NEW s, Ready(s, Bytes),
           NEW x \in Seq(Bytes), Longer(r, s, x),
           Current(r).type # "none", Decision(r).is # "wait"
    PROVE  LET a == Carry(r, Decision(r))
               b == Carry(s, Decision(s))
           IN  /\ a.ok = b.ok /\ a.r.err = b.r.err
               /\ a.ok => Longer(a.r, b.r, x)
<1> DEFINE d == Decision(r)
           a == Carry(r, d)
           b == Carry(s, d)
<1>1. /\ Good(r, Bytes) /\ r.err = FALSE /\ Rest(r) \in Seq(Bytes) /\ Len(Rest(r)) \in Nat
      /\ Good(s, Bytes) /\ s.err = FALSE /\ Rest(s) \in Seq(Bytes) /\ Len(Rest(s)) \in Nat
  BY RestIs DEF Ready
<1>2. s.stack = r.stack /\ s.reply = r.reply /\ Rest(s) = Rest(r) \o x
  BY DEF Longer
<1>3. Decision(s) = d
  <2>1. Decision(s) = Decide(Current(r).type, Len(r.stack), Rest(r) \o x)
    BY <1>2 DEF Decision, Current
  <2>2. QED
    BY <1>1, <2>1, DecidedStays DEF Decision
<1>4. /\ d.is \in {"bad", "whole", "array"}
      /\ d.is \in {"whole", "array"} => d.taken \in 2..Len(Rest(r))
      /\ d.is = "array" => /\ Len(r.stack) # STACK
                           /\ Current(r).type \notin {"ERROR", "STATUS", "INTEGER", "STRING"}
                           /\ d.obj.elements \in Nat
  BY <1>1, DecidedBytes DEF Decision
<1> HIDE DEF d
<1>5. CASE d.is = "bad"
  <2>1. a = Fail(r) /\ b = Fail(s)
    BY <1>5 DEF Carry
  <2>2. a.ok = FALSE /\ a.r.err = TRUE /\ b.ok = FALSE /\ b.r.err = TRUE
    BY <2>1, FailIsGood
  <2>3. QED
    BY <1>3, <2>2 DEF d
<1>6. CASE d.is \in {"whole", "array"}
  <2> DEFINE m == d.taken
             obj == d.obj
             p == Past(r, m)
             q == Past(s, m)
             c == Create(p, obj)
             e == Create(q, obj)
  <2>1. m \in 0..Len(Rest(r)) /\ m \in 0..Len(Rest(s))
    <3>1. Len(Rest(s)) = Len(Rest(r)) + Len(x) /\ Len(x) \in Nat
      BY <1>1, <1>2
    <3>2. QED
      BY <1>1, <1>4, <1>6, <3>1
  <2> HIDE DEF m, obj
  <2>2. /\ Good(p, Bytes) /\ p.err = FALSE /\ p.stack = r.stack /\ p.reply = r.reply
        /\ Rest(p) = SubSeq(Rest(r), m + 1, Len(Rest(r)))
    BY <1>1, <2>1, PastIsGood
  <2>3. /\ Good(q, Bytes) /\ q.err = FALSE /\ q.stack = r.stack /\ q.reply = r.reply
        /\ Rest(q) = SubSeq(Rest(s), m + 1, Len(Rest(s)))
    BY <1>1, <1>2, <2>1, PastIsGood
  <2>4. Rest(q) = Rest(p) \o x
    <3> DEFINE u == Rest(r)
    <3>1. u \in Seq(Bytes) /\ m \in 0..Len(u)
      BY <1>1, <2>1
    <3> HIDE DEF u
    <3>2. SubSeq(u \o x, m + 1, Len(u \o x)) = SubSeq(u, m + 1, Len(u)) \o x
      BY <3>1, RestOfCat
    <3>3. QED
      BY <1>2, <2>2, <2>3, <3>2 DEF u
  <2> HIDE DEF p, q
  <2>5. /\ Good(c, Bytes) /\ c.err = FALSE /\ c.stack = r.stack /\ Rest(c) = Rest(p)
        /\ c.reply = ReplyWith(r.stack, r.reply, obj)
    <3>1. Good(c, Bytes) /\ c.err = FALSE /\ c.stack = r.stack /\ Rest(c) = Rest(p)
      BY <2>2, CreateIsGood, ZenonT(40)
    <3>2. c.reply = ReplyWith(p.stack, p.reply, obj)
      BY <2>2, CreateSame
    <3>3. QED
      BY <2>2, <3>1, <3>2
  <2>6. /\ Good(e, Bytes) /\ e.err = FALSE /\ e.stack = r.stack /\ Rest(e) = Rest(q)
        /\ e.reply = ReplyWith(r.stack, r.reply, obj)
    <3>1. Good(e, Bytes) /\ e.err = FALSE /\ e.stack = r.stack /\ Rest(e) = Rest(q)
      BY <2>3, CreateIsGood, ZenonT(40)
    <3>2. e.reply = ReplyWith(q.stack, q.reply, obj)
      BY <2>3, CreateSame
    <3>3. QED
      BY <2>3, <3>1, <3>2
  <2> HIDE DEF c, e
  <2>7. CASE d.is = "whole"
    <3> DEFINE t == moveToNextTask(c)
               u == moveToNextTask(e)
    <3>1. a = Done(t) /\ Done(t).ok = TRUE /\ Done(t).r = t
      BY <2>7 DEF Carry, Complete, Done, c, p, m, obj
    <3>2. b = Done(u) /\ Done(u).ok = TRUE /\ Done(u).r = u
      BY <2>7 DEF Carry, Complete, Done, e, q, m, obj
    <3>3. t.err = FALSE /\ Rest(t) = Rest(c) /\ t.reply = c.reply /\ t.stack = NextStack(c.stack)
      BY <2>5, NextIsGood, NextSame
    <3>4. u.err = FALSE /\ Rest(u) = Rest(e) /\ u.reply = e.reply /\ u.stack = NextStack(e.stack)
      BY <2>6, NextIsGood, NextSame
    <3> HIDE DEF t, u
    <3>5. Longer(t, u, x)
      BY <2>4, <2>5, <2>6, <3>3, <3>4 DEF Longer
    <3>6. QED
      BY <1>3, <3>1, <3>2, <3>3, <3>4, <3>5 DEF d
  <2>8. CASE d.is = "array"
    <3> DEFINE n == d.obj.elements
               t == Elements(c, n).r
               u == Elements(e, n).r
    <3>1. Ready(c, Bytes) /\ Current(c) = Current(r) /\ Ready(e, Bytes) /\ Current(e) = Current(r)
          /\ n \in Nat
      BY <1>1, <1>4, <2>5, <2>6, <2>8 DEF Ready, Current
    <3>2. Current(r).type = "ARRAY" /\ Len(r.stack) < STACK
      <4>1. Current(r).type \in Types /\ Len(r.stack) \in 1..STACK /\ STACK \in Nat
        BY CurrentIs, ReaderAssumption DEF Task
      <4>2. QED
        BY <1>4, <2>8, <4>1, TypesAre
    <3>3. a = Elements(c, n) /\ b = Elements(e, n)
      BY <2>8 DEF Carry, c, e, p, q, m, obj
    <3> HIDE DEF n
    <3>4. /\ Elements(c, n).ok = TRUE
          /\ Rest(t) = Rest(c) /\ t.err = FALSE /\ t.reply = c.reply
          /\ t.stack = ElementsStack(c.stack, n)
      <4>1. Rest(t) = Rest(c) /\ t.err = FALSE /\ t.reply = c.reply
        <5>1. Ready(c, Bytes) /\ n \in Nat /\ Len(c.stack) < STACK /\ Current(c).type = "ARRAY"
          BY <2>5, <3>1, <3>2
        <5>2. QED
          BY <5>1, ElementsIsGood
      <4>2. Elements(c, n).ok = TRUE /\ t.stack = ElementsStack(c.stack, n)
        BY <2>5, ElementsSame
      <4>3. QED
        BY <4>1, <4>2
    <3>5. /\ Elements(e, n).ok = TRUE
          /\ Rest(u) = Rest(e) /\ u.err = FALSE /\ u.reply = e.reply
          /\ u.stack = ElementsStack(e.stack, n)
      <4>1. Rest(u) = Rest(e) /\ u.err = FALSE /\ u.reply = e.reply
        <5>1. Ready(e, Bytes) /\ n \in Nat /\ Len(e.stack) < STACK /\ Current(e).type = "ARRAY"
          BY <2>6, <3>1, <3>2
        <5>2. QED
          BY <5>1, ElementsIsGood
      <4>2. Elements(e, n).ok = TRUE /\ u.stack = ElementsStack(e.stack, n)
        BY <2>6, ElementsSame
      <4>3. QED
        BY <4>1, <4>2
    <3>6. a.r = t /\ b.r = u
      BY <3>3
    <3> HIDE DEF t, u
    <3>7. Longer(t, u, x)
      BY <2>4, <2>5, <2>6, <3>4, <3>5 DEF Longer
    <3>8. QED
      BY <1>3, <3>3, <3>4, <3>5, <3>6, <3>7 DEF d
  <2>9. QED
    BY <1>6, <2>7, <2>8
<1>7. QED
  BY <1>4, <1>5, <1>6
\* An item of readers that are alike.
LEMMA TypedFirst ==
    ASSUME NEW Bytes, NEW r, Ready(r, Bytes), Current(r).type = "none",
           Rest(r) # <<>>, Head(Rest(r)) \in DOMAIN TypeOfByte
    PROVE  LET t == Typed(r) IN
           /\ Ready(t, Bytes) /\ Current(t).type # "none"
           /\ processItem(r) = Carry(t, Decision(t))
           /\ processItem(t) = processItem(r)
           /\ Rest(t) = Tail(Rest(r)) /\ t.reply = r.reply
           /\ t.stack = [r.stack EXCEPT ![Len(r.stack)].type = TypeOfByte[Head(Rest(r))]]
<1> DEFINE t == Typed(r)
<1>1. ReadType(r) # Stop(r) => ReadType(r) = Fail(r) \/ ReadType(r) = Done(t)
  BY ReadTypeIs
<1>2. /\ ReadType(r) = Done(t) /\ Ready(t, Bytes) /\ Current(t).type # "none"
      /\ Rest(t) = Tail(Rest(r)) /\ t.reply = r.reply
      /\ t.stack = [r.stack EXCEPT ![Len(r.stack)].type = TypeOfByte[Head(Rest(r))]]
  BY ReadTypeIs
<1> HIDE DEF t
<1>3. ProcessTyped(Done(t)) = Carry(t, Decision(t))
  BY <1>2, TypedIs
<1>4. processItem(r) = ProcessTyped(Done(t))
  BY <1>2 DEF processItem
<1>5. processItem(t) = ProcessTyped(Done(t))
  BY <1>2 DEF processItem, ReadType
<1>6. QED
  BY <1>2, <1>3, <1>4, <1>5 DEF t

LEMMA TypedAlready ==
    ASSUME NEW Bytes, NEW r, Ready(r, Bytes), Current(r).type # "none"
    PROVE  processItem(r) = Carry(r, Decision(r))
<1>1. processItem(r) = ProcessTyped(Done(r))
  BY DEF processItem, ReadType
<1>2. QED
  BY <1>1, TypedIs

\* Whether a line of bytes is there is known; then those behind do not matter.
LEMMA LongerTyped ==
    ASSUME NEW Bytes, NEW r, Ready(r, Bytes), NEW s, Ready(s, Bytes),
           NEW x \in Seq(Bytes), Longer(r, s, x), Current(r).type = "none", Rest(r) # <<>>
    PROVE  /\ Current(s).type = "none" /\ Rest(s) # <<>> /\ Head(Rest(s)) = Head(Rest(r))
           /\ Head(Rest(r)) \in DOMAIN TypeOfByte => Longer(Typed(r), Typed(s), x)
<1>1. s.stack = r.stack /\ s.reply = r.reply /\ Rest(s) = Rest(r) \o x
  BY DEF Longer
<1>2. Rest(r) \in Seq(Bytes)
  BY RestIs DEF Ready
<1>3. Current(s).type = "none"
  BY <1>1 DEF Current
<1> DEFINE u == Rest(r)
<1>4. u \in Seq(Bytes) /\ u # <<>>
  BY <1>2
<1> HIDE DEF u
<1>5. Len(u) \in Nat \ {0} /\ Len(u \o x) = Len(u) + Len(x) /\ Len(x) \in Nat
      /\ u \o x \in Seq(Bytes)
  BY <1>4
<1>6. u \o x # <<>> /\ Head(u \o x) = Head(u)
  BY <1>4, <1>5
<1>7. Tail(u \o x) = Tail(u) \o x
  <2>1. Tail(u \o x) = SubSeq(u \o x, 2, Len(u \o x)) /\ Tail(u) = SubSeq(u, 2, Len(u))
    BY <1>4, <1>5, <1>6, TailIsSubSeq
  <2>2. SubSeq(u \o x, 1 + 1, Len(u \o x)) = SubSeq(u, 1 + 1, Len(u)) \o x
    <3>1. 1 \in 0..Len(u)
      BY <1>5
    <3>2. QED
      BY <1>4, <3>1, RestOfCat
  <2>3. 1 + 1 = 2
    OBVIOUS
  <2>4. QED
    BY <2>1, <2>2, <2>3
<1>8. Rest(s) # <<>> /\ Head(Rest(s)) = Head(Rest(r)) /\ Tail(Rest(s)) = Tail(Rest(r)) \o x
  BY <1>1, <1>6, <1>7 DEF u
<1>9. ASSUME Head(Rest(r)) \in DOMAIN TypeOfByte
      PROVE  Longer(Typed(r), Typed(s), x)
  <2> DEFINE t == Typed(r)
             v == Typed(s)
  <2>1. /\ Rest(t) = Tail(Rest(r)) /\ t.reply = r.reply
        /\ t.stack = [r.stack EXCEPT ![Len(r.stack)].type = TypeOfByte[Head(Rest(r))]]
    BY <1>9, TypedFirst
  <2>2. /\ Rest(v) = Tail(Rest(s)) /\ v.reply = s.reply
        /\ v.stack = [s.stack EXCEPT ![Len(s.stack)].type = TypeOfByte[Head(Rest(s))]]
    BY <1>3, <1>8, <1>9, TypedFirst
  <2> HIDE DEF t, v
  <2>3. Longer(t, v, x)
    BY <1>1, <1>8, <2>1, <2>2 DEF Longer
  <2>4. QED
    BY <2>3 DEF t, v
<1>10. QED
  BY <1>3, <1>8, <1>9

LEMMA LongerByNone ==
    ASSUME NEW Bytes, NEW r, Good(r, Bytes), r.err = FALSE, NEW s, s.err = FALSE
    PROVE  Same(r, s) <=> Longer(r, s, <<>>)
<1>1. Rest(r) \in Seq(Bytes)
  BY RestIs
<1>2. Rest(r) \o <<>> = Rest(r)
  BY <1>1
<1>3. QED
  BY <1>2 DEF Same, Longer

\* An item that is neither complete nor waits has failed.
LEMMA CarryEnds ==
    ASSUME NEW Bytes, NEW r, Ready(r, Bytes), Decision(r).is # "wait",
           ~Carry(r, Decision(r)).ok
    PROVE  Carry(r, Decision(r)).r.err = TRUE
<1> DEFINE d == Decision(r)
           a == Carry(r, d)
<1>1. d.is \in {"bad", "whole", "array"}
  <2>1. Rest(r) \in Seq(Bytes)
    BY RestIs DEF Ready
  <2>2. QED
    BY <2>1, DecidedBytes DEF Decision
<1> HIDE DEF d
<1>2. CASE d.is = "bad"
  <2>1. a = Fail(r)
    BY <1>2 DEF Carry
  <2>2. QED
    BY <2>1, FailIsGood DEF d
<1>3. CASE d.is = "whole"
  <2>1. a = Complete(Past(r, d.taken), d.obj)
    BY <1>3 DEF Carry
  <2>2. QED
    BY <2>1 DEF Complete, Done, d
<1>4. CASE d.is = "array"
  <2>1. a = Elements(Create(Past(r, d.taken), d.obj), d.obj.elements)
    BY <1>4 DEF Carry
  <2>2. QED
    BY <2>1 DEF Elements, Done, d
<1>5. QED
  BY <1>1, <1>2, <1>3, <1>4

\* Items of readers that are the same come to the same.
LEMMA CarrySame ==
    ASSUME NEW Bytes, NEW r, Ready(r, Bytes), NEW s, Ready(s, Bytes), Same(r, s),
           Current(r).type # "none"
    PROVE  LET a == Carry(r, Decision(r))
               b == Carry(s, Decision(s))
           IN  a.ok = b.ok /\ Same(a.r, b.r)
<1> DEFINE d == Decision(r)
           a == Carry(r, d)
           b == Carry(s, Decision(s))
<1>1. r.err = FALSE /\ s.err = FALSE /\ Good(r, Bytes) /\ Good(s, Bytes)
  BY DEF Ready
<1>2. r.stack = s.stack /\ r.reply = s.reply /\ Rest(r) = Rest(s) /\ Longer(r, s, <<>>)
  BY <1>1, LongerByNone DEF Same
<1>3. Decision(s) = d
  BY <1>2 DEF Decision, Current
<1>4. CASE d.is = "wait"
  <2>1. a = Stop(r) /\ b = Stop(s)
    BY <1>3, <1>4 DEF Carry
  <2>2. a.ok = FALSE /\ a.r = r /\ b.ok = FALSE /\ b.r = s
    BY <2>1 DEF Stop
  <2> HIDE DEF a, b
  <2>3. QED
    BY <2>2 DEF a, b
<1>5. CASE d.is # "wait"
  <2>1. <<>> \in Seq(Bytes)
    OBVIOUS
  <2>2. a.ok = b.ok /\ a.r.err = b.r.err /\ (a.ok => Longer(a.r, b.r, <<>>))
    BY <1>2, <1>5, <2>1, CarryAgrees
  <2>3. Kept(a, r, Bytes)
    BY CarryKeeps
  <2> HIDE DEF a, b, d
  <2>4. CASE a.ok
    <3>1. Good(a.r, Bytes) /\ a.r.err = FALSE /\ b.r.err = FALSE
      BY <2>2, <2>3, <2>4 DEF Kept
    <3>2. Same(a.r, b.r)
      BY <2>2, <2>4, <3>1, LongerByNone
    <3>3. QED
      BY <2>2, <3>2 DEF a, b, d
  <2>5. CASE ~a.ok
    <3>1. a.r.err = TRUE
      BY <1>5, <2>5, CarryEnds DEF a, d
    <3>2. QED
      BY <2>2, <3>1 DEF Same, a, b, d
  <2>6. QED
    BY <2>4, <2>5
<1>6. QED
  BY <1>4, <1>5

LEMMA ItemSame ==
    ASSUME NEW Bytes, NEW r, Ready(r, Bytes), NEW s, Ready(s, Bytes), Same(r, s)
    PROVE  LET a == processItem(r)
               b == processItem(s)
           IN  a.ok = b.ok /\ Same(a.r, b.r)
<1>1. r.err = FALSE /\ s.err = FALSE /\ Good(r, Bytes) /\ Good(s, Bytes)
  BY DEF Ready
<1>2. r.stack = s.stack /\ r.reply = s.reply /\ Rest(r) = Rest(s) /\ Longer(r, s, <<>>)
      /\ Current(r) = Current(s) /\ <<>> \in Seq(Bytes)
  <2>1. r.stack = s.stack /\ r.reply = s.reply /\ Rest(r) = Rest(s) /\ <<>> \in Seq(Bytes)
    BY <1>1 DEF Same
  <2>2. Longer(r, s, <<>>)
    BY <1>1, LongerByNone
  <2>3. QED
    BY <2>1, <2>2 DEF Current
<1>3. CASE Current(r).type # "none"
  BY <1>2, <1>3, TypedAlready, CarrySame
<1>4. CASE Current(r).type = "none" /\ Rest(r) = <<>>
  <2>1. processItem(r) = Stop(r) /\ processItem(s) = Stop(s)
    BY <1>2, <1>4 DEF processItem, ReadType, ProcessTyped, Stop
  <2>2. QED
    BY <2>1 DEF Stop
<1>5. CASE Current(r).type = "none" /\ Rest(r) # <<>> /\ Head(Rest(r)) \notin DOMAIN TypeOfByte
  <2>1. ReadType(r) = Fail(r) /\ ReadType(s) = Fail(s)
    BY <1>2, <1>5 DEF ReadType
  <2>2. processItem(r) = Fail(r) /\ processItem(s) = Fail(s)
    BY <2>1, FailIsGood DEF processItem, ProcessTyped
  <2>3. QED
    BY <2>2, FailIsGood DEF Same
<1>6. CASE Current(r).type = "none" /\ Rest(r) # <<>> /\ Head(Rest(r)) \in DOMAIN TypeOfByte
  <2> DEFINE t == Typed(r)
             u == Typed(s)
  <2>1. Ready(t, Bytes) /\ Current(t).type # "none" /\ processItem(r) = Carry(t, Decision(t))
    BY <1>6, TypedFirst
  <2>2. Ready(u, Bytes) /\ processItem(s) = Carry(u, Decision(u))
    BY <1>2, <1>6, TypedFirst
  <2>3. Longer(t, u, <<>>)
    BY <1>2, <1>6, LongerTyped
  <2> HIDE DEF t, u
  <2>4. Same(t, u)
    BY <2>1, <2>2, <2>3, LongerByNone DEF Ready
  <2>5. QED
    BY <2>1, <2>2, <2>4, CarrySame
<1>7. QED
  BY <1>3, <1>4, <1>5, <1>6

\* What an item comes to when there are more bytes behind it.
LEMMA ItemAgrees ==
    ASSUME NEW Bytes, NEW r, Ready(r, Bytes), NEW s, Ready(s, Bytes),
           NEW x \in Seq(Bytes), Longer(r, s, x)
    PROVE  LET a == processItem(r)
               b == processItem(s)
           IN  /\ a.ok => b.ok /\ Longer(a.r, b.r, x)
               /\ ~a.ok /\ a.r.err => ~b.ok /\ b.r.err
               /\ ~a.ok /\ ~a.r.err =>
                    \A t : Ready(t, Bytes) /\ Longer(a.r, t, x) =>
                             LET c == processItem(t) IN c.ok = b.ok /\ Same(c.r, b.r)
<1> DEFINE a == processItem(r)
           b == processItem(s)
<1>1. r.err = FALSE /\ s.err = FALSE /\ Good(r, Bytes) /\ Good(s, Bytes)
  BY DEF Ready
<1>2. r.stack = s.stack /\ r.reply = s.reply /\ Rest(s) = Rest(r) \o x
      /\ Current(s) = Current(r)
  BY DEF Longer, Current
<1>3. ASSUME NEW p, Ready(p, Bytes), NEW q, Ready(q, Bytes), Longer(p, q, x),
             Current(p).type # "none", a = Carry(p, Decision(p)), b = Carry(q, Decision(q)),
             processItem(q) = b
      PROVE  /\ a.ok => b.ok /\ Longer(a.r, b.r, x)
             /\ ~a.ok /\ a.r.err => ~b.ok /\ b.r.err
             /\ ~a.ok /\ ~a.r.err =>
                  \A t : Ready(t, Bytes) /\ Longer(a.r, t, x) =>
                           processItem(t).ok = b.ok /\ Same(processItem(t).r, b.r)
  <2> HIDE DEF a, b
  <2>1. Kept(a, p, Bytes)
    BY <1>3, CarryKeeps
  <2>2. CASE Decision(p).is # "wait"
    <3>1. a.ok = b.ok /\ a.r.err = b.r.err /\ (a.ok => Longer(a.r, b.r, x))
      BY <1>3, <2>2, CarryAgrees
    <3>2. ~a.ok => a.r.err
      BY <1>3, <2>2, CarryEnds
    <3>3. QED
      BY <3>1, <3>2
  <2>3. CASE Decision(p).is = "wait"
    <3>1. a = Stop(p)
      BY <1>3, <2>3 DEF Carry
    <3>2. a.ok = FALSE /\ a.r = p /\ p.err = FALSE
      BY <1>3, <3>1 DEF Stop, Ready
    <3>3. ASSUME NEW t, Ready(t, Bytes), Longer(p, t, x)
          PROVE  processItem(t).ok = b.ok /\ Same(processItem(t).r, b.r)
      <4>1. Same(t, q)
        BY <1>3, <3>3 DEF Longer, Same, Ready
      <4>2. processItem(t).ok = processItem(q).ok /\ Same(processItem(t).r, processItem(q).r)
        BY <1>3, <3>3, <4>1, ItemSame
      <4>3. QED
        BY <1>3, <4>2
    <3>4. QED
      BY <3>2, <3>3
  <2>4. QED
    BY <2>2, <2>3
<1>4. CASE Current(r).type # "none"
  <2>1. a = Carry(r, Decision(r)) /\ b = Carry(s, Decision(s)) /\ processItem(s) = b
    BY <1>2, <1>4, TypedAlready
  <2> HIDE DEF a, b
  <2>2. QED
    BY <1>3, <1>4, <2>1 DEF a, b
<1>5. CASE Current(r).type = "none" /\ Rest(r) = <<>>
  <2>1. a = Stop(r)
    BY <1>5 DEF processItem, ReadType, ProcessTyped, Stop
  <2>2. a.ok = FALSE /\ a.r = r
    BY <2>1 DEF Stop
  <2>3. ASSUME NEW t, Ready(t, Bytes), Longer(r, t, x)
        PROVE  processItem(t).ok = b.ok /\ Same(processItem(t).r, b.r)
    <3>1. Same(t, s)
      BY <1>2, <2>3 DEF Longer, Same, Ready
    <3>2. QED
      BY <2>3, <3>1, ItemSame
  <2> HIDE DEF a, b
  <2>4. QED
    BY <1>1, <2>2, <2>3 DEF a, b
<1>6. CASE Current(r).type = "none" /\ Rest(r) # <<>> /\ Head(Rest(r)) \notin DOMAIN TypeOfByte
  <2>1. Current(s).type = "none" /\ Rest(s) # <<>> /\ Head(Rest(s)) = Head(Rest(r))
    BY <1>6, LongerTyped
  <2>2. ReadType(r) = Fail(r) /\ ReadType(s) = Fail(s)
    BY <1>6, <2>1 DEF ReadType
  <2>3. a = Fail(r) /\ b = Fail(s)
    BY <2>2, FailIsGood DEF processItem, ProcessTyped
  <2>4. QED
    BY <2>3, FailIsGood
<1>7. CASE Current(r).type = "none" /\ Rest(r) # <<>> /\ Head(Rest(r)) \in DOMAIN TypeOfByte
  <2> DEFINE p == Typed(r)
             q == Typed(s)
  <2>1. /\ Current(s).type = "none" /\ Rest(s) # <<>> /\ Head(Rest(s)) = Head(Rest(r))
        /\ Longer(p, q, x)
    BY <1>7, LongerTyped
  <2>2. Ready(p, Bytes) /\ Current(p).type # "none" /\ a = Carry(p, Decision(p))
    BY <1>7, TypedFirst
  <2>3. Ready(q, Bytes) /\ b = Carry(q, Decision(q)) /\ processItem(q) = b
    BY <1>7, <2>1, TypedFirst
  <2> HIDE DEF a, b, p, q
  <2>4. QED
    BY <1>3, <2>1, <2>2, <2>3 DEF a, b
<1>8. QED
  BY <1>4, <1>5, <1>6, <1>7
-----------------------------------------------------------------------------
(* The replies do not depend on how the bytes are cut.                     *)

LEMMA LoopSame ==
    ASSUME NEW Bytes, NEW r, Ready(r, Bytes), NEW s, Ready(s, Bytes), Same(r, s)
    PROVE  Same(processItems(r), processItems(s))
<1> DEFINE S == {n \in Nat : \A p, q : Ready(p, Bytes) /\ Ready(q, Bytes) /\ Same(p, q)
                                         /\ Len(Rest(p)) < n
                                       => Same(processItems(p), processItems(q))}
<1>1. 0 \in S
  <2>1. ASSUME NEW p, Ready(p, Bytes)
        PROVE  ~(Len(Rest(p)) < 0)
    <3>1. Len(Rest(p)) \in Nat
      BY <2>1, RestIs DEF Ready
    <3>2. QED
      BY <3>1
  <2>2. QED
    BY <2>1
<1>2. ASSUME NEW n \in Nat, n \in S
      PROVE  n + 1 \in S
  <2>1. ASSUME NEW p, NEW q, Ready(p, Bytes), Ready(q, Bytes), Same(p, q), Len(Rest(p)) < n + 1
        PROVE  Same(processItems(p), processItems(q))
    <3> DEFINE a == processItem(p)
               b == processItem(q)
    <3>1. a.ok = b.ok /\ Same(a.r, b.r)
      BY <2>1, ItemSame
    <3>2. Kept(a, p, Bytes) /\ Kept(b, q, Bytes)
      BY <2>1, ItemKeeps
    <3>3. processItems(p) = IF a.ok /\ a.r.stack # <<>> THEN processItems(a.r) ELSE a.r
      BY <2>1, ProcessIs
    <3>4. processItems(q) = IF b.ok /\ b.r.stack # <<>> THEN processItems(b.r) ELSE b.r
      BY <2>1, ProcessIs
    <3> HIDE DEF a, b
    <3>5. CASE a.ok
      <4>1. /\ Good(a.r, Bytes) /\ a.r.err = FALSE /\ Len(Rest(a.r)) < Len(Rest(p))
            /\ Good(b.r, Bytes) /\ b.r.err = FALSE
        BY <3>1, <3>2, <3>5 DEF Kept
      <4>2. Len(Rest(a.r)) \in Nat /\ Len(Rest(p)) \in Nat
        BY <2>1, <4>1, RestIs DEF Ready
      <4>3. Len(Rest(a.r)) < n
        BY <2>1, <4>1, <4>2
      <4>4. a.r.stack = b.r.stack
        BY <3>1, <4>1 DEF Same
      <4>5. CASE a.r.stack = <<>>
        BY <3>1, <3>3, <3>4, <4>4, <4>5
      <4>6. CASE a.r.stack # <<>>
        <5>1. Ready(a.r, Bytes) /\ Ready(b.r, Bytes)
          BY <4>1, <4>4, <4>6 DEF Ready
        <5>2. Same(processItems(a.r), processItems(b.r))
          BY <1>2, <3>1, <4>3, <5>1
        <5>3. QED
          BY <3>1, <3>3, <3>4, <3>5, <4>4, <4>6, <5>2
      <4>7. QED
        BY <4>5, <4>6
    <3>6. CASE ~a.ok
      BY <3>1, <3>3, <3>4, <3>6
    <3>7. QED
      BY <3>5, <3>6
  <2>2. QED
    BY <2>1
<1>3. \A n \in Nat : n \in S
  <2> HIDE DEF S
  <2>1. QED
    BY <1>1, <1>2, SetInduction
<1>4. Len(Rest(r)) \in Nat /\ Len(Rest(r)) < Len(Rest(r)) + 1 /\ Len(Rest(r)) + 1 \in Nat
  BY RestIs DEF Ready
<1>5. QED
  BY <1>3, <1>4

\* What a reader p comes to that had read r so far, when there are the bytes
\* of s, which is longer than r by x.
Agrees(p, q, x, Bytes) ==
    /\ p.err => q.err
    /\ ~p.err /\ p.stack = <<>> => ~q.err /\ q.stack = <<>> /\ Longer(p, q, x)
    /\ ~p.err /\ p.stack # <<>> =>
         \A t : Ready(t, Bytes) /\ Longer(p, t, x) => Same(processItems(t), q)

LEMMA LoopAgrees ==
    ASSUME NEW Bytes, NEW x \in Seq(Bytes), NEW r, Ready(r, Bytes), NEW s, Ready(s, Bytes),
           Longer(r, s, x)
    PROVE  Agrees(processItems(r), processItems(s), x, Bytes)
<1> DEFINE S == {n \in Nat : \A p, q : Ready(p, Bytes) /\ Ready(q, Bytes) /\ Longer(p, q, x)
                                         /\ Len(Rest(p)) < n
                                       => Agrees(processItems(p), processItems(q), x, Bytes)}
<1>1. 0 \in S
  <2>1. ASSUME NEW p, Ready(p, Bytes)
        PROVE  ~(Len(Rest(p)) < 0)
    <3>1. Len(Rest(p)) \in Nat
      BY <2>1, RestIs DEF Ready
    <3>2. QED
      BY <3>1
  <2>2. QED
    BY <2>1
<1>2. ASSUME NEW n \in Nat, n \in S
      PROVE  n + 1 \in S
  <2>1. ASSUME NEW p, NEW q, Ready(p, Bytes), Ready(q, Bytes), Longer(p, q, x),
               Len(Rest(p)) < n + 1
        PROVE  Agrees(processItems(p), processItems(q), x, Bytes)
    <3> DEFINE a == processItem(p)
               b == processItem(q)
    <3>1. /\ a.ok => b.ok /\ Longer(a.r, b.r, x)
          /\ ~a.ok /\ a.r.err => ~b.ok /\ b.r.err
          /\ ~a.ok /\ ~a.r.err =>
               \A t : Ready(t, Bytes) /\ Longer(a.r, t, x) =>
                        processItem(t).ok = b.ok /\ Same(processItem(t).r, b.r)
      BY <2>1, ItemAgrees
    <3>2. Kept(a, p, Bytes) /\ Kept(b, q, Bytes)
      BY <2>1, ItemKeeps
    <3>3. processItems(p) = IF a.ok /\ a.r.stack # <<>> THEN processItems(a.r) ELSE a.r
      BY <2>1, ProcessIs
    <3>4. processItems(q) = IF b.ok /\ b.r.stack # <<>> THEN processItems(b.r) ELSE b.r
      BY <2>1, ProcessIs
    <3> HIDE DEF a, b
    <3>5. a.ok \in BOOLEAN /\ b.ok \in BOOLEAN /\ a.r.err \in BOOLEAN /\ b.r.err \in BOOLEAN
      BY <3>2 DEF Kept, Good, Fields
    <3>6. CASE a.ok
      <4>1. /\ Good(a.r, Bytes) /\ a.r.err = FALSE /\ Len(Rest(a.r)) < Len(Rest(p))
            /\ b.ok /\ Good(b.r, Bytes) /\ b.r.err = FALSE
        BY <3>1, <3>2, <3>6 DEF Kept
      <4>2. Len(Rest(a.r)) \in Nat /\ Len(Rest(p)) \in Nat
        BY <2>1, <4>1, RestIs DEF Ready
      <4>3. Len(Rest(a.r)) < n
        BY <2>1, <4>1, <4>2
      <4>4. Longer(a.r, b.r, x) /\ a.r.stack = b.r.stack
        BY <3>1, <3>6 DEF Longer
      <4>5. CASE a.r.stack = <<>>
        <5>1. processItems(p) = a.r /\ processItems(q) = b.r
          BY <3>3, <3>4, <4>4, <4>5
        <5>2. QED
          BY <4>1, <4>4, <4>5, <5>1 DEF Agrees
      <4>6. CASE a.r.stack # <<>>
        <5>1. Ready(a.r, Bytes) /\ Ready(b.r, Bytes)
          BY <4>1, <4>4, <4>6 DEF Ready
        <5>2. Agrees(processItems(a.r), processItems(b.r), x, Bytes)
          BY <1>2, <4>3, <4>4, <5>1
        <5>3. QED
          BY <3>3, <3>4, <3>6, <4>1, <4>4, <4>6, <5>2
      <4>7. QED
        BY <4>5, <4>6
    <3>7. CASE ~a.ok /\ a.r.err
      <4>1. processItems(p) = a.r /\ processItems(q) = b.r /\ b.r.err
        BY <3>1, <3>3, <3>4, <3>7
      <4>2. QED
        BY <3>5, <3>7, <4>1 DEF Agrees
    <3>8. CASE ~a.ok /\ ~a.r.err
      <4>1. processItems(p) = a.r /\ Ready(a.r, Bytes)
        BY <3>2, <3>3, <3>5, <3>8 DEF Kept
      <4>2. ASSUME NEW t, Ready(t, Bytes), Longer(a.r, t, x)
            PROVE  Same(processItems(t), processItems(q))
        <5> DEFINE c == processItem(t)
        <5>1. c.ok = b.ok /\ Same(c.r, b.r)
          BY <3>1, <3>8, <4>2
        <5>2. Kept(c, t, Bytes)
          BY <4>2, ItemKeeps
        <5>3. processItems(t) = IF c.ok /\ c.r.stack # <<>> THEN processItems(c.r) ELSE c.r
          BY <4>2, ProcessIs
        <5> HIDE DEF c
        <5>4. CASE c.ok /\ c.r.stack # <<>>
          <6>1. Good(c.r, Bytes) /\ c.r.err = FALSE /\ Good(b.r, Bytes) /\ b.r.err = FALSE
            BY <3>2, <5>1, <5>2, <5>4 DEF Kept
          <6>2. b.ok /\ b.r.stack = c.r.stack
            BY <5>1, <5>4, <6>1 DEF Same
          <6>3. Ready(c.r, Bytes) /\ Ready(b.r, Bytes)
            BY <5>4, <6>1, <6>2 DEF Ready
          <6>4. Same(processItems(c.r), processItems(b.r))
            BY <5>1, <6>3, LoopSame
          <6>5. QED
            BY <3>4, <5>3, <5>4, <6>2, <6>4
        <5>5. CASE c.ok /\ c.r.stack = <<>>
          <6>1. c.r.err = FALSE
            BY <5>2, <5>5 DEF Kept
          <6>2. b.r.stack = <<>>
            BY <5>1, <5>5, <6>1 DEF Same
          <6>3. QED
            BY <3>4, <5>1, <5>3, <5>5, <6>2
        <5>6. CASE ~c.ok
          BY <3>4, <5>1, <5>3, <5>6
        <5>7. QED
          BY <5>4, <5>5, <5>6
      <4>3. a.r.stack # <<>>
        BY <4>1 DEF Ready
      <4>4. QED
        BY <3>8, <4>1, <4>2, <4>3 DEF Agrees
    <3>9. QED
      BY <3>6, <3>7, <3>8
  <2>2. QED
    BY <2>1
<1>3. \A n \in Nat : n \in S
  <2> HIDE DEF S
  <2>1. QED
    BY <1>1, <1>2, SetInduction
<1>4. Len(Rest(r)) \in Nat /\ Len(Rest(r)) < Len(Rest(r)) + 1 /\ Len(Rest(r)) + 1 \in Nat
  BY RestIs DEF Ready
<1>5. QED
  BY <1>3, <1>4
-----------------------------------------------------------------------------
(* A reader in the middle of a reply, of which it was given the bytes F,   *)
(* cut somehow: whatever comes next, it does what a reader does that gets  *)
(* all of them at once.                                                    *)

IsFresh(s, F, Bytes) ==
    Ready(s, Bytes) /\ s.stack = <<Untyped>> /\ s.reply = NoReply /\ Rest(s) = F

Follows(r, F, Bytes) ==
    /\ Ready(r, Bytes)
    /\ \A x \in Seq(Bytes) : \A t, s :
         Ready(t, Bytes) /\ Longer(r, t, x) /\ IsFresh(s, F \o x, Bytes)
            => Same(processItems(t), processItems(s))

LEMMA FreshFollows ==
    ASSUME NEW Bytes, NEW F \in Seq(Bytes), NEW r, IsFresh(r, F, Bytes)
    PROVE  Follows(r, F, Bytes)
<1>1. ASSUME NEW x \in Seq(Bytes), NEW t, NEW s,
             Ready(t, Bytes), Longer(r, t, x), IsFresh(s, F \o x, Bytes)
      PROVE  Same(processItems(t), processItems(s))
  <2>1. Same(t, s) /\ Ready(s, Bytes)
    BY <1>1 DEF Longer, Same, IsFresh, Ready
  <2>2. QED
    BY <1>1, <2>1, LoopSame
<1>2. Ready(r, Bytes)
  BY DEF IsFresh
<1>3. QED
  BY <1>1, <1>2 DEF Follows

\* A new reader that is given bytes.
LEMMA FreshIs ==
    ASSUME NEW Bytes, NEW r, Sane(r, Bytes), r.err = FALSE, r.stack = <<>>
    PROVE  IsFresh(Begun(r), Rest(r), Bytes)
<1>1. Good(r, Bytes) /\ r.reply = NoReply
  BY DEF Sane
<1>2. /\ Ready(Begun(r), Bytes) /\ Rest(Begun(r)) = Rest(r)
      /\ Begun(r).reply = r.reply /\ Begun(r).stack = <<Untyped>>
  BY <1>1, BegunIs
<1>3. QED
  BY <1>1, <1>2 DEF IsFresh

NewWith(F) == redisReaderFeed(redisReaderCreate, F)

LEMMA NewWithIs ==
    ASSUME NEW Bytes, NEW F \in Seq(Bytes)
    PROVE  /\ Sane(NewWith(F), Bytes) /\ NewWith(F).err = FALSE /\ NewWith(F).stack = <<>>
           /\ Rest(NewWith(F)) = F
           /\ IsFresh(Begun(NewWith(F)), F, Bytes)
<1> DEFINE c == redisReaderCreate
           r == NewWith(F)
<1>1. Good(c, Bytes) /\ c.err = FALSE /\ c.stack = <<>> /\ Rest(c) = <<>> /\ Sane(c, Bytes)
  BY NewIsGood, NewIsSane
<1>2. r = redisReaderFeed(c, F)
  BY DEF NewWith
<1> HIDE DEF c, r
<1>3. r.err = FALSE /\ r.stack = <<>> /\ Rest(r) = <<>> \o F
  BY <1>1, <1>2, FeedIs
<1>4. Sane(r, Bytes)
  BY <1>1, <1>2, FeedIsSane
<1>5. <<>> \o F = F
  OBVIOUS
<1>6. IsFresh(Begun(r), F, Bytes)
  BY <1>3, <1>4, <1>5, FreshIs
<1>7. QED
  BY <1>3, <1>4, <1>5, <1>6 DEF r

\* More bytes for a reader.
LEMMA FeedIsLonger ==
    ASSUME NEW Bytes, NEW r, Good(r, Bytes), r.err = FALSE, NEW x \in Seq(Bytes)
    PROVE  LET t == redisReaderFeed(r, x) IN
           /\ Ready(Begun(t), Bytes) /\ Longer(Begun(r), Begun(t), x)
           /\ r.stack # <<>> => Ready(t, Bytes) /\ Longer(r, t, x)
<1> DEFINE t == redisReaderFeed(r, x)
<1>1. /\ Good(t, Bytes) /\ t.err = FALSE /\ t.stack = r.stack /\ t.reply = r.reply
      /\ Rest(t) = Rest(r) \o x
  BY FeedIs
<1> HIDE DEF t
<1>2. /\ Ready(Begun(t), Bytes) /\ Rest(Begun(t)) = Rest(t) /\ Begun(t).reply = t.reply
      /\ Begun(t).stack = IF t.stack = <<>> THEN <<Untyped>> ELSE t.stack
  BY <1>1, BegunIs
<1>3. /\ Rest(Begun(r)) = Rest(r) /\ Begun(r).reply = r.reply
      /\ Begun(r).stack = IF r.stack = <<>> THEN <<Untyped>> ELSE r.stack
  BY BegunIs
<1>4. Longer(Begun(r), Begun(t), x)
  BY <1>1, <1>2, <1>3 DEF Longer
<1>5. r.stack # <<>> => Ready(t, Bytes) /\ Longer(r, t, x)
  BY <1>1 DEF Longer, Ready
<1>6. QED
  BY <1>2, <1>4, <1>5 DEF t

LEMMA FollowsMore ==
    ASSUME NEW Bytes, NEW F \in Seq(Bytes), NEW y \in Seq(Bytes), NEW r, Follows(r, F, Bytes),
           NEW t, Ready(t, Bytes), Longer(r, t, y)
    PROVE  Follows(t, F \o y, Bytes)
<1>1. Rest(r) \in Seq(Bytes)
  BY RestIs DEF Follows, Ready
<1>2. ASSUME NEW x \in Seq(Bytes), NEW u, NEW s,
             Ready(u, Bytes), Longer(t, u, x), IsFresh(s, (F \o y) \o x, Bytes)
      PROVE  Same(processItems(u), processItems(s))
  <2>1. (F \o y) \o x = F \o (y \o x) /\ y \o x \in Seq(Bytes)
    OBVIOUS
  <2>2. (Rest(r) \o y) \o x = Rest(r) \o (y \o x)
    <3> DEFINE w == Rest(r)
    <3> HIDE DEF w
    <3>1. w \in Seq(Bytes) => (w \o y) \o x = w \o (y \o x)
      OBVIOUS
    <3>2. QED
      BY <1>1, <3>1 DEF w
  <2>3. Longer(r, u, y \o x)
    BY <1>2, <2>2 DEF Longer
  <2>4. IsFresh(s, F \o (y \o x), Bytes)
    BY <1>2, <2>1
  <2>5. QED
    BY <1>2, <2>1, <2>3, <2>4 DEF Follows
<1>3. QED
  BY <1>2 DEF Follows

\* It goes on like that when it has taken the items that are there.
LEMMA FollowsOn ==
    ASSUME NEW Bytes, NEW F \in Seq(Bytes), NEW r, Follows(r, F, Bytes),
           processItems(r).err = FALSE, processItems(r).stack # <<>>
    PROVE  Follows(processItems(r), F, Bytes)
<1> DEFINE p == processItems(r)
<1>1. Ready(r, Bytes) /\ Good(r, Bytes) /\ r.err = FALSE /\ r.stack # <<>>
  BY DEF Follows, Ready
<1>2. Taken(p, Bytes)
  BY <1>1, ProcessKeeps
<1>3. Ready(p, Bytes)
  BY <1>2 DEF Ready, Taken
<1>4. ASSUME NEW x \in Seq(Bytes), NEW t, NEW s,
             Ready(t, Bytes), Longer(p, t, x), IsFresh(s, F \o x, Bytes)
      PROVE  Same(processItems(t), processItems(s))
  <2> DEFINE u == redisReaderFeed(r, x)
  <2>1. Ready(u, Bytes) /\ Longer(r, u, x)
    BY <1>1, FeedIsLonger
  <2> HIDE DEF u
  <2>2. Agrees(p, processItems(u), x, Bytes)
    BY <1>1, <2>1, LoopAgrees
  <2>3. Same(processItems(u), processItems(s))
    BY <1>4, <2>1 DEF Follows
  <2>4. Same(processItems(t), processItems(u))
    BY <1>4, <2>2 DEF Agrees
  <2>5. QED
    BY <2>3, <2>4 DEF Same
<1> HIDE DEF p
<1>5. Follows(p, F, Bytes)
  BY <1>3, <1>4 DEF Follows
<1>6. QED
  BY <1>5 DEF p

\* What it comes to now.
LEMMA FollowsNow ==
    ASSUME NEW Bytes, NEW F \in Seq(Bytes), NEW r, Follows(r, F, Bytes)
    PROVE  Same(processItems(r), processItems(Begun(NewWith(F))))
<1> DEFINE s == Begun(NewWith(F))
<1>1. IsFresh(s, F, Bytes)
  BY NewWithIs
<1>2. F \o <<>> = F /\ <<>> \in Seq(Bytes)
  OBVIOUS
<1>3. Ready(r, Bytes) /\ Good(r, Bytes) /\ r.err = FALSE
  BY DEF Follows, Ready
<1>4. Longer(r, r, <<>>)
  BY <1>3, LongerByNone DEF Same
<1> HIDE DEF s
<1>5. IsFresh(s, F \o <<>>, Bytes)
  BY <1>1, <1>2
<1>6. Same(processItems(r), processItems(s))
  BY <1>2, <1>3, <1>4, <1>5 DEF Follows
<1>7. QED
  BY <1>6 DEF s

\* Without bytes nothing happens.
LEMMA NothingThere ==
    ASSUME NEW Bytes, NEW r, Ready(r, Bytes), Waits(r), Rest(r) = <<>>
    PROVE  processItems(r) = r
<1>1. processItem(r).ok = FALSE /\ processItem(r).r = r
  <2>1. CASE Current(r).type = "none"
    <3>1. processItem(r) = Stop(r)
      BY <2>1 DEF processItem, ReadType, ProcessTyped, Stop
    <3>2. QED
      BY <3>1 DEF Stop
  <2>2. CASE Current(r).type # "none"
    <3>1. seekNewline(<<>>) = -1
      <4>1. <<>> \in Seq(Bytes) /\ Len(<<>>) = 0
        OBVIOUS
      <4>2. seekNewline(<<>>) = -1 \/ seekNewline(<<>>) \in 0..(Len(<<>>) - 2)
        BY <4>1, NewlineIs
      <4>3. QED
        BY <4>1, <4>2
    <3>2. Current(r).type \in Types
      BY CurrentIs DEF Task
    <3>3. Decision(r) = Wait
      <4>1. CASE Current(r).type \in {"ERROR", "STATUS", "INTEGER"}
        BY <3>1, <4>1 DEF Decision, Decide, DecideLine
      <4>2. CASE Current(r).type = "STRING"
        BY <3>1, <4>2 DEF Decision, Decide, DecideBulk
      <4>3. CASE Current(r).type = "ARRAY"
        BY <3>1, <4>3 DEF Decision, Decide, DecideArray, Waits
      <4>4. QED
        BY <2>2, <3>2, <4>1, <4>2, <4>3, TypesAre
    <3>4. processItem(r) = Stop(r)
      BY <2>2, <3>3, TypedAlready DEF Carry, Wait
    <3>5. QED
      BY <3>4 DEF Stop
  <2>3. QED
    BY <2>1, <2>2
<1>2. QED
  BY <1>1, ProcessIs

LEMMA NothingYet ==
    ASSUME NEW Bytes, NEW r, Follows(r, <<>>, Bytes)
    PROVE  processItems(r).err = FALSE /\ processItems(r).stack # <<>>
<1> DEFINE s == Begun(NewWith(<<>>))
<1>1. <<>> \in Seq(Bytes)
  OBVIOUS
<1>2. IsFresh(s, <<>>, Bytes)
  BY <1>1, NewWithIs
<1>3. Same(processItems(r), processItems(s))
  BY <1>1, FollowsNow
<1> HIDE DEF s
<1>4. Ready(s, Bytes) /\ Rest(s) = <<>> /\ Current(s) = Untyped
  <2>1. s.stack = <<Untyped>> /\ s.stack[Len(s.stack)] = Untyped
    BY <1>2 DEF IsFresh
  <2>2. QED
    BY <1>2, <2>1 DEF IsFresh, Current, Last
<1>5. Waits(s)
  BY <1>4 DEF Waits, Untyped
<1>6. processItems(s) = s
  BY <1>4, <1>5, NothingThere
<1>7. processItems(r).err = s.err
  BY <1>3, <1>6 DEF Same
<1>8. s.err = FALSE /\ s.stack # <<>>
  BY <1>4 DEF Ready
<1>9. QED
  BY <1>3, <1>6, <1>7, <1>8 DEF Same
-----------------------------------------------------------------------------
(* The bytes of an answer, and what a reader makes of them.                *)

\* Read whole, they are the reply, or not one.
IsAnswer(bytes, reply, Bytes) ==
    /\ bytes \in Seq(Bytes) /\ bytes # <<>>
    /\ LET read == redisReaderGetReply(redisReaderFeed(redisReaderCreate, bytes)) IN
       IF reply = NoReply THEN read.r.err
       ELSE read.r.err = FALSE /\ read.reply = reply /\ Rest(read.r) = <<>>

LEMMA WholeAnswer ==
    ASSUME NEW Bytes, NEW bytes, NEW reply, IsAnswer(bytes, reply, Bytes)
    PROVE  LET q == processItems(Begun(NewWith(bytes))) IN
           IF reply = NoReply THEN q.err
           ELSE q.err = FALSE /\ q.stack = <<>> /\ q.reply = reply /\ Rest(q) = <<>>
<1> DEFINE r == NewWith(bytes)
           q == processItems(Begun(r))
           next == redisReaderGetReply(r)
<1>1. bytes \in Seq(Bytes) /\ bytes # <<>>
  BY DEF IsAnswer
<1>2. Sane(r, Bytes) /\ r.err = FALSE /\ Rest(r) = bytes
  BY <1>1, NewWithIs
<1>3. IF reply = NoReply THEN next.r.err
      ELSE next.r.err = FALSE /\ next.reply = reply /\ Rest(next.r) = <<>>
  BY DEF IsAnswer, NewWith
<1> HIDE DEF r
<1>4. r.len # 0
  <2>1. Good(r, Bytes)
    BY <1>2 DEF Sane
  <2>2. Len(Rest(r)) = r.len - r.pos /\ r.len \in Nat /\ r.pos \in Nat /\ Len(Rest(r)) \in Nat
        /\ Rest(r) \in Seq(Bytes)
    BY <2>1, RestIs
  <2>3. Len(bytes) # 0
    BY <1>1
  <2>4. QED
    BY <1>2, <2>2, <2>3
<1>5. \/ q.err /\ next.r.err /\ next.reply = NoReply
      \/ /\ q.err = FALSE /\ next.r.err = FALSE /\ Rest(next.r) = Rest(q)
         /\ IF q.stack = <<>> THEN next.reply = q.reply ELSE next.reply = NoReply
  BY <1>2, <1>4, GetReplyIs
<1> HIDE DEF q, next
<1>6. QED
  BY <1>3, <1>5 DEF q, r

\* The answer is there, and more.
LEMMA AnswerIsThere ==
    ASSUME NEW Bytes, NEW bytes, NEW reply, IsAnswer(bytes, reply, Bytes),
           NEW y \in Seq(Bytes), NEW r, Follows(r, bytes \o y, Bytes)
    PROVE  LET q == processItems(r) IN
           IF reply = NoReply THEN q.err
           ELSE q.err = FALSE /\ q.stack = <<>> /\ q.reply = reply /\ Rest(q) = y
<1> DEFINE F == bytes \o y
           a == Begun(NewWith(bytes))
           b == Begun(NewWith(F))
           p == processItems(a)
           q == processItems(b)
<1>1. bytes \in Seq(Bytes) /\ F \in Seq(Bytes)
  BY DEF IsAnswer
<1>2. IF reply = NoReply THEN p.err
      ELSE p.err = FALSE /\ p.stack = <<>> /\ p.reply = reply /\ Rest(p) = <<>>
  BY WholeAnswer
<1>3. IsFresh(a, bytes, Bytes)
  BY <1>1, NewWithIs
<1>4. IsFresh(b, F, Bytes)
  BY <1>1, NewWithIs
<1>5. Same(processItems(r), q)
  BY <1>1, FollowsNow
<1> HIDE DEF a, b
<1>6. Ready(a, Bytes) /\ Ready(b, Bytes) /\ Longer(a, b, y)
  BY <1>3, <1>4 DEF IsFresh, Longer
<1>7. Agrees(p, q, y, Bytes)
  BY <1>6, LoopAgrees
<1>8. Taken(q, Bytes)
  BY <1>6, ProcessKeeps
<1> HIDE DEF p, q
<1>9. q.err \in BOOLEAN
  BY <1>8 DEF Taken, Good, Fields
<1>10. <<>> \o y = y
  OBVIOUS
<1>11. IF reply = NoReply THEN q.err
       ELSE q.err = FALSE /\ q.stack = <<>> /\ q.reply = reply /\ Rest(q) = y
  BY <1>2, <1>7, <1>9, <1>10 DEF Agrees, Longer
<1>12. QED
  BY <1>5, <1>11 DEF Same

\* A part of it is there only.
LEMMA AnswerIsShort ==
    ASSUME NEW Bytes, NEW bytes, NEW reply, IsAnswer(bytes, reply, Bytes),
           NEW F \in Seq(Bytes), NEW y \in Seq(Bytes), y # <<>>, bytes = F \o y,
           NEW r, Follows(r, F, Bytes)
    PROVE  LET q == processItems(r) IN
           /\ q.err => reply = NoReply
           /\ q.err = FALSE => q.stack # <<>>
<1> DEFINE a == Begun(NewWith(F))
           b == Begun(NewWith(bytes))
           p == processItems(a)
           q == processItems(b)
<1>1. bytes \in Seq(Bytes)
  BY DEF IsAnswer
<1>2. IF reply = NoReply THEN q.err
      ELSE q.err = FALSE /\ q.stack = <<>> /\ q.reply = reply /\ Rest(q) = <<>>
  BY WholeAnswer
<1>3. IsFresh(a, F, Bytes)
  BY NewWithIs
<1>4. IsFresh(b, bytes, Bytes)
  BY <1>1, NewWithIs
<1>5. Same(processItems(r), p)
  BY FollowsNow
<1> HIDE DEF a, b
<1>6. Ready(a, Bytes) /\ Ready(b, Bytes) /\ Longer(a, b, y)
  BY <1>3, <1>4 DEF IsFresh, Longer
<1>7. Agrees(p, q, y, Bytes)
  BY <1>6, LoopAgrees
<1>8. Taken(p, Bytes)
  BY <1>6, ProcessKeeps
<1> HIDE DEF p, q
<1>9. p.err \in BOOLEAN /\ Good(p, Bytes)
  BY <1>8 DEF Taken, Good, Fields
<1>10. p.err => reply = NoReply
  BY <1>2, <1>7 DEF Agrees
<1>11. ASSUME p.err = FALSE, p.stack = <<>>
       PROVE  FALSE
  <2>1. ~q.err /\ Longer(p, q, y)
    BY <1>7, <1>11 DEF Agrees
  <2>2. Rest(q) = Rest(p) \o y /\ Rest(q) = <<>>
    BY <1>2, <2>1 DEF Longer
  <2>3. Rest(p) \in Seq(Bytes)
    BY <1>9, RestIs
  <2> DEFINE w == Rest(p)
  <2>4. w \in Seq(Bytes) /\ w \o y = <<>>
    BY <2>2, <2>3
  <2> HIDE DEF w
  <2>5. Len(w \o y) = Len(w) + Len(y) /\ Len(w) \in Nat /\ Len(y) \in Nat /\ Len(y) # 0
    BY <2>4
  <2>6. QED
    BY <2>4, <2>5
<1>12. QED
  BY <1>5, <1>9, <1>10, <1>11 DEF Same
-----------------------------------------------------------------------------
(* For any bytes, cut in two anywhere.                                     *)

\* A reply that is complete is not NULL.
LEMMA ReplyWithIsOne ==
    ASSUME NEW stack, NEW reply, NEW obj
    PROVE  ReplyWith(stack, reply, obj) # NoReply
<1> DEFINE place == [i \in 1..(Len(stack) - 1) |-> stack[i + 1].idx]
           one == [p \in {Root} |-> obj]
           more == [p \in DOMAIN reply \cup {place} |-> IF p = place THEN obj ELSE reply[p]]
<1>1. DOMAIN NoReply = {}
  BY DEF NoReply
<1>2. ReplyWith(stack, reply, obj) = one \/ ReplyWith(stack, reply, obj) = more
  BY DEF ReplyWith
<1>3. DOMAIN one # {}
  OBVIOUS
<1>4. DOMAIN more # {}
  <2> HIDE DEF place
  <2>1. place \in DOMAIN more
    OBVIOUS
  <2>2. QED
    BY <2>1
<1> HIDE DEF one, more
<1>5. QED
  BY <1>1, <1>2, <1>3, <1>4

LEMMA CarryCreates ==
    ASSUME NEW Bytes, NEW r, Ready(r, Bytes), Current(r).type # "none",
           Carry(r, Decision(r)).ok
    PROVE  Carry(r, Decision(r)).r.reply # NoReply
<1> DEFINE d == Decision(r)
           m == d.taken
           obj == d.obj
           p == Past(r, m)
           c == Create(p, obj)
<1>1. Good(r, Bytes) /\ r.err = FALSE /\ Rest(r) \in Seq(Bytes) /\ Len(Rest(r)) \in Nat
  BY RestIs DEF Ready
<1>2. /\ d.is \in {"wait", "bad", "whole", "array"}
      /\ d.is \in {"whole", "array"} => d.taken \in 2..Len(Rest(r))
      /\ d.is = "array" => /\ Len(r.stack) # STACK
                           /\ Current(r).type \notin {"ERROR", "STATUS", "INTEGER", "STRING"}
                           /\ d.obj.elements \in Nat
  BY <1>1, DecidedBytes DEF Decision
<1> HIDE DEF d
<1>3. d.is # "wait" /\ d.is # "bad"
  <2>1. d.is = "wait" => Carry(r, d).ok = FALSE
    BY DEF Carry, Stop
  <2>2. d.is = "bad" => Carry(r, d).ok = FALSE
    BY FailIsGood DEF Carry
  <2>3. QED
    BY <2>1, <2>2 DEF d
<1>4. m \in 0..Len(Rest(r))
  BY <1>1, <1>2, <1>3
<1> HIDE DEF m, obj
<1>5. Good(p, Bytes) /\ p.err = FALSE /\ p.stack = r.stack
  BY <1>1, <1>4, PastIsGood
<1> HIDE DEF p
<1>6. Good(c, Bytes) /\ c.err = FALSE /\ c.stack = r.stack
  BY <1>5, CreateIsGood
<1>7. c.reply # NoReply
  BY <1>5, CreateSame, ReplyWithIsOne
<1> HIDE DEF c
<1>8. CASE d.is = "whole"
  <2>1. Carry(r, d).r = moveToNextTask(c)
    BY <1>8 DEF Carry, Complete, Done, c, p, m, obj
  <2>2. moveToNextTask(c).reply = c.reply
    BY <1>6, NextIsGood
  <2>3. QED
    BY <1>7, <2>1, <2>2 DEF d
<1>9. CASE d.is = "array"
  <2> DEFINE n == d.obj.elements
  <2>1. Carry(r, d) = Elements(c, n)
    BY <1>9 DEF Carry, c, p, m, obj
  <2>2. Ready(c, Bytes) /\ Current(c) = Current(r) /\ n \in Nat
    BY <1>2, <1>6, <1>9 DEF Ready, Current
  <2>3. Current(r).type = "ARRAY" /\ Len(r.stack) < STACK
    <3>1. Current(r).type \in Types /\ Len(r.stack) \in 1..STACK /\ STACK \in Nat
      BY CurrentIs, ReaderAssumption DEF Task
    <3>2. QED
      BY <1>2, <1>9, <3>1, TypesAre
  <2> HIDE DEF n
  <2>4. Elements(c, n).r.reply = c.reply
    <3>1. Ready(c, Bytes) /\ n \in Nat /\ Len(c.stack) < STACK /\ Current(c).type = "ARRAY"
      BY <1>6, <2>2, <2>3
    <3>2. QED
      BY <3>1, ElementsIsGood
  <2>5. QED
    BY <1>7, <2>1, <2>4 DEF d
<1>10. QED
  BY <1>2, <1>3, <1>8, <1>9

LEMMA ItemCreates ==
    ASSUME NEW Bytes, NEW r, Ready(r, Bytes), processItem(r).ok
    PROVE  processItem(r).r.reply # NoReply
<1>1. CASE Current(r).type # "none"
  <2>1. processItem(r) = Carry(r, Decision(r))
    BY <1>1, TypedAlready
  <2>2. QED
    BY <1>1, <2>1, CarryCreates
<1>2. CASE Current(r).type = "none"
  <2>1. Rest(r) # <<>> /\ Head(Rest(r)) \in DOMAIN TypeOfByte
    <3>1. CASE Rest(r) = <<>>
      <4>1. processItem(r) = Stop(r)
        BY <1>2, <3>1 DEF processItem, ReadType, ProcessTyped, Stop
      <4>2. QED
        BY <4>1 DEF Stop
    <3>2. CASE Rest(r) # <<>> /\ Head(Rest(r)) \notin DOMAIN TypeOfByte
      <4>1. ReadType(r) = Fail(r)
        BY <1>2, <3>2 DEF ReadType
      <4>2. processItem(r).ok = FALSE
        BY <4>1, FailIsGood DEF processItem, ProcessTyped
      <4>3. QED
        BY <4>2
    <3>3. QED
      BY <3>1, <3>2
  <2> DEFINE t == Typed(r)
  <2>2. /\ Ready(t, Bytes) /\ Current(t).type # "none"
        /\ processItem(r) = Carry(t, Decision(t))
    BY <1>2, <2>1, TypedFirst
  <2> HIDE DEF t
  <2>3. QED
    BY <2>2, CarryCreates
<1>3. QED
  BY <1>1, <1>2

LEMMA LoopCreates ==
    ASSUME NEW Bytes, NEW r, Ready(r, Bytes),
           processItems(r).err = FALSE, processItems(r).stack = <<>>
    PROVE  processItems(r).reply # NoReply
<1> DEFINE S == {n \in Nat : \A p : /\ Ready(p, Bytes) /\ Len(Rest(p)) < n
                                    /\ processItems(p).err = FALSE
                                    /\ processItems(p).stack = <<>>
                                    => processItems(p).reply # NoReply}
<1>1. 0 \in S
  <2>1. ASSUME NEW p, Ready(p, Bytes)
        PROVE  ~(Len(Rest(p)) < 0)
    <3>1. Len(Rest(p)) \in Nat
      BY <2>1, RestIs DEF Ready
    <3>2. QED
      BY <3>1
  <2>2. QED
    BY <2>1
<1>2. ASSUME NEW n \in Nat, n \in S
      PROVE  n + 1 \in S
  <2>1. ASSUME NEW p, Ready(p, Bytes), Len(Rest(p)) < n + 1,
               processItems(p).err = FALSE, processItems(p).stack = <<>>
        PROVE  processItems(p).reply # NoReply
    <3> DEFINE a == processItem(p)
    <3>1. Kept(a, p, Bytes)
      BY <2>1, ItemKeeps
    <3>2. processItems(p) = IF a.ok /\ a.r.stack # <<>> THEN processItems(a.r) ELSE a.r
      BY <2>1, ProcessIs
    <3>3. a.ok => a.r.reply # NoReply
      BY <2>1, ItemCreates
    <3> HIDE DEF a
    <3>4. CASE a.ok /\ a.r.stack # <<>>
      <4>1. Good(a.r, Bytes) /\ a.r.err = FALSE /\ Len(Rest(a.r)) < Len(Rest(p))
        BY <3>1, <3>4 DEF Kept
      <4>2. Len(Rest(a.r)) \in Nat /\ Len(Rest(p)) \in Nat
        BY <2>1, <4>1, RestIs DEF Ready
      <4>3. Len(Rest(a.r)) < n
        BY <2>1, <4>1, <4>2
      <4>4. Ready(a.r, Bytes) /\ processItems(p) = processItems(a.r)
        BY <3>2, <3>4, <4>1 DEF Ready
      <4>5. QED
        BY <1>2, <2>1, <4>3, <4>4
    <3>5. CASE a.ok /\ a.r.stack = <<>>
      BY <3>2, <3>3, <3>5
    <3>6. CASE ~a.ok
      <4>1. processItems(p) = a.r
        BY <3>2, <3>6
      <4>2. Ready(a.r, Bytes)
        BY <2>1, <3>1, <3>6, <4>1 DEF Kept
      <4>3. QED
        BY <2>1, <4>1, <4>2 DEF Ready
    <3>7. QED
      BY <3>4, <3>5, <3>6
  <2>2. \A p : /\ Ready(p, Bytes) /\ Len(Rest(p)) < n + 1
               /\ processItems(p).err = FALSE
               /\ processItems(p).stack = <<>>
               => processItems(p).reply # NoReply
    BY <2>1
  <2>3. n + 1 \in Nat
    OBVIOUS
  <2>4. QED
    BY <2>2, <2>3
<1>3. \A n \in Nat : n \in S
  <2> HIDE DEF S
  <2>1. QED
    BY <1>1, <1>2, SetInduction
<1>4. Len(Rest(r)) \in Nat /\ Len(Rest(r)) < Len(Rest(r)) + 1 /\ Len(Rest(r)) + 1 \in Nat
  BY RestIs DEF Ready
<1>5. QED
  BY <1>3, <1>4

\* The three ends of a call: an error, a reply, or what it left off at.
LEMMA GetReplyEnds ==
    ASSUME NEW Bytes, NEW r, Sane(r, Bytes), r.err = FALSE
    PROVE  LET next == redisReaderGetReply(r)
               q == processItems(Begun(r))
           IN  /\ Sane(next.r, Bytes) /\ Taken(q, Bytes) /\ next.r.err = q.err
               /\ q.err => next.reply = NoReply
               /\ q.err = FALSE /\ q.stack = <<>> =>
                    /\ next.reply = q.reply /\ next.reply # NoReply
                    /\ next.r.stack = <<>> /\ Rest(next.r) = Rest(q)
               /\ q.err = FALSE /\ q.stack # <<>> =>
                    /\ next.reply = NoReply
                    /\ Longer(q, Begun(next.r), <<>>) /\ Ready(Begun(next.r), Bytes)
<1> DEFINE next == redisReaderGetReply(r)
           b == Begun(r)
           q == processItems(b)
<1>1. Good(r, Bytes)
  BY DEF Sane
<1>2. /\ Ready(b, Bytes) /\ Rest(b) = Rest(r) /\ b.reply = r.reply
      /\ b.stack = IF r.stack = <<>> THEN <<Untyped>> ELSE r.stack
  BY <1>1, BegunIs
<1>3. /\ Sane(next.r, Bytes)
      /\ \/ r.len = 0 /\ next.r = r /\ next.reply = NoReply
         \/ q.err /\ next.r.err /\ next.reply = NoReply
         \/ /\ q.err = FALSE /\ next.r.err = FALSE
            /\ next.r.stack = q.stack /\ Rest(next.r) = Rest(q)
            /\ IF q.stack = <<>> THEN next.reply = q.reply /\ next.r.reply = NoReply
               ELSE next.reply = NoReply /\ next.r.reply = q.reply
  BY GetReplyIs
<1> HIDE DEF b
<1>4. Taken(q, Bytes)
  BY <1>2, ProcessKeeps
<1>5. q.err = FALSE /\ q.stack = <<>> => q.reply # NoReply
  BY <1>2, LoopCreates
<1>6. CASE r.len = 0 /\ next.r = r /\ next.reply = NoReply
  <2>1. Rest(b) = <<>>
    <3>1. Len(Rest(r)) \in Nat /\ Len(Rest(r)) = r.len - r.pos /\ r.pos \in Nat
          /\ r.pos <= r.len /\ Rest(r) \in Seq(Bytes)
      BY <1>1, RestIs
    <3>2. Len(Rest(r)) = 0
      BY <1>6, <3>1
    <3>3. QED
      BY <1>2, <3>1, <3>2
  <2>2. Waits(b)
    <3>1. CASE r.stack = <<>>
      <4>1. b.stack[Len(b.stack)] = Untyped
        BY <1>2, <3>1
      <4>2. QED
        BY <4>1 DEF Waits, Current, Last, Untyped
    <3>2. CASE r.stack # <<>>
      <4>1. Waits(r)
        BY <3>2 DEF Sane
      <4>2. QED
        BY <1>2, <3>2, <4>1 DEF Waits, Current
    <3>3. QED
      BY <3>1, <3>2
  <2>3. q = b
    BY <1>2, <2>1, <2>2, NothingThere
  <2>4. Begun(next.r) = b
    BY <1>6 DEF b
  <2>5. b.err = FALSE /\ b.stack # <<>> /\ Good(b, Bytes)
    BY <1>2 DEF Ready
  <2>6. Longer(b, b, <<>>)
    BY <2>5, LongerByNone DEF Same
  <2> HIDE DEF next, q
  <2>7. QED
    BY <1>2, <1>3, <1>4, <1>6, <2>3, <2>4, <2>5, <2>6 DEF next, q, b
<1>7. CASE q.err /\ next.r.err /\ next.reply = NoReply
  <2>1. q.err = TRUE /\ next.r.err = TRUE
    <3>1. q.err \in BOOLEAN
      BY <1>4 DEF Taken, Good, Fields
    <3>2. next.r.err \in BOOLEAN
      BY <1>3 DEF Sane, Good, Fields
    <3>3. QED
      BY <1>7, <3>1, <3>2
  <2> HIDE DEF next, q
  <2>2. QED
    BY <1>3, <1>4, <1>7, <2>1 DEF next, q, b
<1>8. CASE /\ q.err = FALSE /\ next.r.err = FALSE
           /\ next.r.stack = q.stack /\ Rest(next.r) = Rest(q)
           /\ IF q.stack = <<>> THEN next.reply = q.reply /\ next.r.reply = NoReply
              ELSE next.reply = NoReply /\ next.r.reply = q.reply
  <2>1. CASE q.stack = <<>>
    <3> HIDE DEF next, q
    <3>1. QED
      BY <1>3, <1>4, <1>5, <1>8, <2>1 DEF next, q, b
  <2>2. CASE q.stack # <<>>
    <3>1. Begun(next.r) = next.r
      BY <1>8, <2>2 DEF Begun
    <3>2. Good(next.r, Bytes) /\ Good(q, Bytes)
      BY <1>3, <1>4 DEF Sane, Taken
    <3> HIDE DEF next, q
    <3>3. Same(q, next.r)
      BY <1>8, <2>2 DEF Same
    <3>4. Longer(q, next.r, <<>>) /\ Ready(next.r, Bytes)
      <4>1. Longer(q, next.r, <<>>)
        BY <1>8, <3>2, <3>3, LongerByNone
      <4>2. QED
        BY <1>8, <2>2, <3>2, <4>1 DEF Ready
    <3>5. QED
      BY <1>3, <1>4, <1>8, <2>2, <3>1, <3>4 DEF next, q, b
  <2>3. QED
    BY <2>1, <2>2
<1>9. QED
  BY <1>3, <1>6, <1>7, <1>8

\* However the bytes of a reply are cut in two, the user is given the same
\* (read.c:449): what the first part is enough for, a reply or an error, is
\* not changed by what follows; and a reader that has left off in it ends, with
\* the other part, as one that is given all at once.
THEOREM CutAnywhere ==
    ASSUME NEW Bytes, NEW x \in Seq(Bytes), NEW y \in Seq(Bytes)
    PROVE  LET first == redisReaderGetReply(NewWith(x))
               then  == redisReaderGetReply(redisReaderFeed(first.r, y))
               whole == redisReaderGetReply(NewWith(x \o y))
           IN  /\ first.r.err => whole.r.err /\ whole.reply = NoReply
               /\ first.reply # NoReply =>
                    /\ ~whole.r.err /\ whole.reply = first.reply
                    /\ Rest(whole.r) = Rest(first.r) \o y
               /\ ~first.r.err /\ first.reply = NoReply =>
                    /\ then.r.err = whole.r.err /\ then.reply = whole.reply
                    /\ whole.reply # NoReply => Rest(then.r) = Rest(whole.r)
<1> DEFINE a == NewWith(x)
           b == NewWith(x \o y)
           first == redisReaderGetReply(a)
           c == redisReaderFeed(first.r, y)
           then == redisReaderGetReply(c)
           whole == redisReaderGetReply(b)
           p == processItems(Begun(a))
           q == processItems(Begun(b))
           t == processItems(Begun(c))
<1>1. x \o y \in Seq(Bytes)
  OBVIOUS
<1>2. Sane(a, Bytes) /\ a.err = FALSE /\ IsFresh(Begun(a), x, Bytes)
  BY NewWithIs
<1>3. Sane(b, Bytes) /\ b.err = FALSE /\ IsFresh(Begun(b), x \o y, Bytes)
  BY <1>1, NewWithIs
<1> HIDE DEF a, b
<1>4. /\ Sane(first.r, Bytes) /\ Taken(p, Bytes) /\ first.r.err = p.err
      /\ p.err => first.reply = NoReply
      /\ p.err = FALSE /\ p.stack = <<>> =>
           /\ first.reply = p.reply /\ first.reply # NoReply
           /\ first.r.stack = <<>> /\ Rest(first.r) = Rest(p)
      /\ p.err = FALSE /\ p.stack # <<>> =>
           /\ first.reply = NoReply
           /\ Longer(p, Begun(first.r), <<>>) /\ Ready(Begun(first.r), Bytes)
  BY <1>2, GetReplyEnds
<1>5. /\ Sane(whole.r, Bytes) /\ Taken(q, Bytes) /\ whole.r.err = q.err
      /\ q.err => whole.reply = NoReply
      /\ q.err = FALSE /\ q.stack = <<>> =>
           whole.reply = q.reply /\ whole.reply # NoReply /\ Rest(whole.r) = Rest(q)
      /\ q.err = FALSE /\ q.stack # <<>> => whole.reply = NoReply
  BY <1>3, GetReplyEnds
<1>6. Ready(Begun(a), Bytes) /\ Ready(Begun(b), Bytes) /\ Longer(Begun(a), Begun(b), y)
  BY <1>2, <1>3 DEF IsFresh, Longer
<1>7. Agrees(p, q, y, Bytes)
  BY <1>6, LoopAgrees
<1>8. p.err \in BOOLEAN /\ q.err \in BOOLEAN /\ Good(p, Bytes)
  BY <1>4, <1>5 DEF Taken, Good, Fields
<1>9. ASSUME p.err = FALSE, p.stack # <<>>
      PROVE  /\ then.r.err = whole.r.err /\ then.reply = whole.reply
             /\ whole.reply # NoReply => Rest(then.r) = Rest(whole.r)
  <2> HIDE DEF p, q, first, whole
  <2>1. Good(first.r, Bytes) /\ first.r.err = FALSE
    BY <1>4, <1>9 DEF Sane
  <2>2. Ready(Begun(c), Bytes) /\ Longer(Begun(first.r), Begun(c), y)
    BY <2>1, FeedIsLonger
  <2>3. Sane(c, Bytes) /\ c.err = FALSE
    <3>1. Sane(c, Bytes)
      BY <1>4, FeedIsSane
    <3>2. c.err = FALSE
      BY <2>1, FeedIs, ZenonT(40)
    <3>3. QED
      BY <3>1, <3>2
  <2> HIDE DEF c
  <2>4. Longer(p, Begun(c), y)
    <3> DEFINE w == Rest(p)
    <3>1. w \in Seq(Bytes)
      BY <1>8, RestIs
    <3> HIDE DEF w
    <3>2. w \o <<>> = w
      BY <3>1
    <3>3. QED
      BY <1>4, <1>9, <2>2, <3>2 DEF Longer, w
  <2>5. Same(t, q)
    BY <1>7, <1>9, <2>2, <2>4 DEF Agrees
  <2>6. /\ then.r.err = t.err
        /\ t.err => then.reply = NoReply
        /\ t.err = FALSE /\ t.stack = <<>> => then.reply = t.reply /\ Rest(then.r) = Rest(t)
        /\ t.err = FALSE /\ t.stack # <<>> => then.reply = NoReply
    BY <2>3, GetReplyEnds
  <2> HIDE DEF t, then
  <2>7. QED
    BY <1>5, <1>8, <2>5, <2>6 DEF Same
<1>10. ASSUME p.err = FALSE, p.stack = <<>>
       PROVE  /\ ~whole.r.err /\ whole.reply = first.reply
              /\ Rest(whole.r) = Rest(first.r) \o y
  <2> HIDE DEF p, q, first, whole
  <2>1. ~q.err /\ q.stack = <<>> /\ Longer(p, q, y)
    BY <1>7, <1>10 DEF Agrees
  <2>2. QED
    BY <1>4, <1>5, <1>8, <1>10, <2>1 DEF Longer
<1>11. p.err => q.err
  BY <1>7 DEF Agrees
<1> HIDE DEF p, q, first, then, whole
<1>12. QED
  BY <1>4, <1>5, <1>8, <1>9, <1>10, <1>11 DEF first, then, whole, c, a, b
-----------------------------------------------------------------------------
(* The descriptor, and what connect reports.                               *)

Connects == {"resolve", "socket", "prepare", "unix", "connect", "wait", "finish"}
Returned == {"idle", "write", "read"}

\* Where the call is says whether there is a descriptor.  A context of a Unix
\* socket stays one: redisReconnect looks at its connection_type.
Owned ==
    /\ how \in Hows /\ ctype \in {"TCP", "UNIX"}
    /\ pc \in Connects \cup Returned \cup {"freed"}
    /\ pc = "unix" \/ ctype = "UNIX" => how.kind = "UNIX"
    /\ pc \in Connects => err = "none" /\ conn = "none"
    /\ pc = "freed" => conn = "none"
    /\ open \subseteq {fd}
    /\ pc \in {"resolve", "socket", "unix", "freed"} => open = {}
    /\ pc \in {"prepare", "connect", "wait", "finish"} => open = {fd}
    /\ pc \in Returned /\ err = "none" =>
         /\ fd \in open
         /\ conn = "none" =>
              how.reuse \/ (how.kind = "UNIX" /\ how.timeout = "invalid")

LEMMA OwnedInit == Init => Owned
<1> SUFFICES ASSUME Init PROVE Owned
  OBVIOUS
<1>1. how.kind \in {"TCP", "UNIX"}
  BY HiredisAssumption DEF Init
<1>2. QED
  BY <1>1 DEF Init, Owned, First, Connects, Returned

LEMMA OwnedNext == Owned /\ [Next]_vars => Owned'
<1> SUFFICES ASSUME Owned, [Next]_vars PROVE Owned'
  OBVIOUS
<1> USE DEF Owned, Connects, Returned
<1>1. CASE Resolve
  BY <1>1 DEF Resolve, Return, network
<1>2. CASE Socket
  BY <1>2 DEF Socket, NewSocket, Return, network
<1>3. CASE Prepare
  BY <1>3 DEF Prepare, FailAndClose, Return, network
<1>4. CASE UnixSocket
  BY <1>4 DEF UnixSocket, NewSocket, Return, network
<1>5. CASE ConnectCall
  BY <1>5 DEF ConnectCall, Unreachable, NotAvailable, Refused, FailAndClose, Return, network
<1>6. CASE WaitReady
  BY <1>6 DEF WaitReady, FailAndClose, Return, network
<1>7. CASE Finish
  BY <1>7 DEF Finish, FailAndClose, Return
<1>8. CASE Reconnect
  BY <1>8 DEF Reconnect, First
<1>9. CASE Free
  BY <1>9 DEF Free, context
<1>10. ASSUME NEW c \in Commands, AppendCommand(c)
       PROVE  Owned'
  BY <1>10 DEF AppendCommand, AppendFormatted, connecting, connect, network
<1>11. CASE GetReply
  BY <1>11 DEF GetReply, FromReader, Return, connecting, connect, network
<1>12. CASE Write
  BY <1>12 DEF Write, WriteSome, Return, connecting, connect
<1>13. CASE Read
  BY <1>13 DEF Read, ReadFails, FromReader, Return, connecting, connect
<1>14. CASE BufferWrite
  BY <1>14 DEF BufferWrite, WriteSome, Return, connecting, connect
<1>15. CASE BufferRead
  BY <1>15 DEF BufferRead, ReadFails, Return, connecting, connect
<1>16. CASE SetTimeout
  BY <1>16 DEF SetTimeout, connecting, connect, network
<1>17. CASE Serve
  BY <1>17 DEF Serve, context, connect
<1>18. CASE Close
  BY <1>18 DEF Close, context, connect
<1>19. CASE Reset
  BY <1>19 DEF Reset, context, connect
<1>20. CASE UNCHANGED vars
  BY <1>20 DEF vars, context, connect, network
<1>21. CASE Freed
  BY <1>20, <1>21 DEF Freed
<1>22. QED
  BY <1>1, <1>2, <1>3, <1>4, <1>5, <1>6, <1>7, <1>8, <1>9, <1>10, <1>11, <1>12, <1>13,
     <1>14, <1>15, <1>16, <1>17, <1>18, <1>19, <1>20, <1>21 DEF Next, Connecting, User

\* The only descriptor that is open is the context's, none after redisFree,
\* and a call that is not told of an error has it: however often connect is
\* refused and tried again (net.c, hiredis.c:629).
THEOREM DescriptorOwnedHolds == Spec => []DescriptorOwned
<1>1. Owned => DescriptorOwned
  BY DEF Owned, DescriptorOwned, Returned
<1>2. QED
  BY <1>1, OwnedInit, OwnedNext, PTL DEF Spec

\* A connect without an error has connected, but for its two exceptions: a
\* reused address and an invalid timeout of a Unix socket (net.c:384, 457).
THEOREM ConnectReportsHolds == Spec => []ConnectReports
<1>1. Owned => ConnectReports
  BY DEF Owned, ConnectReports, Returned
<1>2. QED
  BY <1>1, OwnedInit, OwnedNext, PTL DEF Spec
-----------------------------------------------------------------------------
(* Parts of a sequence of bytes.                                           *)

LEMMA SliceIs ==
    ASSUME NEW S, NEW s \in Seq(S), NEW i \in Nat, NEW j \in Nat, i <= j, j <= Len(s)
    PROVE  /\ SubSeq(s, i + 1, j) \in Seq(S) /\ Len(SubSeq(s, i + 1, j)) = j - i
           /\ \A k \in 1..(j - i) : SubSeq(s, i + 1, j)[k] = s[i + k]
<1>1. \A k \in (i + 1)..j : s[k] \in S
  OBVIOUS
<1>2. i + 1 \in Int /\ j \in Int
  OBVIOUS
<1>3. /\ SubSeq(s, i + 1, j) \in Seq(S)
      /\ Len(SubSeq(s, i + 1, j)) = IF i + 1 <= j THEN j - (i + 1) + 1 ELSE 0
      /\ \A k \in 1..(j - (i + 1) + 1) : SubSeq(s, i + 1, j)[k] = s[i + 1 + k - 1]
  BY <1>1, <1>2, SubSeqProperties
<1>4. j - (i + 1) + 1 = j - i /\ \A k \in 1..(j - i) : i + 1 + k - 1 = i + k
  OBVIOUS
<1>5. Len(SubSeq(s, i + 1, j)) = j - i
  BY <1>3
<1>6. QED
  BY <1>3, <1>4, <1>5

LEMMA SliceCat ==
    ASSUME NEW S, NEW s \in Seq(S), NEW i \in Nat, NEW j \in Nat, NEW k \in Nat,
           i <= j, j <= k, k <= Len(s)
    PROVE  SubSeq(s, i + 1, k) = SubSeq(s, i + 1, j) \o SubSeq(s, j + 1, k)
<1> DEFINE a == SubSeq(s, i + 1, j)
           b == SubSeq(s, j + 1, k)
           c == SubSeq(s, i + 1, k)
<1>1. /\ a \in Seq(S) /\ Len(a) = j - i
      /\ \A n \in 1..(j - i) : a[n] = s[i + n]
  <2>1. j <= Len(s)
    OBVIOUS
  <2>2. QED
    BY <2>1, SliceIs
<1>2. /\ b \in Seq(S) /\ Len(b) = k - j
      /\ \A n \in 1..(k - j) : b[n] = s[j + n]
  BY SliceIs
<1>3. /\ c \in Seq(S) /\ Len(c) = k - i
      /\ \A n \in 1..(k - i) : c[n] = s[i + n]
  <2>1. i <= k
    OBVIOUS
  <2>2. QED
    BY <2>1, SliceIs
<1> HIDE DEF a, b, c
<1>4. a \o b \in Seq(S) /\ Len(a \o b) = k - i
  BY <1>1, <1>2
<1>5. ASSUME NEW n \in 1..(k - i)
      PROVE  (a \o b)[n] = c[n]
  <2>1. CASE n <= j - i
    <3>1. (a \o b)[n] = a[n]
      BY <1>1, <1>2, <2>1
    <3>2. n \in 1..(j - i)
      BY <2>1
    <3>3. a[n] = s[i + n] /\ c[n] = s[i + n]
      BY <1>1, <1>3, <3>2
    <3>4. QED
      BY <3>1, <3>3
  <2>2. CASE n > j - i
    <3>1. (a \o b)[n] = b[n - (j - i)]
      BY <1>1, <1>2, <2>2
    <3>2. n - (j - i) \in 1..(k - j) /\ j + (n - (j - i)) = i + n
      BY <2>2
    <3>3. b[n - (j - i)] = s[i + n]
      BY <1>2, <3>2
    <3>4. QED
      BY <1>3, <3>1, <3>3
  <2>3. n <= j - i \/ n > j - i
    OBVIOUS
  <2>4. QED
    BY <2>1, <2>2, <2>3
<1>6. c = a \o b
  BY <1>3, <1>4, <1>5, SeqEqual
<1>7. QED
  BY <1>6 DEF a, b, c

LEMMA SliceOfCat ==
    ASSUME NEW S, NEW s \in Seq(S), NEW x \in Seq(S), NEW i \in Nat, NEW j \in Nat,
           i <= j, j <= Len(s)
    PROVE  SubSeq(s \o x, i + 1, j) = SubSeq(s, i + 1, j)
<1> DEFINE t == s \o x
           a == SubSeq(t, i + 1, j)
           b == SubSeq(s, i + 1, j)
<1>1. t \in Seq(S) /\ Len(t) = Len(s) + Len(x) /\ \A n \in 1..Len(s) : t[n] = s[n]
  OBVIOUS
<1>2. /\ b \in Seq(S) /\ Len(b) = j - i
      /\ \A n \in 1..(j - i) : b[n] = s[i + n]
  BY SliceIs
<1> HIDE DEF t
<1>3. /\ a \in Seq(S) /\ Len(a) = j - i
      /\ \A n \in 1..(j - i) : a[n] = t[i + n]
  <2>1. j <= Len(t)
    BY <1>1
  <2>2. QED
    BY <1>1, <2>1, SliceIs
<1> HIDE DEF a, b
<1>4. \A n \in 1..(j - i) : i + n \in 1..Len(s)
  OBVIOUS
<1>5. \A n \in 1..Len(a) : a[n] = b[n]
  BY <1>1, <1>2, <1>3, <1>4
<1>6. a = b
  BY <1>2, <1>3, <1>5, SeqEqual
<1>7. QED
  BY <1>6 DEF a, b, t

LEMMA SliceOfSlice ==
    ASSUME NEW S, NEW s \in Seq(S), NEW i \in Nat, NEW j \in Nat, i <= j, j <= Len(s),
           NEW m \in Nat, NEW n \in Nat, m <= n, n <= j - i
    PROVE  SubSeq(SubSeq(s, i + 1, j), m + 1, n) = SubSeq(s, i + m + 1, i + n)
<1> DEFINE t == SubSeq(s, i + 1, j)
           a == SubSeq(t, m + 1, n)
           b == SubSeq(s, i + m + 1, i + n)
<1>1. /\ t \in Seq(S) /\ Len(t) = j - i
      /\ \A k \in 1..(j - i) : t[k] = s[i + k]
  BY SliceIs
<1> HIDE DEF t
<1>2. /\ a \in Seq(S) /\ Len(a) = n - m
      /\ \A k \in 1..(n - m) : a[k] = t[m + k]
  BY <1>1, SliceIs
<1>3. /\ b \in Seq(S) /\ Len(b) = n - m
      /\ \A k \in 1..(n - m) : b[k] = s[(i + m) + k]
  <2>1. i + m \in Nat /\ i + n \in Nat /\ i + m <= i + n /\ i + n <= Len(s)
        /\ (i + n) - (i + m) = n - m
    OBVIOUS
  <2>2. QED
    BY <2>1, SliceIs
<1> HIDE DEF a, b
<1>4. \A k \in 1..(n - m) : m + k \in 1..(j - i) /\ i + (m + k) = (i + m) + k
  OBVIOUS
<1>5. \A k \in 1..Len(a) : a[k] = b[k]
  BY <1>1, <1>2, <1>3, <1>4, ZenonT(40)
<1>6. a = b
  BY <1>2, <1>3, <1>5, SeqEqual
<1>7. QED
  BY <1>6 DEF a, b, t
-----------------------------------------------------------------------------
(* What Redis sent, and how far the reader is in it.                       *)

LEMMA AnswersAre ==
    ASSUME NEW a \in Answers
    PROVE  IsAnswer(a.bytes, a.reply, Byte) /\ a.bytes \in Seq(Byte) /\ a.reply \in Replies
<1> DEFINE fed == redisReaderFeed(redisReaderCreate, a.bytes)
           read == redisReaderGetReply(fed)
<1>1. /\ a.bytes \in Seq(Range(a.bytes)) /\ a.bytes # <<>>
      /\ IF a.reply = NoReply THEN read.r.err
         ELSE ~read.r.err /\ read.reply = a.reply /\ Rest(read.r) = <<>>
  BY AnswersAssumption
<1>2. Range(a.bytes) \subseteq Byte
  BY DEF Byte
<1>3. a.bytes \in Seq(Byte)
  BY <1>1, <1>2
<1>4. Sane(fed, Byte)
  BY <1>3, NewWithIs DEF NewWith
<1> HIDE DEF fed
<1>5. Sane(read.r, Byte)
  BY <1>4, GetReplyIs
<1> HIDE DEF read
<1>6. read.r.err \in BOOLEAN
  BY <1>5 DEF Sane, Good, Fields
<1>7. IF a.reply = NoReply THEN read.r.err
      ELSE read.r.err = FALSE /\ read.reply = a.reply /\ Rest(read.r) = <<>>
  BY <1>1, <1>6
<1>8. a.reply \in Replies
  BY DEF Replies
<1>9. QED
  BY <1>1, <1>3, <1>7, <1>8 DEF IsAnswer, read, fed

\* All is the bytes of the answers ts, one after the other; the i-th of them
\* ends after ends[i] bytes.
Sent(ts, all, ends) ==
    /\ ts \in Seq(Answers) /\ all \in Seq(Byte)
    /\ ends[0] = 0 /\ ends[Len(ts)] = Len(all)
    /\ \A i \in 0..Len(ts) : ends[i] \in Nat /\ ends[i] <= Len(all)
    /\ \A i \in 1..Len(ts) :
         /\ ends[i] = ends[i - 1] + Len(ts[i].bytes)
         /\ SubSeq(all, ends[i - 1] + 1, ends[i]) = ts[i].bytes

\* A reader that has returned g replies and was given n bytes: it goes on as a
\* new one does that is given the bytes after the last of these replies; or
\* the next answer has an error, and it has found it.
ReaderAt(r, g, ts, all, ends, n) ==
    /\ Sane(r, Byte)
    /\ r.err = FALSE => Follows(Begun(r), SubSeq(all, ends[g] + 1, n), Byte)
    /\ r.err => g < Len(ts) /\ ts[g + 1].reply = NoReply

Within(g, ts, all, ends, n) ==
    /\ g \in Nat /\ g <= Len(ts)
    /\ n \in Nat /\ ends[g] <= n /\ n <= Len(all)

\* Bytes are read.
LEMMA Fed ==
    ASSUME NEW ts, NEW all, NEW ends, Sent(ts, all, ends),
           NEW g, NEW n, Within(g, ts, all, ends, n), NEW r, ReaderAt(r, g, ts, all, ends, n),
           NEW k \in Nat, n + k <= Len(all), NEW x, x = SubSeq(all, n + 1, n + k)
    PROVE  ReaderAt(redisReaderFeed(r, x), g, ts, all, ends, n + k)
<1> DEFINE t == redisReaderFeed(r, x)
           e == ends[g]
           F == SubSeq(all, e + 1, n)
<1>1. /\ all \in Seq(Byte) /\ e \in Nat /\ e <= n /\ n \in Nat /\ n <= Len(all)
      /\ n + k \in Nat /\ n <= n + k
  BY DEF Sent, Within
<1> HIDE DEF e
<1>2. x \in Seq(Byte)
  BY <1>1, SliceIs
<1>3. F \in Seq(Byte)
  BY <1>1, SliceIs
<1>4. SubSeq(all, e + 1, n + k) = F \o x
  BY <1>1, SliceCat
<1>5. Sane(r, Byte) /\ Good(r, Byte)
  BY DEF ReaderAt, Sane
<1>6. Sane(t, Byte) /\ t.err = r.err
  <2>1. Sane(t, Byte)
    BY <1>2, <1>5, FeedIsSane
  <2>2. t.err = r.err
    BY <1>2, <1>5, FeedIs
  <2>3. QED
    BY <2>1, <2>2
<1>7. r.err = FALSE => Follows(Begun(t), F \o x, Byte)
  <2> SUFFICES ASSUME r.err = FALSE PROVE Follows(Begun(t), F \o x, Byte)
    OBVIOUS
  <2>1. Ready(Begun(t), Byte) /\ Longer(Begun(r), Begun(t), x)
    BY <1>2, <1>5, FeedIsLonger
  <2>2. Follows(Begun(r), F, Byte)
    BY DEF ReaderAt, e
  <2> HIDE DEF t, F
  <2>3. QED
    BY <1>2, <1>3, <2>1, <2>2, FollowsMore
<1> HIDE DEF t, F
<1>8. r.err => g < Len(ts) /\ ts[g + 1].reply = NoReply
  BY DEF ReaderAt
<1>9. ReaderAt(t, g, ts, all, ends, n + k)
  BY <1>4, <1>6, <1>7, <1>8 DEF ReaderAt, e
<1>10. QED
  BY <1>9 DEF t

\* A reply is asked for: there is an error in the next answer, or the next
\* answer is there and is the reply, or it is not there yet.
LEMMA Replied ==
    ASSUME NEW ts, NEW all, NEW ends, Sent(ts, all, ends),
           NEW g, NEW n, Within(g, ts, all, ends, n), NEW r, ReaderAt(r, g, ts, all, ends, n)
    PROVE  LET next == redisReaderGetReply(r) IN
           \/ /\ next.r.err = TRUE /\ next.reply = NoReply
              /\ ReaderAt(next.r, g, ts, all, ends, n)
           \/ /\ next.r.err = FALSE /\ next.reply # NoReply
              /\ g < Len(ts) /\ next.reply = ts[g + 1].reply /\ ends[g + 1] <= n
              /\ ReaderAt(next.r, g + 1, ts, all, ends, n)
           \/ /\ next.r.err = FALSE /\ next.reply = NoReply
              /\ ReaderAt(next.r, g, ts, all, ends, n)
              /\ g < Len(ts) => n < ends[g + 1]
<1> DEFINE next == redisReaderGetReply(r)
           e == ends[g]
           F == SubSeq(all, e + 1, n)
           q == processItems(Begun(r))
<1>1. /\ all \in Seq(Byte) /\ e \in Nat /\ e <= n /\ n \in Nat /\ n <= Len(all)
      /\ g \in Nat /\ g <= Len(ts) /\ Len(ts) \in Nat
  BY DEF Sent, Within
<1>2. Sane(r, Byte) /\ Sane(next.r, Byte)
  BY GetReplyIs DEF ReaderAt
<1>3. r.err \in BOOLEAN /\ next.r.err \in BOOLEAN
  BY <1>2 DEF Sane, Good, Fields
<1>4. CASE r.err = TRUE
  <2>1. next.r = r /\ next.reply = NoReply
    BY <1>2, <1>4, GetReplyIs
  <2> HIDE DEF next
  <2>2. QED
    BY <1>4, <2>1 DEF next
<1>5. CASE r.err = FALSE
  <2> DEFINE F1 == SubSeq(all, ends[g + 1] + 1, n)
  <2>1. /\ Taken(q, Byte) /\ next.r.err = q.err
        /\ q.err => next.reply = NoReply
        /\ q.err = FALSE /\ q.stack = <<>> =>
             /\ next.reply = q.reply /\ next.reply # NoReply
             /\ next.r.stack = <<>> /\ Rest(next.r) = Rest(q)
        /\ q.err = FALSE /\ q.stack # <<>> =>
             /\ next.reply = NoReply
             /\ Longer(q, Begun(next.r), <<>>) /\ Ready(Begun(next.r), Byte)
    BY <1>2, <1>5, GetReplyEnds
  <2>2. Follows(Begun(r), F, Byte)
    BY <1>5 DEF ReaderAt
  <2> HIDE DEF e
  <2>3. F \in Seq(Byte)
    BY <1>1, SliceIs
  <2> HIDE DEF F, next
  <2>4. q.err = FALSE /\ q.stack # <<>> => Follows(Begun(next.r), F, Byte)
    <3>1. SUFFICES ASSUME q.err = FALSE, q.stack # <<>>
                   PROVE  Follows(Begun(next.r), F, Byte)
      OBVIOUS
    <3>2. Follows(q, F, Byte)
      BY <2>2, <2>3, <3>1, FollowsOn
    <3> HIDE DEF q
    <3>3. <<>> \in Seq(Byte) /\ F \o <<>> = F
      BY <2>3
    <3>4. Follows(Begun(next.r), F \o <<>>, Byte)
      BY <2>1, <2>3, <3>1, <3>2, <3>3, FollowsMore
    <3>5. QED
      BY <3>3, <3>4
  <2>5. CASE g = Len(ts)
    <3>1. e = Len(all)
      BY <2>5 DEF Sent, e
    <3>2. F = <<>>
      <4>1. n < e + 1 /\ e + 1 \in Int /\ n \in Int
        BY <1>1, <3>1
      <4>2. QED
        BY <4>1, SubSeqEmpty DEF F
    <3>3. q.err = FALSE /\ q.stack # <<>>
      BY <2>2, <3>2, NothingYet
    <3> HIDE DEF q
    <3>4. ReaderAt(next.r, g, ts, all, ends, n)
      BY <1>2, <2>1, <2>4, <3>3 DEF ReaderAt, F, e
    <3>5. QED
      BY <1>1, <2>1, <2>5, <3>3, <3>4 DEF next
  <2>6. CASE g < Len(ts)
    <3> DEFINE a == ts[g + 1]
               b == a.bytes
               f == ends[g + 1]
    <3>1. g + 1 \in 1..Len(ts) /\ (g + 1) - 1 = g
      BY <1>1, <2>6
    <3>2. /\ a \in Answers /\ f = e + Len(b) /\ SubSeq(all, e + 1, f) = b
          /\ f \in Nat /\ f <= Len(all)
      <4>1. a \in Answers
        BY <3>1 DEF Sent
      <4>2. f = e + Len(b) /\ SubSeq(all, e + 1, f) = b
        BY <3>1 DEF Sent, e
      <4>3. g + 1 \in 0..Len(ts)
        BY <3>1
      <4>4. f \in Nat /\ f <= Len(all)
        BY <4>3 DEF Sent
      <4>5. QED
        BY <4>1, <4>2, <4>4
    <3>3. IsAnswer(b, a.reply, Byte) /\ b \in Seq(Byte) /\ Len(b) \in Nat
      BY <3>2, AnswersAre
    <3> HIDE DEF f, b
    <3>4. e <= f
      BY <1>1, <3>2, <3>3
    <3>5. CASE f <= n
      <4> DEFINE y == SubSeq(all, f + 1, n)
      <4>1. y \in Seq(Byte)
        BY <1>1, <3>2, <3>5, SliceIs
      <4>2. F = b \o y
        <5>1. /\ all \in Seq(Byte) /\ e \in Nat /\ f \in Nat /\ n \in Nat
              /\ e <= f /\ f <= n /\ n <= Len(all)
          BY <1>1, <3>2, <3>4, <3>5
        <5>2. SubSeq(all, e + 1, n) = SubSeq(all, e + 1, f) \o SubSeq(all, f + 1, n)
          BY <5>1, SliceCat
        <5>3. QED
          BY <3>2, <5>2 DEF F
      <4> HIDE DEF y
      <4>3. IF a.reply = NoReply THEN q.err
            ELSE q.err = FALSE /\ q.stack = <<>> /\ q.reply = a.reply /\ Rest(q) = y
        <5>1. Follows(Begun(r), b \o y, Byte)
          BY <2>2, <4>2
        <5> DEFINE reply == a.reply
        <5>2. IsAnswer(b, reply, Byte)
          BY <3>3
        <5> HIDE DEF reply, F
        <5>3. IF reply = NoReply THEN q.err
              ELSE q.err = FALSE /\ q.stack = <<>> /\ q.reply = reply /\ Rest(q) = y
          BY <4>1, <5>1, <5>2, AnswerIsThere
        <5>4. QED
          BY <5>3 DEF reply
      <4> HIDE DEF q
      <4>4. CASE a.reply = NoReply
        <5>1. next.r.err = TRUE /\ next.reply = NoReply
          BY <1>3, <2>1, <4>3, <4>4
        <5>2. ReaderAt(next.r, g, ts, all, ends, n)
          BY <1>2, <2>6, <4>4, <5>1 DEF ReaderAt
        <5>3. QED
          BY <5>1, <5>2 DEF next
      <4>5. CASE a.reply # NoReply
        <5>1. /\ next.r.err = FALSE /\ next.reply = a.reply /\ next.r.stack = <<>>
              /\ Rest(next.r) = y
          BY <2>1, <4>3, <4>5
        <5>2. IsFresh(Begun(next.r), y, Byte)
          BY <1>2, <5>1, FreshIs
        <5>3. Follows(Begun(next.r), y, Byte)
          BY <4>1, <5>2, FreshFollows
        <5>4. ReaderAt(next.r, g + 1, ts, all, ends, n)
          BY <1>2, <5>1, <5>3 DEF ReaderAt, y, f
        <5>5. QED
          BY <2>6, <3>5, <4>5, <5>1, <5>4 DEF next, f
      <4>6. QED
        BY <4>4, <4>5
    <3>6. CASE n < f
      <4> DEFINE y == SubSeq(all, n + 1, f)
      <4>1. y \in Seq(Byte) /\ Len(y) = f - n
        <5>1. n <= f
          BY <1>1, <3>2, <3>6
        <5>2. QED
          BY <1>1, <3>2, <5>1, SliceIs
      <4>2. b = F \o y
        <5>1. /\ all \in Seq(Byte) /\ e \in Nat /\ f \in Nat /\ n \in Nat
              /\ e <= n /\ n <= f /\ f <= Len(all)
          BY <1>1, <3>2, <3>6
        <5>2. SubSeq(all, e + 1, f) = SubSeq(all, e + 1, n) \o SubSeq(all, n + 1, f)
          BY <5>1, SliceCat
        <5>3. QED
          BY <3>2, <5>2 DEF F
      <4>3. y # <<>>
        <5>1. f - n # 0
          BY <1>1, <3>2, <3>6
        <5>2. Len(<<>>) = 0
          OBVIOUS
        <5> HIDE DEF y
        <5>3. QED
          BY <4>1, <5>1, <5>2
      <4> HIDE DEF y
      <4>4. (q.err => a.reply = NoReply) /\ (q.err = FALSE => q.stack # <<>>)
        BY <2>2, <2>3, <3>3, <4>1, <4>2, <4>3, AnswerIsShort
      <4> HIDE DEF q
      <4>5. CASE q.err
        <5>1. next.r.err = TRUE /\ next.reply = NoReply /\ a.reply = NoReply
          BY <1>3, <2>1, <4>4, <4>5
        <5>2. ReaderAt(next.r, g, ts, all, ends, n)
          BY <1>2, <2>6, <5>1 DEF ReaderAt
        <5>3. QED
          BY <5>1, <5>2 DEF next
      <4>6. CASE ~q.err
        <5>1. q.err = FALSE
          BY <1>3, <2>1, <4>6
        <5>2. next.r.err = FALSE /\ next.reply = NoReply
              /\ Follows(Begun(next.r), F, Byte)
          BY <2>1, <2>4, <4>4, <5>1
        <5>3. ReaderAt(next.r, g, ts, all, ends, n)
          BY <1>2, <5>2 DEF ReaderAt, F, e
        <5>4. QED
          BY <3>6, <5>2, <5>3 DEF next, f
      <4>7. QED
        BY <4>5, <4>6
    <3>7. f <= n \/ n < f
      BY <1>1, <3>2
    <3>8. QED
      BY <3>5, <3>6, <3>7
  <2>7. g = Len(ts) \/ g < Len(ts)
    BY <1>1
  <2>8. QED
    BY <2>5, <2>6, <2>7
<1>6. QED
  BY <1>3, <1>4, <1>5

\* Redis sends one more answer: what was sent before stays where it is.
LEMMA MoreSent ==
    ASSUME NEW ts, NEW all, NEW ends, Sent(ts, all, ends), NEW a \in Answers
    PROVE  LET longer == Append(ts, a)
               more == all \o a.bytes
               last == [i \in 0..Len(longer) |->
                          IF i <= Len(ts) THEN ends[i] ELSE Len(more)]
           IN  /\ Sent(longer, more, last)
               /\ \A g, n : Within(g, ts, all, ends, n) =>
                    /\ Within(g, longer, more, last, n)
                    /\ g < Len(ts) => last[g + 1] = ends[g + 1]
                    /\ g = Len(ts) => n < last[g + 1]
                    /\ \A r : ReaderAt(r, g, ts, all, ends, n)
                                => ReaderAt(r, g, longer, more, last, n)
<1> DEFINE l == Len(ts)
           b == a.bytes
           longer == Append(ts, a)
           more == all \o b
           last == [i \in 0..Len(longer) |-> IF i <= l THEN ends[i] ELSE Len(more)]
<1>1. b \in Seq(Byte) /\ b # <<>> /\ Len(b) \in Nat /\ Len(b) > 0
  <2>1. b \in Seq(Byte) /\ b # <<>>
    BY AnswersAre DEF IsAnswer
  <2> HIDE DEF b
  <2>2. QED
    BY <2>1
<1>2. ts \in Seq(Answers) /\ all \in Seq(Byte) /\ l \in Nat /\ Len(all) \in Nat
  BY DEF Sent
<1>3. /\ longer \in Seq(Answers) /\ Len(longer) = l + 1 /\ longer[l + 1] = a
      /\ \A i \in 1..l : longer[i] = ts[i]
  BY <1>2
<1> HIDE DEF b
<1>4. more \in Seq(Byte) /\ Len(more) = Len(all) + Len(b)
  BY <1>1, <1>2
<1>5. \A i, j \in Nat : i <= j /\ j <= Len(all)
                            => SubSeq(more, i + 1, j) = SubSeq(all, i + 1, j)
  BY <1>1, <1>2, SliceOfCat
<1> HIDE DEF l, longer, more
<1>6. /\ \A i \in 0..l : last[i] = ends[i]
      /\ last[l + 1] = Len(more)
  BY <1>2, <1>3
<1> HIDE DEF last
<1>7. /\ ends[0] = 0 /\ ends[l] = Len(all)
      /\ \A i \in 0..l : ends[i] \in Nat /\ ends[i] <= Len(all)
      /\ \A i \in 1..l : /\ ends[i] = ends[i - 1] + Len(ts[i].bytes)
                         /\ SubSeq(all, ends[i - 1] + 1, ends[i]) = ts[i].bytes
  BY DEF Sent, l
<1>8. \A i \in 0..(l + 1) : last[i] \in Nat /\ last[i] <= Len(more)
  <2>1. ASSUME NEW i \in 0..(l + 1)
        PROVE  last[i] \in Nat /\ last[i] <= Len(more)
    <3>1. CASE i = l + 1
      BY <1>1, <1>2, <1>4, <1>6, <3>1
    <3>2. CASE i \in 0..l
      <4>1. last[i] = ends[i] /\ ends[i] \in Nat /\ ends[i] <= Len(all)
        BY <1>6, <1>7, <3>2
      <4>2. Len(all) <= Len(more) /\ Len(more) \in Nat
        BY <1>1, <1>2, <1>4
      <4>3. QED
        BY <1>2, <4>1, <4>2
    <3>3. QED
      BY <1>2, <3>1, <3>2
  <2>2. QED
    BY <2>1
<1>9. ASSUME NEW i \in 1..(l + 1)
      PROVE  /\ last[i] = last[i - 1] + Len(longer[i].bytes)
             /\ SubSeq(more, last[i - 1] + 1, last[i]) = longer[i].bytes
  <2>1. CASE i = l + 1
    <3>1. last[i] = Len(more) /\ i - 1 = l /\ l \in 0..l /\ last[l] = Len(all)
          /\ longer[i] = a
      BY <1>2, <1>3, <1>6, <1>7, <2>1
    <3>2. SubSeq(more, Len(all) + 1, Len(more)) = b
      <4> DEFINE e == Len(all)
                 c == SubSeq(more, e + 1, Len(more))
      <4>1. e \in Nat /\ e <= Len(more) /\ Len(more) \in Nat /\ Len(more) - e = Len(b)
        BY <1>1, <1>2, <1>4
      <4> HIDE DEF e
      <4>2. /\ c \in Seq(Byte) /\ Len(c) = Len(more) - e
            /\ \A k \in 1..(Len(more) - e) : c[k] = more[e + k]
        BY <1>4, <4>1, SliceIs
      <4>3. \A k \in 1..Len(b) : more[e + k] = b[k]
        BY <1>1, <1>2 DEF more, e
      <4> HIDE DEF c
      <4>4. Len(c) = Len(b) /\ \A k \in 1..Len(c) : c[k] = b[k]
        BY <4>1, <4>2, <4>3
      <4>5. c = b
        BY <1>1, <4>2, <4>4, SeqEqual
      <4>6. QED
        BY <4>5 DEF c, e
    <3>3. QED
      BY <1>4, <3>1, <3>2 DEF b
  <2>2. CASE i \in 1..l
    <3>1. i \in 0..l /\ i - 1 \in 0..l
      BY <1>2, <2>2
    <3>2. last[i] = ends[i] /\ last[i - 1] = ends[i - 1] /\ longer[i] = ts[i]
      BY <1>3, <1>6, <2>2, <3>1
    <3>3. /\ ends[i] = ends[i - 1] + Len(ts[i].bytes)
          /\ SubSeq(all, ends[i - 1] + 1, ends[i]) = ts[i].bytes
          /\ ends[i] \in Nat /\ ends[i] <= Len(all) /\ ends[i - 1] \in Nat
      BY <1>7, <2>2, <3>1
    <3>4. ends[i - 1] <= ends[i]
      <4>1. ts[i] \in Answers
        BY <1>2, <2>2 DEF l
      <4>2. Len(ts[i].bytes) \in Nat
        BY <4>1, AnswersAre
      <4>3. QED
        BY <3>3, <4>2
    <3>5. SubSeq(more, ends[i - 1] + 1, ends[i]) = SubSeq(all, ends[i - 1] + 1, ends[i])
      BY <1>5, <3>3, <3>4
    <3>6. QED
      BY <3>2, <3>3, <3>5
  <2>3. QED
    BY <1>2, <2>1, <2>2
<1>10. Sent(longer, more, last)
  <2>1. last[0] = 0 /\ last[Len(longer)] = Len(more)
    BY <1>2, <1>3, <1>6, <1>7
  <2>2. QED
    BY <1>3, <1>4, <1>8, <1>9, <2>1 DEF Sent
<1>11. ASSUME NEW g, NEW n, Within(g, ts, all, ends, n)
       PROVE  /\ Within(g, longer, more, last, n)
              /\ g < Len(ts) => last[g + 1] = ends[g + 1]
              /\ g = Len(ts) => n < last[g + 1]
              /\ \A r : ReaderAt(r, g, ts, all, ends, n)
                          => ReaderAt(r, g, longer, more, last, n)
  <2>1. g \in Nat /\ g <= l /\ n \in Nat /\ ends[g] <= n /\ n <= Len(all)
    BY <1>11 DEF Within, l
  <2>2. g \in 0..l /\ last[g] = ends[g] /\ ends[g] \in Nat
    BY <1>2, <1>6, <1>7, <2>1
  <2>3. Within(g, longer, more, last, n)
    BY <1>1, <1>2, <1>3, <1>4, <2>1, <2>2 DEF Within
  <2>4. g < l => last[g + 1] = ends[g + 1] /\ longer[g + 1] = ts[g + 1]
    BY <1>2, <1>3, <1>6, <2>1
  <2>5. g = l => n < last[g + 1]
    BY <1>1, <1>2, <1>4, <1>6, <2>1
  <2>6. SubSeq(more, last[g] + 1, n) = SubSeq(all, ends[g] + 1, n)
    <3>1. SubSeq(more, ends[g] + 1, n) = SubSeq(all, ends[g] + 1, n)
      BY <1>5, <2>1, <2>2
    <3>2. QED
      BY <2>2, <3>1
  <2>7. ASSUME NEW r, ReaderAt(r, g, ts, all, ends, n)
        PROVE  ReaderAt(r, g, longer, more, last, n)
    <3>1. r.err => g < l /\ ts[g + 1].reply = NoReply
      BY <2>7 DEF ReaderAt, l
    <3>2. r.err => g < Len(longer) /\ longer[g + 1].reply = NoReply
      BY <1>2, <1>3, <2>1, <2>4, <3>1
    <3>3. QED
      BY <2>6, <2>7, <3>2 DEF ReaderAt
  <2>8. QED
    BY <2>3, <2>4, <2>5, <2>7 DEF l
<1>12. QED
  BY <1>10, <1>11 DEF longer, more, last, l, b

\* A reply that is returned is one more of the answers.
LEMMA Given ==
    ASSUME NEW ts, NEW all, NEW ends, Sent(ts, all, ends),
           NEW gave \in Seq(Replies), NEW n, Within(Len(gave), ts, all, ends, n),
           \A i \in 1..Len(gave) : gave[i] = ts[i].reply /\ gave[i] # NoReply,
           NEW r, ReaderAt(r, Len(gave), ts, all, ends, n)
    PROVE  LET next == redisReaderGetReply(r)
               more == Append(gave, next.reply)
           IN
           \/ next.r.err = TRUE /\ ReaderAt(next.r, Len(gave), ts, all, ends, n)
           \/ /\ next.r.err = FALSE /\ next.reply # NoReply /\ Len(gave) < Len(ts)
              /\ more \in Seq(Replies) /\ Within(Len(more), ts, all, ends, n)
              /\ \A i \in 1..Len(more) : more[i] = ts[i].reply /\ more[i] # NoReply
              /\ ReaderAt(next.r, Len(more), ts, all, ends, n)
           \/ /\ next.r.err = FALSE /\ next.reply = NoReply
              /\ ReaderAt(next.r, Len(gave), ts, all, ends, n)
              /\ Len(gave) < Len(ts) => n < ends[Len(gave) + 1]
<1> DEFINE next == redisReaderGetReply(r)
           reply == next.reply
           more == Append(gave, reply)
           g == Len(gave)
<1>1. g \in Nat /\ g <= Len(ts) /\ n \in Nat /\ n <= Len(all)
      /\ ts \in Seq(Answers) /\ Len(ts) \in Nat
  BY DEF Within, Sent
<1> HIDE DEF g
<1>2. \/ next.r.err = TRUE /\ ReaderAt(next.r, g, ts, all, ends, n)
      \/ /\ next.r.err = FALSE /\ next.reply # NoReply
         /\ g < Len(ts) /\ next.reply = ts[g + 1].reply /\ ends[g + 1] <= n
         /\ ReaderAt(next.r, g + 1, ts, all, ends, n)
      \/ /\ next.r.err = FALSE /\ next.reply = NoReply
         /\ ReaderAt(next.r, g, ts, all, ends, n)
         /\ g < Len(ts) => n < ends[g + 1]
  BY Replied DEF g
<1> HIDE DEF next
<1>3. CASE /\ next.r.err = FALSE /\ reply # NoReply
           /\ g < Len(ts) /\ reply = ts[g + 1].reply /\ ends[g + 1] <= n
           /\ ReaderAt(next.r, g + 1, ts, all, ends, n)
  <2>1. reply \in Replies
    <3>1. ts[g + 1] \in Answers
      BY <1>1, <1>3
    <3>2. QED
      BY <1>3, <3>1, AnswersAre
  <2> HIDE DEF reply
  <2>2. /\ more \in Seq(Replies) /\ Len(more) = g + 1 /\ more[g + 1] = reply
        /\ \A i \in 1..g : more[i] = gave[i]
    BY <2>1 DEF g
  <2> HIDE DEF more
  <2>3. Within(Len(more), ts, all, ends, n)
    BY <1>1, <1>3, <2>2 DEF Within
  <2>4. ASSUME NEW i \in 1..Len(more)
        PROVE  more[i] = ts[i].reply /\ more[i] # NoReply
    <3>1. CASE i = g + 1
      BY <1>3, <2>2, <3>1
    <3>2. CASE i \in 1..g
      <4>1. gave[i] = ts[i].reply /\ gave[i] # NoReply
        BY <3>2 DEF g
      <4>2. QED
        BY <2>2, <3>2, <4>1
    <3>3. QED
      BY <1>1, <2>2, <3>1, <3>2
  <2>5. ReaderAt(next.r, Len(more), ts, all, ends, n)
    BY <1>3, <2>2
  <2>6. QED
    BY <1>3, <2>2, <2>3, <2>4, <2>5 DEF more, reply, next, g
<1>4. QED
  BY <1>2, <1>3 DEF g, next
-----------------------------------------------------------------------------
(* The replies of a connection.                                            *)

\* Ts are the answers so far, all their bytes, of which n were read: the rest
\* of them is on its way, or lost.  A call that goes on has no reply to return.
InStep(ts, all, ends, n) ==
    /\ Sent(ts, all, ends) /\ Within(Len(got), ts, all, ends, n)
    /\ answered = [i \in 1..Len(ts) |-> ts[i].reply]
    /\ got \in Seq(Replies)
    /\ \A i \in 1..Len(got) : got[i] = ts[i].reply /\ got[i] # NoReply
    /\ \/ response = SubSeq(all, n + 1, Len(all))
       \/ response = <<>> /\ conn \notin {"open", "closed"}
    /\ ReaderAt(reader, Len(got), ts, all, ends, n)
    /\ conn = "none" /\ pc # "freed" => ts = <<>>
    /\ err = "PROTOCOL" => reader.err
    /\ pc \in {"write", "read"} =>
         reader.err = FALSE /\ (Len(got) < Len(ts) => n < ends[Len(got) + 1])
    /\ how.block /\ err = "EOF" => conn # "open" /\ Len(got) = Len(ts)

Stream == \E ts, all, ends, n : InStep(ts, all, ends, n)

\* A new reader, before there is an answer.
LEMMA NothingSent ==
    /\ Sent(<<>>, <<>>, [i \in {0} |-> 0])
    /\ Within(0, <<>>, <<>>, [i \in {0} |-> 0], 0)
    /\ ReaderAt(redisReaderCreate, 0, <<>>, <<>>, [i \in {0} |-> 0], 0)
    /\ SubSeq(<<>>, 1, 0) = <<>>
<1> DEFINE ends == [i \in {0} |-> 0]
<1>1. ends[0] = 0 /\ Len(<<>>) = 0 /\ <<>> \in Seq(Byte) /\ <<>> \in Seq(Answers)
  OBVIOUS
<1>2. SubSeq(<<>>, 0 + 1, 0) = <<>>
  BY SubSeqEmpty
<1> HIDE DEF ends
<1>3. Sent(<<>>, <<>>, ends)
  <2>1. 0..Len(<<>>) = {0} /\ 1..Len(<<>>) = {}
    BY <1>1
  <2>2. QED
    BY <1>1, <2>1 DEF Sent
<1>4. Within(0, <<>>, <<>>, ends, 0)
  BY <1>1 DEF Within
<1>5. ReaderAt(redisReaderCreate, 0, <<>>, <<>>, ends, 0)
  <2> DEFINE c == redisReaderCreate
  <2>1. Sane(c, Byte) /\ c.err = FALSE /\ c.stack = <<>> /\ Rest(c) = <<>>
    BY NewIsSane, NewIsGood
  <2> HIDE DEF c
  <2>2. IsFresh(Begun(c), <<>>, Byte)
    BY <2>1, FreshIs
  <2>3. Follows(Begun(c), <<>>, Byte)
    BY <1>1, <2>2, FreshFollows
  <2>4. ReaderAt(c, 0, <<>>, <<>>, ends, 0)
    BY <1>1, <1>2, <2>1, <2>3 DEF ReaderAt
  <2>5. QED
    BY <2>4 DEF c
<1>6. QED
  BY <1>2, <1>3, <1>4, <1>5 DEF ends

\* What does not touch the replies.
LEMMA Unread ==
    ASSUME NEW ts, NEW all, NEW ends, NEW n, InStep(ts, all, ends, n),
           UNCHANGED <<how, reader, response, answered, got, conn>>,
           err' \in {err, "IO", "OTHER"}, pc # "freed",
           pc' \in {"write", "read"} => pc \in {"write", "read"}
    PROVE  InStep(ts, all, ends, n)'
BY DEF InStep

\* Connecting: nothing was sent yet.
LEMMA ConnectingKeeps ==
    ASSUME NEW ts, NEW all, NEW ends, NEW n, InStep(ts, all, ends, n), Owned, Connecting
    PROVE  InStep(ts, all, ends, n)'
<1>1. pc \in Connects /\ err = "none" /\ conn = "none"
  <2>1. pc \in Connects
    BY DEF Connecting, Resolve, Socket, Prepare, UnixSocket, ConnectCall, WaitReady, Finish,
           Connects
  <2>2. QED
    BY <2>1 DEF Owned
<1>2. UNCHANGED <<how, reader, response, answered, got>>
  BY DEF Connecting, Resolve, Socket, Prepare, UnixSocket, ConnectCall, WaitReady, Finish,
         network, history
<1>3. err' \in {"none", "IO", "OTHER"} /\ pc' \in Connects \cup {"idle"}
  BY <1>1 DEF Connecting, Resolve, Socket, Prepare, UnixSocket, ConnectCall, WaitReady,
              Finish, FailAndClose, Return, Unreachable, NotAvailable, Refused, Connects
<1>4. ts = <<>> /\ pc # "freed"
  BY <1>1 DEF InStep, Connects
<1>5. response = SubSeq(all, n + 1, Len(all))
  <2>1. Len(all) = 0 /\ n = 0
    <3>1. Len(ts) = 0
      BY <1>4
    <3>2. QED
      BY <3>1 DEF InStep, Sent, Within
  <2>2. SubSeq(all, n + 1, Len(all)) = <<>>
    BY <2>1, SubSeqEmpty
  <2>3. QED
    BY <2>2 DEF InStep
<1>6. pc' \notin {"write", "read"} /\ err' \notin {"PROTOCOL", "EOF"}
  BY <1>3 DEF Connects
<1>7. QED
  BY <1>2, <1>4, <1>5, <1>6 DEF InStep

LEMMA ReconnectKeeps ==
    ASSUME Reconnect
    PROVE  Stream'
<1> DEFINE ends == [i \in {0} |-> 0]
<1>1. /\ reader' = redisReaderCreate /\ response' = <<>> /\ answered' = <<>> /\ got' = <<>>
      /\ conn' = "none" /\ err' = "none" /\ pc' \in {"resolve", "unix"}
  BY DEF Reconnect, First
<1>2. <<>> = [i \in 1..0 |-> <<>>[i].reply] /\ Len(<<>>) = 0 /\ <<>> \in Seq(Replies)
  OBVIOUS
<1>3. /\ Sent(<<>>, <<>>, ends) /\ Within(0, <<>>, <<>>, ends, 0)
      /\ ReaderAt(redisReaderCreate, 0, <<>>, <<>>, ends, 0) /\ SubSeq(<<>>, 1, 0) = <<>>
  BY NothingSent
<1> HIDE DEF ends
<1>4. InStep(<<>>, <<>>, ends, 0)'
  BY <1>1, <1>2, <1>3 DEF InStep
<1>5. QED
  BY <1>4 DEF Stream

LEMMA StreamInit == Init => Stream
<1> SUFFICES ASSUME Init PROVE Stream
  OBVIOUS
<1> DEFINE ends == [i \in {0} |-> 0]
<1>1. /\ reader = redisReaderCreate /\ response = <<>> /\ answered = <<>> /\ got = <<>>
      /\ conn = "none" /\ err = "none" /\ pc \in {"resolve", "unix"}
  BY DEF Init, First
<1>2. <<>> = [i \in 1..0 |-> <<>>[i].reply] /\ Len(<<>>) = 0 /\ <<>> \in Seq(Replies)
  OBVIOUS
<1>3. /\ Sent(<<>>, <<>>, ends) /\ Within(0, <<>>, <<>>, ends, 0)
      /\ ReaderAt(redisReaderCreate, 0, <<>>, <<>>, ends, 0) /\ SubSeq(<<>>, 1, 0) = <<>>
  BY NothingSent
<1> HIDE DEF ends
<1>4. InStep(<<>>, <<>>, ends, 0)
  BY <1>1, <1>2, <1>3 DEF InStep
<1>5. QED
  BY <1>4 DEF Stream

\* The user takes a reply from the reader.
LEMMA GetReplyKeeps ==
    ASSUME NEW ts, NEW all, NEW ends, NEW n, InStep(ts, all, ends, n), GetReply
    PROVE  InStep(ts, all, ends, n)'
<1> DEFINE next == redisReaderGetReply(reader)
           g == Len(got)
           more == Append(got, next.reply)
<1>1. UNCHANGED <<how, response, answered, conn>>
  BY DEF GetReply, connecting, network
<1>2. /\ pc = "idle" /\ reader' = next.r
      /\ IF next.r.err THEN err' = "PROTOCOL" /\ pc' = "idle" /\ got' = got
         ELSE IF next.reply # NoReply THEN err' = err /\ pc' = "idle" /\ got' = more
         ELSE pc' \in {"write", "idle"} /\ err' = err /\ got' = got
  BY DEF GetReply, FromReader, Return
<1>3. /\ Sent(ts, all, ends) /\ got \in Seq(Replies) /\ Within(g, ts, all, ends, n)
      /\ \A i \in 1..g : got[i] = ts[i].reply /\ got[i] # NoReply
      /\ ReaderAt(reader, g, ts, all, ends, n)
  BY DEF InStep
<1>4. \/ next.r.err = TRUE /\ ReaderAt(next.r, g, ts, all, ends, n)
      \/ /\ next.r.err = FALSE /\ next.reply # NoReply /\ g < Len(ts)
         /\ more \in Seq(Replies) /\ Within(Len(more), ts, all, ends, n)
         /\ \A i \in 1..Len(more) : more[i] = ts[i].reply /\ more[i] # NoReply
         /\ ReaderAt(next.r, Len(more), ts, all, ends, n)
      \/ /\ next.r.err = FALSE /\ next.reply = NoReply
         /\ ReaderAt(next.r, g, ts, all, ends, n)
         /\ g < Len(ts) => n < ends[g + 1]
  BY <1>3, Given
<1>5. err = "PROTOCOL" => g < Len(ts) /\ next.r.err = TRUE
  <2>1. err = "PROTOCOL" => reader.err /\ Sane(reader, Byte)
    BY <1>3 DEF InStep, ReaderAt
  <2>2. reader.err => g < Len(ts)
    BY <1>3 DEF ReaderAt
  <2>3. reader.err /\ Sane(reader, Byte) => next.r = reader /\ reader.err = TRUE
    <3>1. SUFFICES ASSUME reader.err, Sane(reader, Byte)
                   PROVE  next.r = reader /\ reader.err = TRUE
      OBVIOUS
    <3>2. reader.err \in BOOLEAN
      BY <3>1 DEF Sane, Good, Fields
    <3>3. QED
      BY <3>1, <3>2, GetReplyIs
  <2>4. QED
    BY <2>1, <2>2, <2>3
<1> HIDE DEF next, more
<1>6. CASE next.r.err = TRUE /\ ReaderAt(next.r, g, ts, all, ends, n)
  <2>1. err' = "PROTOCOL" /\ pc' = "idle" /\ got' = got /\ reader' = next.r
    BY <1>2, <1>6
  <2>2. QED
    BY <1>1, <1>2, <1>6, <2>1 DEF InStep
<1>7. CASE /\ next.r.err = FALSE /\ next.reply # NoReply /\ g < Len(ts)
           /\ more \in Seq(Replies) /\ Within(Len(more), ts, all, ends, n)
           /\ \A i \in 1..Len(more) : more[i] = ts[i].reply /\ more[i] # NoReply
           /\ ReaderAt(next.r, Len(more), ts, all, ends, n)
  <2>1. err' = err /\ pc' = "idle" /\ got' = more /\ reader' = next.r
    BY <1>2, <1>7
  <2>2. ~(how.block /\ err = "EOF") /\ err # "PROTOCOL"
    BY <1>3, <1>5, <1>7 DEF InStep, Within, Sent
  <2>3. QED
    BY <1>1, <1>2, <1>3, <1>7, <2>1, <2>2 DEF InStep
<1>8. CASE /\ next.r.err = FALSE /\ next.reply = NoReply
           /\ ReaderAt(next.r, g, ts, all, ends, n)
           /\ g < Len(ts) => n < ends[g + 1]
  <2>1. err' = err /\ pc' \in {"write", "idle"} /\ got' = got /\ reader' = next.r
    BY <1>2, <1>8
  <2>2. err # "PROTOCOL"
    BY <1>5, <1>8
  <2>3. QED
    BY <1>1, <1>2, <1>3, <1>8, <2>1, <2>2 DEF InStep
<1>9. QED
  BY <1>4, <1>6, <1>7, <1>8

\* Bytes are taken off what is on its way.
LEMMA BytesTaken ==
    ASSUME NEW ts, NEW all, NEW ends, NEW n, InStep(ts, all, ends, n),
           NEW k \in 1..Len(response)
    PROVE  /\ response = SubSeq(all, n + 1, Len(all))
           /\ n + k \in Nat /\ n + k <= Len(all) /\ Within(Len(got), ts, all, ends, n + k)
           /\ SubSeq(response, k + 1, Len(response)) = SubSeq(all, n + k + 1, Len(all))
           /\ ReaderAt(redisReaderFeed(reader, SubSeq(response, 1, k)),
                       Len(got), ts, all, ends, n + k)
<1> DEFINE x == SubSeq(response, 1, k)
           m == Len(all)
<1>1. /\ Sent(ts, all, ends) /\ Within(Len(got), ts, all, ends, n)
      /\ ReaderAt(reader, Len(got), ts, all, ends, n)
  BY DEF InStep
<1>2. all \in Seq(Byte) /\ n \in Nat /\ n <= m /\ m \in Nat /\ ends[Len(got)] <= n
  BY <1>1 DEF Sent, Within
<1>3. response = SubSeq(all, n + 1, m)
  <2>1. response # <<>>
    OBVIOUS
  <2>2. QED
    BY <2>1 DEF InStep
<1>4. Len(response) = m - n
  BY <1>2, <1>3, SliceIs
<1>5. k \in Nat /\ k <= m - n /\ m - n <= m - n /\ m - n \in Nat
  BY <1>2, <1>4
<1>6. n + k \in Nat /\ n + k <= m /\ n <= n + k /\ n + (m - n) = m
  BY <1>2, <1>5
<1>7. SubSeq(response, k + 1, Len(response)) = SubSeq(all, n + k + 1, m)
  <2>1. SubSeq(SubSeq(all, n + 1, m), k + 1, m - n) = SubSeq(all, n + k + 1, n + (m - n))
    BY <1>2, <1>5, SliceOfSlice
  <2>2. QED
    BY <1>3, <1>4, <1>6, <2>1
<1>8. x = SubSeq(all, n + 1, n + k)
  <2>1. SubSeq(SubSeq(all, n + 1, m), 0 + 1, k) = SubSeq(all, n + 0 + 1, n + k)
    BY <1>2, <1>5, SliceOfSlice
  <2>2. QED
    BY <1>2, <1>3, <2>1
<1>9. Within(Len(got), ts, all, ends, n + k)
  <2>1. ends[Len(got)] \in Nat
    BY <1>1 DEF Sent, Within
  <2>2. ends[Len(got)] <= n + k
    BY <1>2, <1>5, <2>1
  <2>3. QED
    BY <1>1, <1>6, <2>2 DEF Within
<1> HIDE DEF x
<1>10. ReaderAt(redisReaderFeed(reader, x), Len(got), ts, all, ends, n + k)
  BY <1>1, <1>5, <1>6, <1>8, Fed
<1>11. QED
  BY <1>3, <1>6, <1>7, <1>9, <1>10 DEF x

\* A call of read fails: at the end of the file everything was read.
LEMMA ReadFailsKeeps ==
    ASSUME NEW ts, NEW all, NEW ends, NEW n, InStep(ts, all, ends, n), ReadFails,
           pc \in {"idle", "read"}, pc = "idle" => ~how.block,
           UNCHANGED <<how, reader, response, answered, got, conn>>
    PROVE  InStep(ts, all, ends, n)'
<1>1. CASE err' = "IO" /\ pc' = "idle"
  BY <1>1, Unread
<1>2. CASE conn = "closed" /\ response = <<>> /\ err' = "EOF" /\ pc' = "idle"
  <2>1. how.block => Len(got) = Len(ts)
    <3>1. SUFFICES ASSUME how.block PROVE Len(got) = Len(ts)
      OBVIOUS
    <3>2. Within(Len(got), ts, all, ends, n) /\ Sent(ts, all, ends)
          /\ response = SubSeq(all, n + 1, Len(all))
      BY <1>2 DEF InStep
    <3>3. n = Len(all)
      <4>1. /\ n \in Nat /\ n <= Len(all) /\ all \in Seq(Byte) /\ Len(all) \in Nat
        BY <3>2 DEF Within, Sent
      <4>2. Len(SubSeq(all, n + 1, Len(all))) = Len(all) - n
        BY <4>1, SliceIs
      <4>3. Len(all) - n = 0
        <5>1. SubSeq(all, n + 1, Len(all)) = <<>> /\ Len(<<>>) = 0
          BY <1>2, <3>2
        <5>2. QED
          BY <4>2, <5>1
      <4>4. QED
        BY <4>1, <4>3
    <3>4. Len(got) < Len(ts) => n < ends[Len(got) + 1]
      BY <3>1 DEF InStep
    <3>5. Len(got) < Len(ts) => ends[Len(got) + 1] \in Nat /\ ends[Len(got) + 1] <= Len(all)
      BY <3>2 DEF Within, Sent
    <3>6. Len(got) \in Nat /\ Len(got) <= Len(ts) /\ Len(ts) \in Nat /\ Len(all) \in Nat
      BY <3>2 DEF Within, Sent
    <3>7. ~(Len(got) < Len(ts))
      BY <3>3, <3>4, <3>5, <3>6
    <3>8. QED
      BY <3>6, <3>7
  <2>2. QED
    BY <1>2, <2>1 DEF InStep
<1>3. QED
  BY <1>1, <1>2 DEF ReadFails, Return

LEMMA ReadKeeps ==
    ASSUME NEW ts, NEW all, NEW ends, NEW n, InStep(ts, all, ends, n), Read
    PROVE  Stream'
<1>1. pc = "read" /\ UNCHANGED <<how, conn, answered>>
  BY DEF Read, connecting
<1>2. CASE err # "none" /\ Return(err) /\ UNCHANGED <<reader, response, got, cuts>>
  <2>1. InStep(ts, all, ends, n)'
    BY <1>1, <1>2, Unread DEF Return
  <2>2. QED
    BY <2>1 DEF Stream
<1>3. CASE ReadFails /\ UNCHANGED <<reader, response, got, cuts>>
  <2>1. InStep(ts, all, ends, n)'
    BY <1>1, <1>3, ReadFailsKeeps
  <2>2. QED
    BY <2>1 DEF Stream
<1>4. ASSUME err = "none", NEW k \in 1..Len(response),
             response' = SubSeq(response, k + 1, Len(response)),
             FromReader(redisReaderFeed(reader, SubSeq(response, 1, k)), UNCHANGED pc)
      PROVE  Stream'
  <2> DEFINE fed == redisReaderFeed(reader, SubSeq(response, 1, k))
             next == redisReaderGetReply(fed)
             g == Len(got)
             more == Append(got, next.reply)
             m == n + k
  <2>1. /\ response = SubSeq(all, n + 1, Len(all))
        /\ m \in Nat /\ m <= Len(all) /\ Within(g, ts, all, ends, m)
        /\ SubSeq(response, k + 1, Len(response)) = SubSeq(all, m + 1, Len(all))
        /\ ReaderAt(fed, g, ts, all, ends, m)
    BY <1>4, BytesTaken
  <2>2. /\ reader' = next.r
        /\ IF next.r.err THEN err' = "PROTOCOL" /\ pc' = "idle" /\ got' = got
           ELSE IF next.reply # NoReply THEN err' = err /\ pc' = "idle" /\ got' = more
           ELSE pc' = pc /\ err' = err /\ got' = got
    BY <1>4 DEF FromReader, Return
  <2> HIDE DEF fed, m
  <2>3. /\ Sent(ts, all, ends) /\ got \in Seq(Replies)
        /\ \A i \in 1..g : got[i] = ts[i].reply /\ got[i] # NoReply
    BY DEF InStep
  <2>4. \/ next.r.err = TRUE /\ ReaderAt(next.r, g, ts, all, ends, m)
        \/ /\ next.r.err = FALSE /\ next.reply # NoReply /\ g < Len(ts)
           /\ more \in Seq(Replies) /\ Within(Len(more), ts, all, ends, m)
           /\ \A i \in 1..Len(more) : more[i] = ts[i].reply /\ more[i] # NoReply
           /\ ReaderAt(next.r, Len(more), ts, all, ends, m)
        \/ /\ next.r.err = FALSE /\ next.reply = NoReply
           /\ ReaderAt(next.r, g, ts, all, ends, m)
           /\ g < Len(ts) => m < ends[g + 1]
    BY <2>1, <2>3, Given
  <2>5. response' = SubSeq(all, m + 1, Len(all))
    BY <1>4, <2>1
  <2>6. conn' = "none" /\ pc' # "freed" => ts = <<>>
    BY <1>1 DEF InStep
  <2> HIDE DEF next, more
  <2>7. CASE next.r.err = TRUE /\ ReaderAt(next.r, g, ts, all, ends, m)
    <3>1. err' = "PROTOCOL" /\ pc' = "idle" /\ got' = got /\ reader' = next.r
      BY <2>2, <2>7
    <3>2. InStep(ts, all, ends, m)'
      BY <1>1, <2>1, <2>3, <2>5, <2>6, <2>7, <3>1 DEF InStep
    <3>3. QED
      BY <3>2 DEF Stream
  <2>8. CASE /\ next.r.err = FALSE /\ next.reply # NoReply /\ g < Len(ts)
             /\ more \in Seq(Replies) /\ Within(Len(more), ts, all, ends, m)
             /\ \A i \in 1..Len(more) : more[i] = ts[i].reply /\ more[i] # NoReply
             /\ ReaderAt(next.r, Len(more), ts, all, ends, m)
    <3>1. err' = "none" /\ pc' = "idle" /\ got' = more /\ reader' = next.r
      BY <1>4, <2>2, <2>8
    <3>2. InStep(ts, all, ends, m)'
      BY <1>1, <2>3, <2>5, <2>6, <2>8, <3>1 DEF InStep
    <3>3. QED
      BY <3>2 DEF Stream
  <2>9. CASE /\ next.r.err = FALSE /\ next.reply = NoReply
             /\ ReaderAt(next.r, g, ts, all, ends, m)
             /\ g < Len(ts) => m < ends[g + 1]
    <3>1. err' = "none" /\ pc' = pc /\ got' = got /\ reader' = next.r
      BY <1>4, <2>2, <2>9
    <3>2. InStep(ts, all, ends, m)'
      BY <1>1, <2>1, <2>3, <2>5, <2>6, <2>9, <3>1 DEF InStep
    <3>3. QED
      BY <3>2 DEF Stream
  <2>10. QED
    BY <2>4, <2>7, <2>8, <2>9
<1>5. QED
  BY <1>2, <1>3, <1>4 DEF Read

LEMMA BufferReadKeeps ==
    ASSUME NEW ts, NEW all, NEW ends, NEW n, InStep(ts, all, ends, n), BufferRead
    PROVE  Stream'
<1>1. /\ pc = "idle" /\ ~how.block /\ err = "none"
      /\ UNCHANGED <<how, conn, answered, got>>
  BY DEF BufferRead, connecting, history
<1>2. CASE ReadFails /\ UNCHANGED <<reader, response, cuts>>
  <2>1. InStep(ts, all, ends, n)'
    BY <1>1, <1>2, ReadFailsKeeps
  <2>2. QED
    BY <2>1 DEF Stream
<1>3. ASSUME NEW k \in 1..Len(response),
             response' = SubSeq(response, k + 1, Len(response)),
             reader' = redisReaderFeed(reader, SubSeq(response, 1, k)),
             UNCHANGED <<err, pc>>
      PROVE  Stream'
  <2> DEFINE fed == redisReaderFeed(reader, SubSeq(response, 1, k))
             m == n + k
  <2>1. /\ response = SubSeq(all, n + 1, Len(all))
        /\ m \in Nat /\ m <= Len(all) /\ Within(Len(got), ts, all, ends, m)
        /\ SubSeq(response, k + 1, Len(response)) = SubSeq(all, m + 1, Len(all))
        /\ ReaderAt(fed, Len(got), ts, all, ends, m)
    BY BytesTaken
  <2> HIDE DEF fed, m
  <2>2. reader' = fed /\ response' = SubSeq(all, m + 1, Len(all))
    BY <1>3, <2>1 DEF fed
  <2>3. InStep(ts, all, ends, m)'
    BY <1>1, <1>3, <2>1, <2>2 DEF InStep
  <2>4. QED
    BY <2>3 DEF Stream
<1>4. QED
  BY <1>2, <1>3 DEF BufferRead

\* Redis answers a command.
LEMMA ServeKeeps ==
    ASSUME NEW ts, NEW all, NEW ends, NEW n, InStep(ts, all, ends, n), Serve
    PROVE  Stream'
<1>1. /\ conn = "open" /\ UNCHANGED <<how, err, pc, reader, conn, got>>
  BY DEF Serve, context
<1>2. PICK a \in Answers : /\ response' = response \o a.bytes
                           /\ answered' = Append(answered, a.reply)
  BY DEF Serve
<1> DEFINE b == a.bytes
           longer == Append(ts, a)
           more == all \o b
           last == [i \in 0..Len(longer) |->
                      IF i <= Len(ts) THEN ends[i] ELSE Len(more)]
           g == Len(got)
<1>3. /\ Sent(ts, all, ends) /\ Within(g, ts, all, ends, n)
      /\ ReaderAt(reader, g, ts, all, ends, n) /\ response = SubSeq(all, n + 1, Len(all))
      /\ got \in Seq(Replies)
  BY <1>1 DEF InStep
<1>4. /\ Sent(longer, more, last)
      /\ \A h, k : Within(h, ts, all, ends, k) =>
           /\ Within(h, longer, more, last, k)
           /\ h < Len(ts) => last[h + 1] = ends[h + 1]
           /\ h = Len(ts) => k < last[h + 1]
           /\ \A r : ReaderAt(r, h, ts, all, ends, k) => ReaderAt(r, h, longer, more, last, k)
  BY <1>3, MoreSent
<1> HIDE DEF last
<1>5. /\ Within(g, longer, more, last, n)
      /\ g < Len(ts) => last[g + 1] = ends[g + 1]
      /\ g = Len(ts) => n < last[g + 1]
      /\ ReaderAt(reader, g, longer, more, last, n)
  BY <1>3, <1>4
<1>6. /\ ts \in Seq(Answers) /\ Len(ts) \in Nat /\ all \in Seq(Byte) /\ b \in Seq(Byte)
      /\ n \in 0..Len(all) /\ g \in Nat /\ g <= Len(ts)
  <2>1. b \in Seq(Byte)
    BY AnswersAre
  <2>2. QED
    BY <1>3, <2>1 DEF Sent, Within
<1> HIDE DEF b
<1>7. response' = SubSeq(more, n + 1, Len(more))
  <2>1. SubSeq(all \o b, n + 1, Len(all \o b)) = SubSeq(all, n + 1, Len(all)) \o b
    BY <1>6, RestOfCat
  <2>2. QED
    BY <1>2, <1>3, <2>1 DEF b
<1> HIDE DEF more
<1>8. /\ longer \in Seq(Answers) /\ Len(longer) = Len(ts) + 1 /\ longer[Len(ts) + 1] = a
      /\ \A i \in 1..Len(ts) : longer[i] = ts[i]
  BY <1>6
<1> HIDE DEF longer
<1>9. answered' = [i \in 1..Len(longer) |-> longer[i].reply]
  <2> DEFINE l == Len(ts)
             s == [i \in 1..l |-> ts[i].reply]
             t == [i \in 1..Len(longer) |-> longer[i].reply]
             u == Append(s, a.reply)
  <2>1. answered = s /\ answered' = u
    BY <1>2 DEF InStep
  <2>2. \A i \in 1..l : ts[i] \in Answers /\ ts[i].reply \in Replies
    <3>1. ASSUME NEW i \in 1..l
          PROVE  ts[i] \in Answers /\ ts[i].reply \in Replies
      <4>1. ts[i] \in Answers
        BY <1>6
      <4>2. QED
        BY <4>1, AnswersAre
    <3>2. QED
      BY <3>1
  <2>3. a.reply \in Replies
    BY AnswersAre
  <2>4. s \in Seq(Replies) /\ Len(s) = l
    BY <1>6, <2>2
  <2> DEFINE x == a.reply
  <2> HIDE DEF l
  <2>5. \A i \in 1..l : s[i] = ts[i].reply
    OBVIOUS
  <2> HIDE DEF s, x
  <2>6. /\ u = Append(s, x) /\ u \in Seq(Replies) /\ Len(u) = l + 1 /\ u[l + 1] = x
        /\ \A i \in 1..l : u[i] = s[i]
    BY <2>3, <2>4 DEF x
  <2>7. l \in Nat /\ Len(longer) = l + 1
    BY <1>6, <1>8 DEF l
  <2>8. ASSUME NEW i \in 1..(l + 1)
        PROVE  longer[i].reply \in Replies /\ u[i] = longer[i].reply
    <3>1. CASE i = l + 1
      BY <1>8, <2>3, <2>6, <3>1 DEF l, x
    <3>2. CASE i \in 1..l
      <4>1. longer[i] = ts[i] /\ ts[i].reply \in Replies
        BY <1>8, <2>2, <3>2 DEF l
      <4>2. u[i] = ts[i].reply
        BY <2>5, <2>6, <3>2
      <4>3. QED
        BY <4>1, <4>2
    <3>3. i = l + 1 \/ i \in 1..l
      BY <2>7
    <3>4. QED
      BY <3>1, <3>2, <3>3
  <2>9. t \in Seq(Replies) /\ Len(t) = l + 1 /\ \A i \in 1..(l + 1) : t[i] = longer[i].reply
    BY <2>7, <2>8
  <2> HIDE DEF t, u
  <2>10. Len(u) = Len(t) /\ \A i \in 1..Len(u) : u[i] = t[i]
    BY <2>6, <2>8, <2>9
  <2>11. u = t
    BY <2>6, <2>9, <2>10, SeqEqual
  <2>12. QED
    BY <2>1, <2>11 DEF t
<1>10. \A i \in 1..g : got[i] = longer[i].reply /\ got[i] # NoReply
  <2>1. \A i \in 1..g : got[i] = ts[i].reply /\ got[i] # NoReply
    BY DEF InStep
  <2>2. \A i \in 1..g : longer[i] = ts[i]
    BY <1>6, <1>8
  <2>3. QED
    BY <2>1, <2>2
<1>11. pc \in {"write", "read"} =>
         reader.err = FALSE /\ (g < Len(longer) => n < last[g + 1])
  <2>1. pc \in {"write", "read"} =>
          reader.err = FALSE /\ (g < Len(ts) => n < ends[g + 1])
    BY DEF InStep
  <2>2. g < Len(ts) \/ g = Len(ts)
    BY <1>6
  <2>3. QED
    BY <1>5, <2>1, <2>2
<1>12. (err = "PROTOCOL" => reader.err) /\ ~(how.block /\ err = "EOF")
  BY <1>1 DEF InStep
<1>13. InStep(longer, more, last, n)'
  BY <1>1, <1>3, <1>4, <1>5, <1>7, <1>9, <1>10, <1>11, <1>12 DEF InStep
<1>14. QED
  BY <1>13 DEF Stream

LEMMA StreamNext == Owned /\ Stream /\ [Next]_vars => Stream'
<1> SUFFICES ASSUME Owned, Stream, [Next]_vars PROVE Stream'
  OBVIOUS
<1>1. PICK ts, all, ends, n : InStep(ts, all, ends, n)
  BY DEF Stream
<1>2. CASE Connecting
  BY <1>1, <1>2, ConnectingKeeps DEF Stream
<1>3. CASE Write
  <2>1. /\ pc = "write" /\ UNCHANGED <<how, reader, response, answered, got, conn>>
        /\ err' \in {err, "IO", "OTHER"}
    BY <1>3 DEF Write, WriteSome, Return, connecting, history
  <2>2. InStep(ts, all, ends, n)'
    BY <1>1, <2>1, Unread
  <2>3. QED
    BY <2>2 DEF Stream
<1>4. CASE Read
  BY <1>1, <1>4, ReadKeeps
<1>5. ASSUME NEW c \in Commands, AppendCommand(c)
      PROVE  Stream'
  <2>1. /\ pc = "idle" /\ pc' = pc /\ err' \in {err, "IO", "OTHER"}
        /\ UNCHANGED <<how, reader, response, answered, got, conn>>
    BY <1>5 DEF AppendCommand, AppendFormatted, connecting, network
  <2>2. InStep(ts, all, ends, n)'
    BY <1>1, <2>1, Unread
  <2>3. QED
    BY <2>2 DEF Stream
<1>6. CASE GetReply
  BY <1>1, <1>6, GetReplyKeeps DEF Stream
<1>7. CASE BufferWrite
  <2>1. /\ pc = "idle" /\ pc' = pc /\ err' \in {err, "IO", "OTHER"}
        /\ UNCHANGED <<how, reader, response, answered, got, conn>>
    BY <1>7 DEF BufferWrite, WriteSome, Return, connecting, history
  <2>2. InStep(ts, all, ends, n)'
    BY <1>1, <2>1, Unread
  <2>3. QED
    BY <2>2 DEF Stream
<1>8. CASE BufferRead
  BY <1>1, <1>8, BufferReadKeeps
<1>9. CASE SetTimeout
  <2>1. /\ pc = "idle" /\ pc' = pc /\ err' \in {err, "IO", "OTHER"}
        /\ UNCHANGED <<how, reader, response, answered, got, conn>>
    BY <1>9 DEF SetTimeout, connecting, network, history
  <2>2. InStep(ts, all, ends, n)'
    BY <1>1, <2>1, Unread
  <2>3. QED
    BY <2>2 DEF Stream
<1>10. CASE Reconnect
  BY <1>10, ReconnectKeeps
<1>11. CASE Free
  <2>1. /\ pc' = "freed" /\ conn' = "none"
        /\ UNCHANGED <<how, err, reader, response, answered, got>>
    BY <1>11 DEF Free, context, history
  <2>2. InStep(ts, all, ends, n)'
    BY <1>1, <2>1 DEF InStep
  <2>3. QED
    BY <2>2 DEF Stream
<1>12. CASE Serve
  BY <1>1, <1>12, ServeKeeps
<1>13. CASE Close
  <2>1. /\ conn = "open" /\ conn' = "closed"
        /\ UNCHANGED <<how, err, pc, reader, response, answered, got>>
    BY <1>13 DEF Close, context, history
  <2>2. InStep(ts, all, ends, n)'
    BY <1>1, <2>1 DEF InStep
  <2>3. QED
    BY <2>2 DEF Stream
<1>14. CASE Reset
  <2>1. /\ conn = "open" /\ conn' = "reset" /\ response' = <<>>
        /\ UNCHANGED <<how, err, pc, reader, answered, got>>
    BY <1>14 DEF Reset, context, history
  <2>2. InStep(ts, all, ends, n)'
    BY <1>1, <2>1 DEF InStep
  <2>3. QED
    BY <2>2 DEF Stream
<1>15. CASE UNCHANGED vars
  <2>1. UNCHANGED <<how, err, pc, reader, response, answered, got, conn>>
    BY <1>15 DEF vars, context, network, history
  <2>2. InStep(ts, all, ends, n)'
    BY <1>1, <2>1 DEF InStep
  <2>3. QED
    BY <2>2 DEF Stream
<1>16. CASE Freed
  BY <1>15, <1>16 DEF Freed
<1>17. QED
  BY <1>2, <1>3, <1>4, <1>5, <1>6, <1>7, <1>8, <1>9, <1>10, <1>11, <1>12, <1>13, <1>14,
     <1>15, <1>16 DEF Next, User

LEMMA StreamHolds == Spec => []Stream
<1>1. Init => Owned /\ Stream
  BY OwnedInit, StreamInit
<1>2. Owned /\ Stream /\ [Next]_vars => (Owned /\ Stream)'
  BY OwnedNext, StreamNext
<1>3. QED
  BY <1>1, <1>2, PTL DEF Spec

\* However the replies are cut by read, into as many pieces as it likes, and
\* whatever the answers are, the user gets those of this connection in their
\* order, whole; and an error of the protocol is found in an answer that has
\* one, never in one that is incomplete (read.c).
THEOREM RepliesInOrderHolds == Spec => []RepliesInOrder
<1>1. Stream => RepliesInOrder
  <2> SUFFICES ASSUME Stream PROVE RepliesInOrder
    OBVIOUS
  <2>1. PICK ts, all, ends, n : InStep(ts, all, ends, n)
    BY DEF Stream
  <2>2. /\ Len(ts) \in Nat /\ Len(got) \in Nat /\ Len(got) <= Len(ts) /\ got \in Seq(Replies)
        /\ answered = [i \in 1..Len(ts) |-> ts[i].reply]
    BY <2>1 DEF InStep, Sent, Within
  <2>3. Len(answered) = Len(ts)
    BY <2>2
  <2>4. \A i \in DOMAIN got : got[i] = answered[i] /\ got[i] # NoReply
    <3>1. \A i \in 1..Len(got) : got[i] = ts[i].reply /\ got[i] # NoReply
      BY <2>1 DEF InStep
    <3>2. \A i \in 1..Len(got) : answered[i] = ts[i].reply
      BY <2>2
    <3>3. DOMAIN got = 1..Len(got)
      BY <2>2
    <3>4. QED
      BY <3>1, <3>2, <3>3
  <2>5. err = "PROTOCOL" =>
          Len(got) < Len(answered) /\ answered[Len(got) + 1] = NoReply
    <3>1. err = "PROTOCOL" => Len(got) < Len(ts) /\ ts[Len(got) + 1].reply = NoReply
      BY <2>1 DEF InStep, ReaderAt
    <3>2. Len(got) < Len(ts) => answered[Len(got) + 1] = ts[Len(got) + 1].reply
      BY <2>2
    <3>3. QED
      BY <2>3, <3>1, <3>2
  <2>6. QED
    BY <2>2, <2>3, <2>4, <2>5 DEF RepliesInOrder
<1>2. QED
  BY <1>1, StreamHolds, PTL

\* A blocking user that is told of the end of the connection has all the
\* replies that Redis sent before it closed it (hiredis.c:796, 856).
THEOREM NoReplyLostHolds == Spec => []NoReplyLost
<1>1. Stream => NoReplyLost
  <2> SUFFICES ASSUME Stream, how.block, err = "EOF" PROVE got = answered
    BY DEF NoReplyLost
  <2>1. PICK ts, all, ends, n : InStep(ts, all, ends, n)
    BY DEF Stream
  <2>2. /\ Len(got) = Len(ts) /\ got \in Seq(Replies)
        /\ answered = [i \in 1..Len(ts) |-> ts[i].reply]
    BY <2>1 DEF InStep
  <2>3. \A i \in 1..Len(got) : got[i] = ts[i].reply
    BY <2>1 DEF InStep
  <2>4. got = [i \in 1..Len(got) |-> got[i]]
    BY <2>2
  <2>5. QED
    BY <2>2, <2>3, <2>4
<1>2. QED
  BY <1>1, StreamHolds, PTL

\* The reader is as its functions expect it to be, whatever it is given, cut
\* anywhere: its position is in its buffer, the allocation of the buffer holds
\* its contents, and its stack is that of a reply that has begun, no deeper
\* than rstack (read.c, sds.c).
THEOREM ReaderKept == Spec => []IsReader(reader, Byte)
<1>1. Stream => IsReader(reader, Byte)
  BY SaneIsReader DEF Stream, InStep, ReaderAt
<1>2. QED
  BY <1>1, StreamHolds, PTL
=============================================================================
