---------------------------- MODULE ExchangeProof ---------------------------
(***************************************************************************)
(* Proofs about Exchange.  When recv returns all that it can, what          *)
(* write_file registers is the block, or a beginning of it if the server    *)
(* went away, and what receive_peers stores are the peers of the server.    *)
(* The type invariant holds even when recv does not.                        *)
(***************************************************************************)
EXTENDS Exchange, SequenceTheorems, FiniteSetTheorems, TLAPS

LEMMA LengthType == Length \in Nat /\ Length > 1
<1>1. Length \in Nat \ {0, 1}
  BY ExchangeAssumption
<1>2. QED
  BY <1>1
-----------------------------------------------------------------------------
(* Streams: what is sent is messages, and then units of the block.         *)

\* The units of a block after the first a, up to the bth.
Data == [of : {"data"}, part : Int]
Slice(a, b) == [i \in 1..(b - a) |-> [of |-> "data", part |-> a + i]]

LEMMA SliceType ==
    ASSUME NEW a \in Nat, NEW b \in Nat, a <= b
    PROVE  Slice(a, b) \in Seq(Data) /\ Len(Slice(a, b)) = b - a
<1>1. b - a \in Nat
  OBVIOUS
<1>2. \A i \in 1..(b - a) : [of |-> "data", part |-> a + i] \in Data
  BY DEF Data
<1>3. QED
  BY <1>1, <1>2 DEF Slice

LEMMA SliceEmpty == \A a \in Nat : Slice(a, a) = << >>
BY DEF Slice

LEMMA BlockIsSlice == Block = Slice(0, Length)
<1>1. \A i \in 1..Length : [of |-> "data", part |-> i] = [of |-> "data", part |-> 0 + i]
  OBVIOUS
<1>2. 1..Length = 1..(Length - 0)
  BY LengthType
<1>3. QED
  BY <1>1, <1>2 DEF Block, Slice

LEMMA SlicePrefix ==
    ASSUME NEW a \in Nat, NEW b \in Nat, a <= b, NEW k \in 0..(b - a)
    PROVE  SubSeq(Slice(a, b), 1, k) = Slice(a, a + k)
<1>1. SubSeq(Slice(a, b), 1, k) = [i \in 1..k |-> Slice(a, b)[i]]
  BY SliceType
<1>2. \A i \in 1..k : Slice(a, b)[i] = [of |-> "data", part |-> a + i]
  BY DEF Slice
<1>3. QED
  BY <1>1, <1>2 DEF Slice

LEMMA SliceRest ==
    ASSUME NEW a \in Nat, NEW b \in Nat, a <= b, NEW k \in 0..(b - a)
    PROVE  SubSeq(Slice(a, b), k + 1, b - a) = Slice(a + k, b)
<1>1. SubSeq(Slice(a, b), k + 1, b - a) = [i \in 1..(b - a - k) |-> Slice(a, b)[k + i]]
  BY SliceType
<1>2. \A i \in 1..(b - a - k) : Slice(a, b)[k + i] = [of |-> "data", part |-> a + k + i]
  BY DEF Slice
<1>3. QED
  BY <1>1, <1>2 DEF Slice

LEMMA SliceConcat ==
    ASSUME NEW a \in Nat, NEW b \in Nat, NEW c \in Nat, a <= b, b <= c
    PROVE  Slice(a, b) \o Slice(b, c) = Slice(a, c)
<1>1. /\ Slice(a, b) \in Seq(Data) /\ Len(Slice(a, b)) = b - a
      /\ Slice(b, c) \in Seq(Data) /\ Len(Slice(b, c)) = c - b
      /\ Slice(a, c) \in Seq(Data) /\ Len(Slice(a, c)) = c - a
  <2>1. a <= c
    OBVIOUS
  <2>2. QED
    BY <2>1, SliceType
<1>2. /\ Slice(a, b) \o Slice(b, c) \in Seq(Data)
      /\ Len(Slice(a, b) \o Slice(b, c)) = c - a
      /\ \A i \in 1..(c - a) : (Slice(a, b) \o Slice(b, c))[i] =
             IF i <= b - a THEN Slice(a, b)[i] ELSE Slice(b, c)[i - (b - a)]
  <2> DEFINE s == Slice(a, b)
             t == Slice(b, c)
  <2>1. s \in Seq(Data) /\ t \in Seq(Data)
    BY <1>1
  <2> HIDE DEF s, t
  <2>2. /\ s \o t \in Seq(Data) /\ Len(s \o t) = Len(s) + Len(t)
        /\ \A i \in 1..Len(s) + Len(t) :
              (s \o t)[i] = IF i <= Len(s) THEN s[i] ELSE t[i - Len(s)]
    BY <2>1, ConcatProperties
  <2>3. Len(s) = b - a /\ Len(s) + Len(t) = c - a
    BY <1>1 DEF s, t
  <2>4. QED
    BY <2>2, <2>3 DEF s, t
<1>3. \A i \in 1..(c - a) : (Slice(a, b) \o Slice(b, c))[i] = Slice(a, c)[i]
  <2> SUFFICES ASSUME NEW i \in 1..(c - a)
               PROVE  (Slice(a, b) \o Slice(b, c))[i] = Slice(a, c)[i]
    OBVIOUS
  <2>1. Slice(a, c)[i] = [of |-> "data", part |-> a + i]
    BY DEF Slice
  <2>2. CASE i <= b - a
    <3>1. Slice(a, b)[i] = [of |-> "data", part |-> a + i]
      BY <2>2 DEF Slice
    <3>2. QED
      BY <1>2, <2>1, <2>2, <3>1
  <2>3. CASE ~(i <= b - a)
    <3>1. i - (b - a) \in 1..(c - b) /\ b + (i - (b - a)) = a + i
      BY <2>3
    <3>2. Slice(b, c)[i - (b - a)] = [of |-> "data", part |-> a + i]
      BY <3>1 DEF Slice
    <3>3. QED
      BY <1>2, <2>1, <2>3, <3>2
  <2>4. QED
    BY <2>2, <2>3
<1>4. QED
  BY <1>1, <1>2, <1>3, SeqEqual

LEMMA SliceOne == \A a \in Nat : <<[of |-> "data", part |-> a + 1]>> = Slice(a, a + 1)
BY DEF Slice

\* A message, and what comes after it.
LEMMA MessageCut ==
    ASSUME NEW S, NEW t \in Seq(S), NEW m
    PROVE  /\ Message(m) \o t \in Seq(S \cup [of : {m}, part : Int])
           /\ Len(Message(m) \o t) = 3 + Len(t)
           /\ SubSeq(Message(m) \o t, 1, 3) = Message(m)
           /\ SubSeq(Message(m) \o t, 4, 3 + Len(t)) = t
<1> DEFINE T == S \cup [of : {m}, part : Int]
<1>1. Message(m) \in Seq(T) /\ Len(Message(m)) = 3 /\ t \in Seq(T)
  <2>1. Message(m) = [i \in 1..3 |-> [of |-> m, part |-> i]]
    BY DEF Message, SIZE
  <2>2. \A i \in 1..3 : [of |-> m, part |-> i] \in T
    OBVIOUS
  <2>3. Message(m) \in Seq(T) /\ Len(Message(m)) = 3
    BY <2>1, <2>2
  <2>4. t \in Seq(T)
    BY SeqMonotonic
  <2>5. QED
    BY <2>3, <2>4
<1> HIDE DEF T
<1>2. /\ Message(m) \o t \in Seq(T) /\ Len(Message(m) \o t) = 3 + Len(t)
      /\ \A i \in 1..(3 + Len(t)) : (Message(m) \o t)[i] =
             IF i <= 3 THEN Message(m)[i] ELSE t[i - 3]
  <2> DEFINE s == Message(m)
  <2>1. s \in Seq(T) /\ Len(s) = 3 /\ t \in Seq(T)
    BY <1>1
  <2> HIDE DEF s
  <2>2. /\ s \o t \in Seq(T) /\ Len(s \o t) = Len(s) + Len(t)
        /\ \A i \in 1..Len(s) + Len(t) :
              (s \o t)[i] = IF i <= Len(s) THEN s[i] ELSE t[i - Len(s)]
    BY <2>1, ConcatProperties
  <2>3. QED
    BY <2>1, <2>2 DEF s
<1>3. SubSeq(Message(m) \o t, 1, 3) = Message(m)
  <2> DEFINE s == SubSeq(Message(m) \o t, 1, 3)
  <2>1. Len(t) \in Nat
    OBVIOUS
  <2>2. \A i \in 1..3 : (Message(m) \o t)[i] = Message(m)[i] /\ (Message(m) \o t)[i] \in T
    BY <1>1, <1>2, <2>1
  <2>3. s \in Seq(T) /\ Len(s) = 3 /\ \A i \in 1..3 : s[i] = (Message(m) \o t)[i]
    <3> DEFINE u == Message(m) \o t
    <3>1. \A i \in 1..3 : u[i] \in T
      BY <2>2
    <3> HIDE DEF u
    <3>2. /\ SubSeq(u, 1, 3) \in Seq(T) /\ Len(SubSeq(u, 1, 3)) = 3
          /\ \A i \in 1..3 : SubSeq(u, 1, 3)[i] = u[i]
      <4>1. /\ SubSeq(u, 1, 3) \in Seq(T)
            /\ Len(SubSeq(u, 1, 3)) = IF 1 <= 3 THEN 3 - 1 + 1 ELSE 0
            /\ \A i \in 1..3 - 1 + 1 : SubSeq(u, 1, 3)[i] = u[1 + i - 1]
        BY <3>1, SubSeqProperties
      <4>2. QED
        BY <4>1
    <3>3. QED
      BY <3>2 DEF u
  <2> HIDE DEF s
  <2>4. s = Message(m)
    BY <1>1, <2>2, <2>3, SeqEqual
  <2>5. QED
    BY <2>4 DEF s
<1>4. SubSeq(Message(m) \o t, 4, 3 + Len(t)) = t
  <2> DEFINE s == SubSeq(Message(m) \o t, 4, 3 + Len(t))
  <2>1. Len(t) \in Nat
    OBVIOUS
  <2>2. \A i \in 4..(3 + Len(t)) : (Message(m) \o t)[i] \in T
    BY <1>1, <1>2, <2>1
  <2>3. /\ s \in Seq(T) /\ Len(s) = Len(t)
        /\ \A i \in 1..Len(t) : s[i] = (Message(m) \o t)[4 + i - 1]
    <3> DEFINE u == Message(m) \o t
               n == 3 + Len(t)
    <3>1. n \in Int
      BY <2>1
    <3>2. \A i \in 4..n : u[i] \in T
      BY <2>2
    <3>3. Len(t) = n - 4 + 1 /\ (4 <= n <=> 1 <= Len(t))
      BY <2>1
    <3> HIDE DEF u, n
    <3>4. /\ SubSeq(u, 4, n) \in Seq(T)
          /\ Len(SubSeq(u, 4, n)) = IF 4 <= n THEN n - 4 + 1 ELSE 0
          /\ \A i \in 1..n - 4 + 1 : SubSeq(u, 4, n)[i] = u[4 + i - 1]
      BY <3>1, <3>2, SubSeqProperties
    <3>5. Len(SubSeq(u, 4, n)) = Len(t)
      BY <2>1, <3>3, <3>4
    <3>6. \A i \in 1..Len(t) : SubSeq(u, 4, n)[i] = u[4 + i - 1]
      BY <3>3, <3>4
    <3>7. QED
      BY <3>4, <3>5, <3>6 DEF u, n
  <2>4. \A i \in 1..Len(t) : (Message(m) \o t)[4 + i - 1] = t[i]
    BY <1>2, <2>1
  <2> HIDE DEF s
  <2>5. s = t
    BY <1>1, <2>1, <2>3, <2>4, SeqEqual
  <2>6. QED
    BY <2>5 DEF s
<1>5. QED
  BY <1>2, <1>3, <1>4 DEF T

LEMMA TextOfMessage == \A m : Text(Message(m)) = m
<1> SUFFICES ASSUME NEW m PROVE Text(Message(m)) = m
  OBVIOUS
<1>1. Message(m) \in Seq([of : {m}, part : 1..3]) /\ Len(Message(m)) = 3
  BY DEF Message, SIZE
<1>2. Message(m)[1] = [of |-> m, part |-> 1]
  BY DEF Message, SIZE
<1>3. ~Zeros(Message(m)[1])
  BY <1>2 DEF Zeros, SIZE
<1>4. QED
  <2> DEFINE s == Message(m)
  <2>1. s # << >> /\ ~Zeros(s[1]) /\ s[1].part = 1 /\ s[1].of = m /\ Len(s) > 1
    <3>1. s # << >>
      BY <1>1, EmptySeq
    <3>2. QED
      BY <1>1, <1>2, <1>3, <3>1
  <2> HIDE DEF s
  <2>2. Text(s) = m
    BY <2>1 DEF Text
  <2>3. QED
    BY <2>2 DEF s

\* A recv that is not short: a whole message, or as much data as fits.
LEMMA ReceivesMessage ==
    ASSUME "short" \notin Faults, NEW m, NEW S, NEW t \in Seq(S), NEW b,
           Receives(Message(m) \o t, b)
    PROVE  b = Message(m) /\ Text(b) = m /\ After(Message(m) \o t, b) = t
<1> DEFINE s == Message(m) \o t
<1>1. Len(s) = 3 + Len(t) /\ SubSeq(s, 1, 3) = Message(m) /\ SubSeq(s, 4, 3 + Len(t)) = t
  BY MessageCut
<1>2. Len(t) \in Nat /\ Len(Message(m)) = 3
  BY DEF Message, SIZE
<1> HIDE DEF s
<1>3. PICK k \in 1..SIZE : k <= Len(s) /\ b = SubSeq(s, 1, k) /\ ~(k < SIZE /\ k < Len(s))
  BY DEF Receives, s
<1>4. k = 3
  BY <1>1, <1>2, <1>3 DEF SIZE
<1>5. b = Message(m)
  BY <1>1, <1>3, <1>4
<1>6. QED
  BY <1>1, <1>2, <1>5, TextOfMessage DEF After, s

LEMMA ReceivesSlice ==
    ASSUME NEW a \in Nat, NEW n \in Nat, a <= n, NEW b, Receives(Slice(a, n), b)
    PROVE  \E k \in 1..(n - a) :
             b = Slice(a, a + k) /\ Len(b) = k /\ After(Slice(a, n), b) = Slice(a + k, n)
<1> DEFINE s == Slice(a, n)
<1>1. s \in Seq(Data) /\ Len(s) = n - a
  BY SliceType
<1>2. PICK k \in 1..3 : k <= Len(s) /\ b = SubSeq(s, 1, k)
  <2> HIDE DEF s
  <2>1. QED
    BY DEF Receives, SIZE, s
<1>3. k \in 1..(n - a) /\ k \in 0..(n - a) /\ a + k \in Nat /\ a <= a + k
  BY <1>1, <1>2
<1>4. b = Slice(a, a + k)
  BY <1>2, <1>3, SlicePrefix
<1>5. Len(b) = k
  <2>1. Len(Slice(a, a + k)) = (a + k) - a
    BY <1>3, SliceType
  <2>2. QED
    BY <1>3, <1>4, <2>1
<1>6. After(Slice(a, n), b) = Slice(a + k, n)
  BY <1>1, <1>3, <1>5, SliceRest DEF After
<1>7. QED
  BY <1>3, <1>4, <1>5, <1>6
-----------------------------------------------------------------------------
(* Where a client that asks for a block is, and its child, and what is on  *)
(* the way between the two.                                                *)

Waits(c) ==
    \/ child[c] \in {"none", "cid"} /\ up[c] = Message(asked[c]) /\ down[c] = << >>
    \/ child[c] \in {"get", "verify", "remove"} /\ up[c] = << >> /\ down[c] = << >>
    \/ child[c] = "want" /\ up[c] = << >> /\ down[c] \in {Message("Y"), Message("N")}
    \/ child[c] = "gone" /\ down[c] \in {<< >>, Message("Y"), Message("N")}

\* The child has sent the number, and the block up to what is left.
Sends(c) == child[c] \in {"BLOCK", "gone"} /\ left[c] \in 0..Length

Asks(c) ==
    \/ child[c] = "want" /\ up[c] = Message("BLOCK") /\ down[c] = << >>
    \/ child[c] = "gone" /\ down[c] = << >>
    \/ Sends(c) /\ down[c] = Message("number") \o Slice(0, Length - left[c])

\* The file is the first g units, and those that come are the next.
Reads(c, g) ==
    /\ got[c] = Slice(0, g) /\ remain[c] = Length - g
    /\ down[c] = Slice(g, Length - left[c])

Loads(c) ==
    \/ Closed(c) /\ got[c] = << >> /\ down[c] = << >>
    \/ Sends(c) /\ \E g \in 0..(Length - left[c]) : Reads(c, g)

Registered(c) ==
    /\ pc[c] = "done"
    /\ \E g \in 0..Length : got[c] = Slice(0, g) /\ (g = Length \/ Closed(c))

Sound(c) ==
    /\ pc[c] = "idle" => child[c] = "none" /\ up[c] = << >> /\ down[c] = << >>
    /\ pc[c] = "answer" => Waits(c)
    /\ pc[c] = "size" => Asks(c)
    /\ pc[c] = "data" => Loads(c)
    /\ pc[c] \in {"idle", "answer", "size"} => got[c] = << >>
    /\ result[c] = "registered" => Registered(c)

\* A connection is accepted once, after its client has sent the CID.
Queued ==
    /\ \A c \in Clients : child[c] # "none" => \E i \in DOMAIN accepted : accepted[i] = c
    /\ \A i \in DOMAIN backlog : child[backlog[i]] = "none" /\ pc[backlog[i]] # "idle"
    /\ \A i, j \in DOMAIN backlog : backlog[i] = backlog[j] => i = j

\* As much of the type as the proof needs.
Shape ==
    /\ backlog \in Seq(Clients) /\ accepted \in Seq(Clients)
    /\ child \in [Clients -> {"none", "cid", "get", "verify", "remove", "want",
                             "BLOCK", "PEERS", "gone"}]
    /\ DOMAIN up = Clients /\ DOMAIN down = Clients /\ DOMAIN left = Clients
    /\ DOMAIN pc = Clients /\ DOMAIN remain = Clients /\ DOMAIN got = Clients
    /\ DOMAIN result = Clients
    /\ asked \in [Clients -> Cids]

\* The steps of a child until it has answered.
ChildBegins(c) ==
    ChildReceives(c) \/ ChildLooksUp(c) \/ ChildVerifies(c) \/ ChildRemoves(c)

Whole == Shape /\ Queued /\ \A c \in Clients : Sound(c)

\* A connection that nobody serves stays so.
LEMMA ClosedStays ==
    ASSUME Shape, [Next]_vars, NEW c \in Clients, Closed(c)
    PROVE  Closed(c)'
<1>1. parent = "gone"
  BY DEF Closed
<1>2. /\ parent' = "gone" /\ accepted' = accepted
      /\ \A d \in Clients : child[d] \in {"none", "gone"} => child'[d] = child[d]
  <2>1. CASE \E d \in Clients : Client(d) \/ ClientKilled(d)
    BY <1>1, <2>1 DEF Client, Connect, ReceiveAnswer, ReceiveSize, ReceiveCount, ReceiveNumber,
                      ReceiveData, Register, ReceivePeer, EndPeers, ClientKilled, server
  <2>2. ASSUME NEW d \in Clients, Child(d)
        PROVE  /\ parent' = parent /\ accepted' = accepted
               /\ child[d] \notin {"none", "gone"}
               /\ \A k \in Clients : k # d => child'[k] = child[k]
    <3>1. CASE ChildBegins(d)
      BY <3>1 DEF ChildBegins, ChildReceives, ChildLooksUp, ChildVerifies, ChildRemoves,
                  ChildGoes, Answer, Shape
    <3>2. CASE ChildHears(d)
      BY <3>2 DEF ChildHears, ChildGoes, Shape
    <3>3. CASE ChildSends(d)
      BY <3>3 DEF ChildSends, Shape
    <3>4. CASE ChildEnds(d)
      BY <3>4 DEF ChildEnds, ChildGoes, Shape
    <3>5. QED
      BY <2>2, <3>1, <3>2, <3>3, <3>4 DEF Child, ChildBegins
  <2>3. CASE \E d \in Clients : Child(d)
    BY <1>1, <2>2, <2>3
  <2>4. CASE Accept \/ ServerCrashes
    BY <1>1, <2>4 DEF Accept, ServerCrashes
  <2>5. CASE Finished \/ UNCHANGED vars
    BY <1>1, <2>5 DEF Finished, vars
  <2>6. QED
    BY <2>1, <2>3, <2>4, <2>5 DEF Next
<1>3. \A j \in DOMAIN accepted : accepted[j] \in Clients
  BY DEF Shape
<1>4. QED
  BY <1>2, <1>3 DEF Closed

LEMMA SoundKept ==
    ASSUME NEW c \in Clients, Sound(c), Closed(c) => Closed(c)',
           pc'[c] = pc[c], child'[c] = child[c], up'[c] = up[c], down'[c] = down[c],
           left'[c] = left[c], asked'[c] = asked[c], remain'[c] = remain[c],
           got'[c] = got[c], result'[c] = result[c]
    PROVE  Sound(c)'
<1>1. pc[c] = "answer" => Waits(c)'
  BY DEF Sound, Waits
<1>2. pc[c] = "size" => Asks(c)'
  BY DEF Sound, Asks, Sends
<1>3. pc[c] = "data" => Loads(c)'
  BY DEF Sound, Loads, Sends, Reads
<1>4. result[c] = "registered" => Registered(c)'
  BY DEF Sound, Registered
<1>5. QED
  BY <1>1, <1>2, <1>3, <1>4 DEF Sound

\* A step of one client or its child is nothing to the others.
LEMMA SoundOthers ==
    ASSUME Shape, NEW d \in Clients, Client(d) \/ Child(d) \/ ClientKilled(d),
           NEW c \in Clients, c # d, Sound(c), Closed(c) => Closed(c)'
    PROVE  Sound(c)'
<1> USE DEF Shape
<1>1. CASE Connect(d)
  BY <1>1, SoundKept DEF Connect, Goto, Done
<1>2. CASE ReceiveAnswer(d)
  BY <1>2, SoundKept DEF ReceiveAnswer, AtEnd, Reset, Goto, Done, server
<1>3. CASE ReceiveSize(d) \/ ReceiveCount(d)
  BY <1>3, SoundKept DEF ReceiveSize, ReceiveCount, ReceiveNumber, AtEnd, Reset, Goto, Done, server
<1>4. CASE ReceiveData(d)
  BY <1>4, SoundKept DEF ReceiveData, server
<1>5. CASE Register(d) \/ EndPeers(d) \/ ClientKilled(d)
  BY <1>5, SoundKept DEF Register, EndPeers, ClientKilled, AtEnd, Goto, Done, server
<1>6. CASE ReceivePeer(d)
  BY <1>6, SoundKept DEF ReceivePeer, AtEnd, Reset, Goto, Done, server
<1>7. CASE ChildBegins(d)
  BY <1>7, SoundKept
     DEF ChildBegins, ChildReceives, ChildLooksUp, ChildVerifies, ChildRemoves,
         ChildGoes, Answer, client
<1>8. CASE ChildHears(d)
  BY <1>8, SoundKept DEF ChildHears, ChildGoes, client
<1>9. CASE ChildSends(d) \/ ChildEnds(d)
  BY <1>9, SoundKept DEF ChildSends, ChildEnds, ChildGoes, client
<1>10. QED
  BY <1>1, <1>2, <1>3, <1>4, <1>5, <1>6, <1>7, <1>8, <1>9 DEF Client, Child, ChildBegins

LEMMA ReceivesOnly ==
    ASSUME "short" \notin Faults, NEW m, NEW b, Receives(Message(m), b)
    PROVE  b = Message(m) /\ Text(b) = m /\ After(Message(m), b) = << >>
<1>1. << >> \in Seq(Data) /\ Message(m) \o << >> = Message(m)
  <2>1. Message(m) \in Seq([of : {m}, part : 1..3])
    BY DEF Message, SIZE
  <2>2. QED
    BY <2>1, EmptySeq, ConcatEmptySeq
<1>2. Receives(Message(m) \o << >>, b)
  BY <1>1
<1>3. b = Message(m) /\ Text(b) = m /\ After(Message(m) \o << >>, b) = << >>
  BY <1>1, <1>2, ReceivesMessage
<1>4. QED
  BY <1>1, <1>3

LEMMA NothingReceived == \A b : ~Receives(<< >>, b)
BY DEF Receives

LEMMA FirstMessage == \A m : << >> \o Message(m) = Message(m)
<1> SUFFICES ASSUME NEW m PROVE << >> \o Message(m) = Message(m)
  OBVIOUS
<1>1. Message(m) \in Seq([of : {m}, part : 1..3])
  BY DEF Message, SIZE
<1>2. QED
  BY <1>1, ConcatEmptySeq

\* The client's own steps.
LEMMA SoundConnect ==
    ASSUME Shape, NEW c \in Clients, Sound(c), Connect(c)
    PROVE  Sound(c)'
<1> USE DEF Shape
<1>1. /\ pc[c] = "idle" /\ UNCHANGED <<child, down, asked, got>>
      /\ child[c] = "none" /\ down[c] = << >> /\ got[c] = << >> /\ result[c] # "registered"
  BY DEF Connect, Sound, Registered
<1>2. \/ pc'[c] = "done" /\ result'[c] = "refused"
      \/ pc'[c] = "answer" /\ up'[c] = Message(asked[c]) /\ result'[c] = result[c]
  BY DEF Connect, Goto, Done
<1>3. QED
  BY <1>1, <1>2 DEF Sound, Waits

LEMMA SoundAnswer ==
    ASSUME "short" \notin Faults, Shape, NEW c \in Clients, Sound(c), ReceiveAnswer(c)
    PROVE  Sound(c)'
<1> USE DEF Shape
<1>1. /\ pc[c] = "answer" /\ Waits(c) /\ got[c] = << >> /\ result[c] # "registered"
      /\ UNCHANGED <<child, left, asked, got>>
  BY DEF ReceiveAnswer, Sound, Registered, server
<1>2. CASE pc'[c] \in {"count", "done"} /\ result'[c] \in {result[c], "refused"}
  BY <1>1, <1>2 DEF Sound
<1>3. CASE \E b : /\ Receives(down[c], b) /\ down'[c] = After(down[c], b) /\ Text(b) = "Y"
                  /\ pc'[c] = "size" /\ up'[c] = up[c] \o Message("BLOCK")
                  /\ result'[c] = result[c]
  <2>1. PICK b : /\ Receives(down[c], b) /\ down'[c] = After(down[c], b) /\ Text(b) = "Y"
    BY <1>3
  <2>2. down[c] \in {Message("Y"), Message("N")}
    BY <1>1, <2>1, NothingReceived DEF Waits
  <2>3. down'[c] = << >>
    BY <2>1, <2>2, ReceivesOnly
  <2>4. \/ child[c] = "want" /\ up[c] = << >>
        \/ child[c] = "gone"
    BY <1>1, <2>1, NothingReceived DEF Waits
  <2>5. Asks(c)'
    BY <1>1, <1>3, <2>3, <2>4, FirstMessage DEF Asks
  <2>6. QED
    BY <1>1, <1>3, <2>5 DEF Sound
<1>4. QED
  <2>1. ASSUME NEW b, Receives(down[c], b), down' = [down EXCEPT ![c] = After(@, b)],
               Goto(c, IF Text(b) = "Y" THEN "size" ELSE "count"),
               up' = [up EXCEPT ![c] = @ \o Message(IF Text(b) = "Y" THEN "BLOCK" ELSE "PEERS")],
               UNCHANGED result
        PROVE  Sound(c)'
    BY <1>2, <1>3, <2>1 DEF Goto
  <2>2. ASSUME Goto(c, "count"), UNCHANGED result
        PROVE  Sound(c)'
    BY <1>2, <2>2 DEF Goto
  <2>3. ASSUME Done(c, "refused")
        PROVE  Sound(c)'
    BY <1>2, <2>3 DEF Done, Goto
  <2>4. QED
    BY <2>1, <2>2, <2>3 DEF ReceiveAnswer

LEMMA SoundSize ==
    ASSUME "short" \notin Faults, Shape, NEW c \in Clients, Sound(c), ReceiveSize(c),
           Closed(c) => Closed(c)'
    PROVE  Sound(c)'
<1> USE DEF Shape
<1>1. /\ pc[c] = "size" /\ Asks(c) /\ got[c] = << >> /\ result[c] # "registered"
      /\ UNCHANGED <<child, left, got>>
  BY DEF ReceiveSize, ReceiveNumber, Sound, Registered, server
<1>2. CASE Reset(c) /\ Done(c, "failed")
  BY <1>1, <1>2 DEF Sound, Done, Goto
<1>3. CASE AtEnd(c) /\ Goto(c, "data") /\ UNCHANGED result
  <2>1. Loads(c)'
    BY <1>1, <1>3 DEF Loads, AtEnd
  <2>2. QED
    BY <1>1, <1>3, <2>1 DEF Sound, Goto
<1>4. ASSUME NEW b, Receives(down[c], b), down' = [down EXCEPT ![c] = After(@, b)],
             \E k \in Number(Text(b), Length) : remain' = [remain EXCEPT ![c] = k],
             Goto(c, "data"), UNCHANGED result
      PROVE  Sound(c)'
  <2>1. Sends(c) /\ down[c] = Message("number") \o Slice(0, Length - left[c])
    BY <1>1, <1>4, NothingReceived DEF Asks
  <2>2. /\ left[c] \in 0..Length /\ Length - left[c] \in Nat /\ 0 \in 0..(Length - left[c])
        /\ Length - 0 = Length
    BY <2>1, LengthType DEF Sends
  <2>3. Slice(0, Length - left[c]) \in Seq(Data)
    BY <2>2, SliceType
  <2>4. Text(b) = "number" /\ After(down[c], b) = Slice(0, Length - left[c])
    BY <1>4, <2>1, <2>3, ReceivesMessage
  <2>5. down'[c] = Slice(0, Length - left[c]) /\ remain'[c] = Length
    BY <1>4, <2>4 DEF Number
  <2>6. got[c] = Slice(0, 0)
    BY <1>1, SliceEmpty
  <2>7. Reads(c, 0)'
    BY <1>1, <2>2, <2>5, <2>6 DEF Reads
  <2>8. Loads(c)'
    BY <1>1, <2>1, <2>2, <2>7 DEF Loads, Sends
  <2>9. QED
    BY <1>1, <1>4, <2>8 DEF Sound, Goto
<1>5. QED
  BY <1>2, <1>3, <1>4 DEF ReceiveSize, ReceiveNumber

LEMMA SoundData ==
    ASSUME Shape, NEW c \in Clients, Sound(c), ReceiveData(c), Closed(c) => Closed(c)'
    PROVE  Sound(c)'
<1> USE DEF Shape
<1>1. /\ pc[c] = "data" /\ pc'[c] = "data" /\ Loads(c) /\ result[c] # "registered"
      /\ UNCHANGED <<child, left, result>>
  BY DEF ReceiveData, Sound, Registered, server
<1>2. PICK b : /\ Receives(down[c], b) /\ down'[c] = After(down[c], b)
               /\ got'[c] = got[c] \o b /\ remain'[c] = remain[c] - Len(b)
  BY DEF ReceiveData
<1>3. Sends(c)
  BY <1>1, <1>2, NothingReceived DEF Loads
<1>4. PICK g \in 0..(Length - left[c]) : Reads(c, g)
  BY <1>1, <1>2, NothingReceived DEF Loads
<1>5. /\ left[c] \in 0..Length /\ Length - left[c] \in Nat /\ g \in Nat /\ Length \in Nat
      /\ g <= Length - left[c] /\ 0 <= g
  BY <1>3, <1>4, LengthType DEF Sends
<1>6. Receives(Slice(g, Length - left[c]), b)
  BY <1>2, <1>4 DEF Reads
<1>7. PICK k \in 1..((Length - left[c]) - g) :
          /\ b = Slice(g, g + k) /\ Len(b) = k
          /\ After(Slice(g, Length - left[c]), b) = Slice(g + k, Length - left[c])
  BY <1>5, <1>6, ReceivesSlice
<1>8. /\ g + k \in Nat /\ g <= g + k /\ g + k \in 0..(Length - left[c])
      /\ (Length - g) - k = Length - (g + k)
  BY <1>5, <1>7
<1>9. got'[c] = Slice(0, g + k)
  <2>1. Slice(0, g) \o Slice(g, g + k) = Slice(0, g + k)
    BY <1>5, <1>8, SliceConcat
  <2>2. QED
    BY <1>2, <1>4, <1>7, <2>1 DEF Reads
<1>10. remain'[c] = Length - (g + k) /\ down'[c] = Slice(g + k, Length - left[c])
  BY <1>2, <1>4, <1>7, <1>8 DEF Reads
<1>11. Reads(c, g + k)'
  BY <1>1, <1>9, <1>10 DEF Reads
<1>12. Loads(c)'
  BY <1>1, <1>3, <1>8, <1>11 DEF Loads, Sends
<1>13. QED
  BY <1>1, <1>12 DEF Sound

LEMMA SoundRegister ==
    ASSUME Shape, NEW c \in Clients, Sound(c), Register(c), Closed(c) => Closed(c)'
    PROVE  Sound(c)'
<1> USE DEF Shape
<1>1. /\ Loads(c) /\ pc'[c] = "done" /\ UNCHANGED got
      /\ remain[c] <= 0 \/ Closed(c)
  BY DEF Register, Sound, Done, Goto, AtEnd
<1>2. Registered(c)'
  <2>1. CASE Closed(c) /\ got[c] = << >>
    <3>1. got[c] = Slice(0, 0) /\ 0 \in 0..Length
      BY <2>1, SliceEmpty, LengthType
    <3>2. QED
      BY <1>1, <2>1, <3>1 DEF Registered
  <2>2. CASE Sends(c) /\ \E g \in 0..(Length - left[c]) : Reads(c, g)
    <3>1. PICK g \in 0..(Length - left[c]) : Reads(c, g)
      BY <2>2
    <3>2. g \in 0..Length /\ (Length - g <= 0 => g = Length)
      BY <2>2, LengthType DEF Sends
    <3>3. g = Length \/ Closed(c)
      BY <1>1, <3>1, <3>2 DEF Reads
    <3>4. QED
      BY <1>1, <3>1, <3>2, <3>3 DEF Registered, Reads
  <2>3. QED
    BY <1>1, <2>1, <2>2 DEF Loads
<1>3. QED
  BY <1>1, <1>2 DEF Sound

\* A client that expects addresses, or is killed, registers nothing.
LEMMA SoundElse ==
    ASSUME Shape, NEW c \in Clients, Sound(c),
           ReceiveCount(c) \/ ReceivePeer(c) \/ EndPeers(c) \/ ClientKilled(c)
    PROVE  Sound(c)'
<1> USE DEF Shape
<1>1. /\ pc[c] # "done"
      /\ pc'[c] \in {"count", "peers", "done"}
      /\ result'[c] \in {result[c], "failed", "peers", "killed"}
  <2>1. CASE ReceiveCount(c)
    BY <2>1 DEF ReceiveCount, ReceiveNumber, Goto, Done
  <2>2. CASE ReceivePeer(c)
    BY <2>2 DEF ReceivePeer, Goto, Done
  <2>3. CASE EndPeers(c) \/ ClientKilled(c)
    BY <2>3 DEF EndPeers, ClientKilled, Goto, Done
  <2>4. QED
    BY <2>1, <2>2, <2>3
<1>2. result[c] # "registered"
  BY <1>1 DEF Sound, Registered
<1>3. QED
  BY <1>1, <1>2 DEF Sound

LEMMA ClosedHasNoChild ==
    ASSUME Shape, Queued, NEW c \in Clients, Closed(c)
    PROVE  child[c] \in {"none", "gone"}
<1>1. CASE child[c] # "none"
  <2>1. PICK i \in DOMAIN accepted : accepted[i] = c
    BY <1>1 DEF Queued
  <2>2. \A k, l \in DOMAIN accepted :
          accepted[k] = c /\ k <= l => child[accepted[l]] \in {"none", "gone"}
    BY DEF Closed
  <2>3. i \in DOMAIN accepted /\ i <= i
    BY <2>1 DEF Shape
  <2>4. QED
    BY <2>1, <2>2, <2>3
<1>2. QED
  BY <1>1

\* The steps of its child.
LEMMA SoundChild ==
    ASSUME "short" \notin Faults, Shape, Queued, NEW c \in Clients, Sound(c), Child(c)
    PROVE  Sound(c)'
<1> USE DEF Shape
<1>1. /\ UNCHANGED <<parent, pc, asked, remain, got, result>>
      /\ child[c] \notin {"none", "gone"}
  <2>1. CASE ChildBegins(c)
    BY <2>1 DEF ChildBegins, ChildReceives, ChildLooksUp, ChildVerifies, ChildRemoves, client
  <2>2. CASE ChildHears(c) \/ ChildSends(c) \/ ChildEnds(c)
    BY <2>2 DEF ChildHears, ChildSends, ChildEnds, client
  <2>3. QED
    BY <2>1, <2>2 DEF Child, ChildBegins
<1>2. ~Closed(c)
  BY <1>1, ClosedHasNoChild
<1>3. result[c] = "registered" => pc[c] = "done" /\ UNCHANGED got
  BY <1>1 DEF Sound, Registered
<1>4. result[c] = "registered" => Registered(c)'
  <2>1. result[c] = "registered" => \E g \in 0..Length : got[c] = Slice(0, g) /\ g = Length
    BY <1>2 DEF Sound, Registered
  <2>2. QED
    BY <1>1, <1>3, <2>1 DEF Registered
<1>5. ASSUME pc[c] = "answer" => Waits(c)', pc[c] = "size" => Asks(c)',
             pc[c] = "data" => Loads(c)'
      PROVE  Sound(c)'
  BY <1>1, <1>4, <1>5 DEF Sound
<1>6. CASE ChildBegins(c)
  <2>1. child[c] \in {"cid", "get", "verify", "remove"}
    BY <1>6 DEF ChildBegins, ChildReceives, ChildLooksUp, ChildVerifies, ChildRemoves
  <2>2. pc[c] \notin {"idle", "size", "data"}
    BY <1>2, <2>1 DEF Sound, Asks, Loads, Sends
  <2>3. ASSUME pc[c] = "answer" PROVE Waits(c)'
    <3>1. CASE ChildReceives(c)
      <4>1. child[c] = "cid" /\ child'[c] = "get" /\ UNCHANGED down
        BY <3>1 DEF ChildReceives, ChildGoes
      <4>2. up[c] = Message(asked[c]) /\ down[c] = << >>
        BY <2>3, <4>1 DEF Sound, Waits
      <4>3. PICK b : Receives(up[c], b) /\ up'[c] = After(up[c], b)
        BY <3>1 DEF ChildReceives
      <4>4. up'[c] = << >>
        BY <4>2, <4>3, ReceivesOnly
      <4>5. QED
        BY <4>1, <4>2, <4>4 DEF Waits
    <3>2. CASE ChildLooksUp(c) \/ ChildVerifies(c) \/ ChildRemoves(c)
      <4>1. child[c] \in {"get", "verify", "remove"} /\ up' = up
        BY <3>2 DEF ChildLooksUp, ChildVerifies, ChildRemoves
      <4>2. up[c] = << >> /\ down[c] = << >>
        BY <2>3, <4>1 DEF Sound, Waits
      <4>3. \/ child'[c] \in {"verify", "remove", "gone"} /\ down'[c] = down[c]
            \/ child'[c] = "want" /\ down'[c] \in {down[c] \o Message("Y"), down[c] \o Message("N")}
        BY <3>2 DEF ChildLooksUp, ChildVerifies, ChildRemoves, ChildGoes, Answer
      <4>4. QED
        BY <4>1, <4>2, <4>3, FirstMessage DEF Waits
    <3>3. QED
      BY <1>6, <3>1, <3>2 DEF ChildBegins
  <2>4. QED
    BY <1>5, <2>2, <2>3
<1>7. CASE ChildHears(c)
  <2>1. child[c] = "want"
    BY <1>7 DEF ChildHears
  <2>2. PICK b : /\ Receives(up[c], b) /\ up'[c] = After(up[c], b)
                 /\ IF Text(b) \in {"BLOCK", "PEERS"}
                    THEN /\ child'[c] = Text(b)
                         /\ left'[c] = IF Text(b) = "BLOCK" THEN Length ELSE Cardinality(Peers)
                         /\ down'[c] = down[c] \o Message("number")
                    ELSE child'[c] = "gone" /\ UNCHANGED <<left, down>>
    BY <1>7 DEF ChildHears, ChildGoes
  <2>3. pc[c] \notin {"idle", "answer", "data"}
    BY <1>2, <2>1, <2>2, NothingReceived DEF Sound, Waits, Loads, Sends
  <2>4. ASSUME pc[c] = "size" PROVE Asks(c)'
    <3>1. up[c] = Message("BLOCK") /\ down[c] = << >>
      BY <2>1, <2>4 DEF Sound, Asks, Sends
    <3>2. Text(b) = "BLOCK"
      BY <2>2, <3>1, ReceivesOnly
    <3>3. child'[c] = "BLOCK" /\ left'[c] = Length /\ down'[c] = Message("number")
      BY <2>2, <3>1, <3>2, FirstMessage
    <3>4. Length \in 0..Length /\ Length - Length = 0
      BY LengthType
    <3>5. Message("number") \o Slice(0, 0) = Message("number")
      <4>1. Message("number") \in Seq([of : {"number"}, part : 1..3])
        BY DEF Message, SIZE
      <4>2. QED
        BY <4>1, SliceEmpty, ConcatEmptySeq
    <3>6. QED
      BY <3>3, <3>4, <3>5 DEF Asks, Sends
  <2>5. QED
    BY <1>5, <2>3, <2>4
<1>8. CASE ChildSends(c)
  <2>1. /\ child[c] \in {"BLOCK", "PEERS"} /\ left[c] > 0
        /\ left'[c] = left[c] - 1 /\ UNCHANGED child
        /\ child[c] = "BLOCK" => down'[c] = down[c] \o <<Block[Length - left[c] + 1]>>
    BY <1>8 DEF ChildSends
  <2>2. pc[c] \notin {"idle", "answer"}
    BY <2>1 DEF Sound, Waits
  <2>3. ASSUME pc[c] \in {"size", "data"}
        PROVE  /\ child[c] = "BLOCK" /\ Sends(c) /\ Sends(c)'
               /\ Length - left[c] \in Nat /\ Length - left'[c] = (Length - left[c]) + 1
               /\ <<Block[Length - left[c] + 1]>> = Slice(Length - left[c], Length - left'[c])
    <3>1. child[c] = "BLOCK" /\ Sends(c)
      BY <1>2, <2>1, <2>3 DEF Sound, Asks, Loads, Sends
    <3>2. /\ left[c] \in 0..Length /\ left'[c] \in 0..Length /\ Length - left[c] \in Nat
          /\ Length - left'[c] = (Length - left[c]) + 1
          /\ (Length - left[c]) + 1 \in 1..Length
      BY <2>1, <3>1, LengthType DEF Sends
    <3>3. Block[(Length - left[c]) + 1] = [of |-> "data", part |-> (Length - left[c]) + 1]
      BY <3>2 DEF Block
    <3>4. QED
      BY <2>1, <3>1, <3>2, <3>3, SliceOne DEF Sends
  <2>4. ASSUME pc[c] = "size" PROVE Asks(c)'
    <3> DEFINE n == Length - left[c]
               s == Slice(0, n)
               t == Slice(n, n + 1)
               m == Message("number")
    <3>1. down[c] = m \o s
      BY <2>1, <2>3, <2>4 DEF Sound, Asks
    <3>2. n \in Nat /\ 0 <= n /\ n <= n + 1 /\ n + 1 \in Nat
      BY <2>3, <2>4
    <3>3. s \in Seq(Data) /\ t \in Seq(Data) /\ s \o t = Slice(0, n + 1)
      BY <3>2, SliceType, SliceConcat
    <3>4. down'[c] = (m \o s) \o t
      BY <2>1, <2>3, <2>4, <3>1
    <3> DEFINE S == Data \cup [of : {"number"}, part : 1..3]
    <3>5. m \in Seq(S) /\ s \in Seq(S) /\ t \in Seq(S)
      <4>1. m \in Seq([of : {"number"}, part : 1..3])
        BY DEF Message, SIZE
      <4>2. s \in Seq(Data) /\ t \in Seq(Data) /\ Data \subseteq S
            /\ [of : {"number"}, part : 1..3] \subseteq S
        BY <3>3
      <4> HIDE DEF m, s, t, S
      <4>3. m \in Seq(S)
        BY <4>1, <4>2, SeqMonotonic
      <4>4. s \in Seq(S)
        BY <4>2, SeqMonotonic
      <4>5. t \in Seq(S)
        BY <4>2, SeqMonotonic
      <4>6. QED
        BY <4>3, <4>4, <4>5
    <3> HIDE DEF m, s, t, S
    <3>6. \A x, y, z \in Seq(S) : (x \o y) \o z = x \o (y \o z)
      BY ConcatAssociative
    <3>7. (m \o s) \o t = m \o (s \o t)
      BY <3>5, <3>6, Zenon
    <3>8. down'[c] = Message("number") \o Slice(0, n + 1)
      BY <3>3, <3>4, <3>7 DEF m
    <3>9. QED
      BY <2>3, <2>4, <3>8 DEF Asks
  <2>5. ASSUME pc[c] = "data" PROVE Loads(c)'
    <3> DEFINE n == Length - left[c]
    <3>1. PICK g \in 0..n : Reads(c, g)
      BY <1>2, <2>5 DEF Sound, Loads
    <3>2. n \in Nat /\ g \in Nat /\ g <= n /\ n <= n + 1 /\ n + 1 \in Nat /\ g \in 0..(n + 1)
      BY <2>3, <2>5, <3>1
    <3>3. down'[c] = Slice(g, n) \o Slice(n, n + 1)
      BY <2>1, <2>3, <2>5, <3>1 DEF Reads
    <3>4. down'[c] = Slice(g, n + 1)
      BY <3>2, <3>3, SliceConcat
    <3>5. Reads(c, g)'
      BY <1>1, <2>3, <2>5, <3>1, <3>4 DEF Reads
    <3>6. QED
      BY <2>3, <2>5, <3>2, <3>5 DEF Loads
  <2>6. QED
    BY <1>5, <2>2, <2>4, <2>5
<1>9. CASE ChildEnds(c)
  <2>1. /\ child'[c] = "gone" /\ UNCHANGED <<left, up, down>>
        /\ child[c] \in {"BLOCK", "PEERS"} \/ pc[c] = "done"
    BY <1>9 DEF ChildEnds, ChildGoes
  <2>2. pc[c] \notin {"idle", "answer"}
    BY <1>1, <2>1 DEF Sound, Waits
  <2>3. pc[c] = "size" => Asks(c)'
    BY <2>1 DEF Sound, Asks, Sends
  <2>4. pc[c] = "data" => Loads(c)'
    BY <1>1, <1>2, <2>1 DEF Sound, Loads, Sends, Reads
  <2>5. QED
    BY <1>5, <2>2, <2>3, <2>4
<1>10. QED
  BY <1>6, <1>7, <1>8, <1>9 DEF Child, ChildBegins

\* The steps of the parent.
LEMMA SoundAccept ==
    ASSUME Shape, Queued, Accept, NEW c \in Clients, Sound(c), Closed(c) => Closed(c)'
    PROVE  Sound(c)'
<1> USE DEF Shape
<1>1. /\ UNCHANGED <<up, down, left, pc, asked, remain, got, result>>
      /\ parent = "listening" /\ backlog # << >>
  BY DEF Accept, client
<1>2. CASE child'[c] = child[c]
  BY <1>1, <1>2, SoundKept
<1>3. CASE child'[c] # child[c]
  <2>1. c = Head(backlog) /\ child'[c] = "cid"
    BY <1>3 DEF Accept
  <2>2. child[c] = "none" /\ pc[c] # "idle"
    <3>1. 1 \in DOMAIN backlog /\ backlog[1] = c
      BY <1>1, <2>1
    <3>2. QED
      BY <3>1 DEF Queued
  <2>3. ~Closed(c)
    BY <1>1 DEF Closed
  <2>4. pc[c] \notin {"size", "data"}
    BY <2>2, <2>3 DEF Sound, Asks, Loads, Sends
  <2>5. pc[c] = "answer" => Waits(c)'
    BY <1>1, <2>1, <2>2 DEF Sound, Waits
  <2>6. result[c] = "registered" => Registered(c)'
    BY <1>1, <2>3 DEF Sound, Registered
  <2>7. QED
    BY <1>1, <2>2, <2>4, <2>5, <2>6 DEF Sound
<1>4. QED
  BY <1>2, <1>3

LEMMA SoundCrash ==
    ASSUME Shape, ServerCrashes, NEW c \in Clients, Sound(c), Closed(c) => Closed(c)'
    PROVE  Sound(c)'
<1> USE DEF Shape
<1>1. /\ UNCHANGED <<up, down, left, pc, asked, remain, got, result>>
      /\ child'[c] = IF child[c] = "none" THEN "none" ELSE "gone"
  BY DEF ServerCrashes, client
<1>2. pc[c] = "answer" => Waits(c)'
  BY <1>1 DEF Sound, Waits
<1>3. pc[c] = "size" => Asks(c)'
  BY <1>1 DEF Sound, Asks, Sends
<1>4. pc[c] = "data" => Loads(c)'
  BY <1>1 DEF Sound, Loads, Sends, Reads
<1>5. result[c] = "registered" => Registered(c)'
  BY <1>1 DEF Sound, Registered
<1>6. QED
  BY <1>1, <1>2, <1>3, <1>4, <1>5 DEF Sound
-----------------------------------------------------------------------------
(* The other two parts of the invariant.                                   *)

LEMMA ShapeKept ==
    ASSUME Shape, [Next]_vars
    PROVE  Shape'
<1> USE DEF Shape
<1>1. ASSUME NEW c \in Clients, Connect(c) PROVE Shape'
  <2>1. backlog' \in Seq(Clients)
    <3>1. backlog' \in {backlog, Append(backlog, c)}
      BY <1>1 DEF Connect
    <3>2. Append(backlog, c) \in Seq(Clients)
      BY <1>1
    <3>3. QED
      BY <3>1, <3>2
  <2>2. /\ UNCHANGED <<accepted, child, down, left, asked, remain, got>>
        /\ DOMAIN pc' = Clients /\ DOMAIN up' = Clients /\ DOMAIN result' = Clients
    BY <1>1 DEF Connect, Goto, Done
  <2>3. QED
    BY <2>1, <2>2
<1>2. ASSUME NEW c \in Clients, ReceiveAnswer(c) PROVE Shape'
  <2>1. /\ UNCHANGED <<backlog, accepted, child, left, asked, remain, got>>
        /\ DOMAIN pc' = Clients /\ DOMAIN up' = Clients
        /\ DOMAIN down' = Clients /\ DOMAIN result' = Clients
    BY <1>2 DEF ReceiveAnswer, AtEnd, Reset, Goto, Done, server
  <2>2. QED
    BY <2>1
<1>3. ASSUME NEW c \in Clients, ReceiveSize(c) \/ ReceiveCount(c) PROVE Shape'
  BY <1>3 DEF ReceiveSize, ReceiveCount, ReceiveNumber, AtEnd, Reset, Goto, Done, server
<1>4. ASSUME NEW c \in Clients, ReceiveData(c) \/ Register(c) PROVE Shape'
  BY <1>4 DEF ReceiveData, Register, AtEnd, Goto, Done, server
<1>5. ASSUME NEW c \in Clients, ReceivePeer(c) \/ EndPeers(c) \/ ClientKilled(c) PROVE Shape'
  BY <1>5 DEF ReceivePeer, EndPeers, ClientKilled, AtEnd, Reset, Goto, Done, server
<1>6. ASSUME NEW c \in Clients, ChildBegins(c) PROVE Shape'
  BY <1>6 DEF ChildBegins, ChildReceives, ChildLooksUp, ChildVerifies, ChildRemoves,
              ChildGoes, Answer, client
<1>7. ASSUME NEW c \in Clients, ChildHears(c) PROVE Shape'
  BY <1>7 DEF ChildHears, ChildGoes, client
<1>8. ASSUME NEW c \in Clients, ChildSends(c) \/ ChildEnds(c) PROVE Shape'
  BY <1>8 DEF ChildSends, ChildEnds, ChildGoes, client
<1>9. CASE Accept
  <2>1. Head(backlog) \in Clients /\ Tail(backlog) \in Seq(Clients)
    BY <1>9 DEF Accept
  <2>2. backlog' \in Seq(Clients)
    <3>1. backlog' \in {backlog, Tail(backlog)}
      BY <1>9 DEF Accept
    <3>2. QED
      BY <2>1, <3>1
  <2>3. accepted' \in Seq(Clients)
    <3>1. accepted' \in {accepted, Append(accepted, Head(backlog))}
      BY <1>9 DEF Accept
    <3>2. \A d \in Clients : Append(accepted, d) \in Seq(Clients)
      OBVIOUS
    <3>3. QED
      BY <2>1, <3>1, <3>2
  <2>4. child' \in [Clients -> {"none", "cid", "get", "verify", "remove", "want",
                                "BLOCK", "PEERS", "gone"}]
    BY <1>9, <2>1 DEF Accept
  <2>5. UNCHANGED <<up, down, left, pc, asked, remain, got, result>>
    BY <1>9 DEF Accept, client
  <2>6. QED
    BY <2>2, <2>3, <2>4, <2>5
<1>10. CASE ServerCrashes
  BY <1>10 DEF ServerCrashes, client
<1>11. CASE Finished \/ UNCHANGED vars
  BY <1>11 DEF Finished, vars
<1>12. QED
  BY <1>1, <1>2, <1>3, <1>4, <1>5, <1>6, <1>7, <1>8, <1>9, <1>10, <1>11
     DEF Next, Client, Child, ChildBegins

\* A step that accepts nobody and in which nobody connects.
LEMMA QueuedSame ==
    ASSUME Queued, Shape, UNCHANGED <<backlog, accepted>>,
           \A d \in Clients : /\ child'[d] = "none" <=> child[d] = "none"
                              /\ pc'[d] = "idle" => pc[d] = "idle"
    PROVE  Queued'
<1>1. \A i \in DOMAIN backlog : backlog[i] \in Clients
  BY DEF Shape
<1>2. QED
  BY <1>1 DEF Queued

LEMMA QueuedConnect ==
    ASSUME Queued, Shape, NEW c \in Clients, Connect(c), child[c] = "none"
    PROVE  Queued'
<1> USE DEF Shape
<1>1. pc[c] = "idle" /\ child[c] = "none" /\ UNCHANGED <<accepted, child>>
  BY DEF Connect
<1>2. pc'[c] # "idle" /\ \A d \in Clients \ {c} : pc'[d] = pc[d]
  BY DEF Connect, Goto, Done
<1>3. CASE backlog' = backlog
  <2>1. \A d \in Clients : /\ child'[d] = "none" <=> child[d] = "none"
                           /\ pc'[d] = "idle" => pc[d] = "idle"
    BY <1>1, <1>2
  <2>2. QED
    BY <1>1, <1>3, <2>1, QueuedSame
<1>4. CASE backlog' = Append(backlog, c)
  <2>1. \A i \in DOMAIN backlog : backlog[i] \in Clients /\ backlog[i] # c
    BY <1>1 DEF Queued
  <2>2. /\ DOMAIN backlog = 1..Len(backlog) /\ Len(backlog) \in Nat
        /\ DOMAIN backlog' = 1..(Len(backlog) + 1)
        /\ backlog'[Len(backlog) + 1] = c
        /\ \A i \in DOMAIN backlog : backlog'[i] = backlog[i]
    BY <1>4
  <2>3. \A i \in DOMAIN backlog' : i \in DOMAIN backlog \/ i = Len(backlog) + 1
    BY <2>2
  <2>4. \A i \in DOMAIN backlog' : child'[backlog'[i]] = "none" /\ pc'[backlog'[i]] # "idle"
    <3> SUFFICES ASSUME NEW i \in DOMAIN backlog'
                 PROVE  child'[backlog'[i]] = "none" /\ pc'[backlog'[i]] # "idle"
      OBVIOUS
    <3>1. CASE i \in DOMAIN backlog
      BY <1>1, <1>2, <2>1, <2>2, <3>1 DEF Queued
    <3>2. CASE i = Len(backlog) + 1
      BY <1>1, <1>2, <2>2, <3>2
    <3>3. QED
      BY <2>3, <3>1, <3>2
  <2>5. \A i, j \in DOMAIN backlog' : backlog'[i] = backlog'[j] => i = j
    BY <2>1, <2>2, <2>3 DEF Queued
  <2>6. QED
    BY <1>1, <2>4, <2>5 DEF Queued
<1>5. QED
  BY <1>3, <1>4 DEF Connect

LEMMA QueuedAccept ==
    ASSUME Queued, Shape, Accept
    PROVE  Queued'
<1> USE DEF Shape
<1>1. CASE UNCHANGED <<backlog, accepted, child>>
  BY <1>1, QueuedSame DEF Accept, client
<1>2. CASE /\ backlog' = Tail(backlog) /\ accepted' = Append(accepted, Head(backlog))
           /\ child' \in {child, [child EXCEPT ![Head(backlog)] = "cid"]}
  <2>1. backlog # << >> /\ pc' = pc
    BY DEF Accept, client
  <2>2. /\ DOMAIN backlog = 1..Len(backlog) /\ Len(backlog) \in Nat /\ 1 \in DOMAIN backlog
        /\ Head(backlog) = backlog[1] /\ Head(backlog) \in Clients
        /\ DOMAIN backlog' = 1..(Len(backlog) - 1)
        /\ \A i \in DOMAIN backlog' : backlog'[i] = backlog[i + 1]
        /\ \A i \in DOMAIN backlog' : i + 1 \in DOMAIN backlog /\ i + 1 # 1
    BY <1>2, <2>1
  <2>3. \A i \in DOMAIN backlog' : child'[backlog'[i]] = "none" /\ pc'[backlog'[i]] # "idle"
    <3> SUFFICES ASSUME NEW i \in DOMAIN backlog'
                 PROVE  child'[backlog'[i]] = "none" /\ pc'[backlog'[i]] # "idle"
      OBVIOUS
    <3>1. i + 1 \in DOMAIN backlog /\ i + 1 # 1 /\ backlog'[i] = backlog[i + 1]
      BY <2>2
    <3>2. backlog[i + 1] # Head(backlog)
      BY <2>2, <3>1 DEF Queued
    <3>3. child'[backlog[i + 1]] = child[backlog[i + 1]]
      BY <1>2, <3>1, <3>2
    <3>4. QED
      BY <2>1, <3>1, <3>3 DEF Queued
  <2>4. \A i, j \in DOMAIN backlog' : backlog'[i] = backlog'[j] => i = j
    <3> SUFFICES ASSUME NEW i \in DOMAIN backlog', NEW j \in DOMAIN backlog',
                        backlog'[i] = backlog'[j]
                 PROVE  i = j
      OBVIOUS
    <3>1. i + 1 = j + 1
      BY <2>2 DEF Queued
    <3>2. QED
      BY <2>2, <3>1
  <2>5. /\ DOMAIN accepted = 1..Len(accepted) /\ Len(accepted) \in Nat
        /\ DOMAIN accepted' = 1..(Len(accepted) + 1)
        /\ accepted'[Len(accepted) + 1] = Head(backlog)
        /\ \A i \in DOMAIN accepted : accepted'[i] = accepted[i]
    BY <1>2, <2>2
  <2>6. ASSUME NEW c \in Clients, child'[c] # "none"
        PROVE  \E i \in DOMAIN accepted' : accepted'[i] = c
    <3>1. CASE c = Head(backlog)
      <4>1. Len(accepted) + 1 \in DOMAIN accepted'
        BY <2>5
      <4>2. accepted'[Len(accepted) + 1] = c
        BY <2>5, <3>1
      <4>3. QED
        BY <4>1, <4>2
    <3>2. CASE c # Head(backlog)
      <4>1. child[c] # "none"
        BY <1>2, <2>6, <3>2
      <4>2. PICK i \in DOMAIN accepted : accepted[i] = c
        BY <4>1 DEF Queued
      <4>3. i \in DOMAIN accepted' /\ accepted'[i] = c
        BY <2>5, <4>2
      <4>4. QED
        BY <4>3
    <3>3. QED
      BY <3>1, <3>2
  <2>7. QED
    BY <2>3, <2>4, <2>6 DEF Queued
<1>3. QED
  BY <1>1, <1>2 DEF Accept

LEMMA QueuedKept ==
    ASSUME Shape, Queued, [Next]_vars, \A c \in Clients : pc[c] = "idle" => child[c] = "none"
    PROVE  Queued'
<1> USE DEF Shape
<1>1. Shape /\ Queued
  OBVIOUS
<1>2. ASSUME NEW c \in Clients, Client(c) \/ ClientKilled(c), ~Connect(c)
      PROVE  Queued'
  <2>1. UNCHANGED <<backlog, accepted, child>>
    BY <1>2 DEF Client, ReceiveAnswer, ReceiveSize, ReceiveCount, ReceiveNumber, ReceiveData,
                Register, ReceivePeer, EndPeers, ClientKilled, server
  <2>2. \A d \in Clients : pc'[d] = "idle" => pc[d] = "idle"
    <3>1. CASE ReceiveAnswer(c)
      BY <1>1, <3>1 DEF ReceiveAnswer, Goto, Done
    <3>2. CASE ReceiveSize(c) \/ ReceiveCount(c)
      BY <1>1, <3>2 DEF ReceiveSize, ReceiveCount, ReceiveNumber, Goto, Done
    <3>3. CASE ReceiveData(c) \/ Register(c)
      BY <1>1, <3>3 DEF ReceiveData, Register, Goto, Done
    <3>4. CASE ReceivePeer(c) \/ EndPeers(c) \/ ClientKilled(c)
      BY <1>1, <3>4 DEF ReceivePeer, EndPeers, ClientKilled, Goto, Done
    <3>5. QED
      BY <1>2, <3>1, <3>2, <3>3, <3>4 DEF Client
  <2>3. QED
    BY <1>1, <2>1, <2>2, QueuedSame
<1>3. ASSUME NEW c \in Clients, Child(c)
      PROVE  Queued'
  <2>1. UNCHANGED <<backlog, accepted, pc>>
    BY <1>3 DEF Child, ChildReceives, ChildLooksUp, ChildVerifies, ChildRemoves, ChildHears,
                ChildSends, ChildEnds, client
  <2>2. \A d \in Clients : child'[d] = "none" <=> child[d] = "none"
    <3>1. CASE ChildBegins(c)
      BY <1>1, <3>1 DEF ChildBegins, ChildReceives, ChildLooksUp, ChildVerifies, ChildRemoves,
                        ChildGoes, Answer
    <3>2. CASE ChildHears(c)
      BY <1>1, <3>2 DEF ChildHears, ChildGoes
    <3>3. CASE ChildSends(c) \/ ChildEnds(c)
      BY <1>1, <3>3 DEF ChildSends, ChildEnds, ChildGoes
    <3>4. QED
      BY <1>3, <3>1, <3>2, <3>3 DEF Child, ChildBegins
  <2>3. QED
    BY <1>1, <2>1, <2>2, QueuedSame
<1>4. CASE ServerCrashes
  <2>1. UNCHANGED <<backlog, accepted, pc>> /\ \A d \in Clients : child'[d] = "none" <=> child[d] = "none"
    BY <1>1, <1>4 DEF ServerCrashes, client
  <2>2. QED
    BY <1>1, <2>1, QueuedSame
<1>5. CASE Finished \/ UNCHANGED vars
  BY <1>1, <1>5, QueuedSame DEF Finished, vars
<1>6. ASSUME NEW c \in Clients, Connect(c)
      PROVE  Queued'
  <2>1. child[c] = "none"
    BY <1>6 DEF Connect
  <2>2. QED
    BY <1>1, <1>6, <2>1, QueuedConnect
<1>7. QED
  BY <1>1, <1>2, <1>3, <1>4, <1>5, <1>6, QueuedAccept DEF Next
-----------------------------------------------------------------------------
LEMMA WholeInit == Init => Whole
<1> SUFFICES ASSUME Init PROVE Whole
  OBVIOUS
<1>1. Shape
  <2>1. /\ backlog = << >> /\ accepted = << >>
        /\ \A c \in Clients : child[c] = "none"
        /\ child \in [Clients -> {"none"}] /\ asked \in [Clients -> Cids]
    BY DEF Init
  <2>2. /\ DOMAIN up = Clients /\ DOMAIN down = Clients /\ DOMAIN left = Clients
        /\ DOMAIN pc = Clients /\ DOMAIN remain = Clients /\ DOMAIN got = Clients
        /\ DOMAIN result = Clients
    BY DEF Init
  <2>3. << >> \in Seq(Clients)
    BY EmptySeq
  <2>4. QED
    BY <2>1, <2>2, <2>3 DEF Shape
<1>2. Queued
  <2>1. backlog = << >> /\ \A c \in Clients : child[c] = "none"
    BY DEF Init
  <2>2. QED
    BY <2>1 DEF Queued
<1>3. \A c \in Clients : Sound(c)
  BY DEF Init, Sound
<1>4. QED
  BY <1>1, <1>2, <1>3 DEF Whole

LEMMA WholeStep ==
    ASSUME "short" \notin Faults, Whole, [Next]_vars
    PROVE  Whole'
<1>1. Shape /\ Queued /\ \A c \in Clients : Sound(c)
  BY DEF Whole
<1>2. \A c \in Clients : Closed(c) => Closed(c)'
  BY <1>1, ClosedStays
<1>3. ASSUME NEW c \in Clients PROVE Sound(c)'
  <2>1. ASSUME NEW d \in Clients, Client(d) \/ Child(d) \/ ClientKilled(d)
        PROVE  Sound(c)'
    <3>1. CASE d # c
      BY <1>1, <1>2, <1>3, <2>1, <3>1, SoundOthers
    <3>2. CASE d = c /\ Client(c)
      BY <1>1, <1>2, <1>3, <3>2, SoundConnect, SoundAnswer, SoundSize, SoundData,
         SoundRegister, SoundElse DEF Client
    <3>3. CASE d = c /\ Child(c)
      BY <1>1, <1>3, <3>3, SoundChild
    <3>4. CASE d = c /\ ClientKilled(c)
      BY <1>1, <1>3, <3>4, SoundElse
    <3>5. QED
      BY <2>1, <3>1, <3>2, <3>3, <3>4
  <2>2. CASE Accept
    BY <1>1, <1>2, <1>3, <2>2, SoundAccept
  <2>3. CASE ServerCrashes
    BY <1>1, <1>2, <1>3, <2>3, SoundCrash
  <2>4. CASE Finished \/ UNCHANGED vars
    <3>1. UNCHANGED vars
      BY <2>4 DEF Finished
    <3>2. QED
      BY <1>1, <1>2, <1>3, <3>1, SoundKept DEF vars
  <2>5. QED
    BY <2>1, <2>2, <2>3, <2>4 DEF Next
<1>4. Shape'
  BY <1>1, ShapeKept
<1>5. Queued'
  BY <1>1, QueuedKept DEF Sound
<1>6. QED
  BY <1>3, <1>4, <1>5 DEF Whole

LEMMA WholeEnough == Whole => FileReceived
<1> SUFFICES ASSUME Whole, NEW c \in Clients, result[c] = "registered"
             PROVE  /\ got[c] = SubSeq(Block, 1, Len(got[c]))
                    /\ Len(got[c]) = Length \/ Closed(c)
  BY DEF FileReceived
<1>1. PICK g \in 0..Length : got[c] = Slice(0, g) /\ (g = Length \/ Closed(c))
  BY DEF Whole, Sound, Registered
<1>2. g \in Nat /\ Length \in Nat /\ g <= Length /\ g \in 0..(Length - 0) /\ 0 + g = g /\ g - 0 = g
  BY LengthType
<1>3. Len(Slice(0, g)) = g
  BY <1>2, SliceType
<1>4. SubSeq(Slice(0, Length), 1, g) = Slice(0, g)
  BY <1>2, SlicePrefix
<1>5. QED
  BY <1>1, <1>3, <1>4, BlockIsSlice

\* What write_file registers (network.c:26-46) is the block, or a beginning
\* of it if the server went away: whatever the parent and its children, the
\* other clients and crashes do, the size and the contents are read at the
\* right places of the stream, provided that no recv is short.
THEOREM FileReceivedHolds ==
    ASSUME "short" \notin Faults
    PROVE  Spec => []FileReceived
<1>1. Init => Whole
  BY WholeInit
<1>2. Whole /\ [Next]_vars => Whole'
  BY WholeStep
<1>3. Whole => FileReceived
  BY WholeEnough
<1>4. QED
  BY <1>1, <1>2, <1>3, PTL DEF Spec
-----------------------------------------------------------------------------
(* Lemmas about streams of any units.                                      *)

LEMMA PeersCount == Cardinality(Peers) \in Nat
BY ExchangeAssumption, FS_CardinalityType

LEMMA ListedType ==
    /\ Listed \in [1..Cardinality(Peers) -> Peers]
    /\ {Listed[i] : i \in 1..Cardinality(Peers)} = Peers
<1> DEFINE n == Cardinality(Peers)
           P(s) == {s[i] : i \in DOMAIN s} = Peers
<1>1. ExistsBijection(1..n, Peers)
  BY ExchangeAssumption, FS_CardinalityType
<1>2. PICK f \in [1..n -> Peers] : \A y \in Peers : \E x \in 1..n : f[x] = y
  BY <1>1 DEF ExistsBijection, Bijection, Surjection
<1>3. P(f)
  BY <1>2
<1>4. \E s \in [1..n -> Peers] : P(s)
  BY <1>3
<1>5. Listed \in [1..n -> Peers] /\ P(Listed)
  BY <1>4 DEF Listed
<1>6. QED
  BY <1>5

LEMMA UnitsOf == \A m \in Texts : Message(m) \in Seq(Units)
<1> SUFFICES ASSUME NEW m \in Texts PROVE Message(m) \in Seq(Units)
  OBVIOUS
<1>1. Message(m) = [i \in 1..3 |-> [of |-> m, part |-> i]]
  BY DEF Message, SIZE
<1>2. \A i \in 1..3 : [of |-> m, part |-> i] \in Units
  BY DEF Units, SIZE
<1>3. QED
  BY <1>1, <1>2

LEMMA MessageParts ==
    ASSUME NEW m
    PROVE  /\ Len(Message(m)) = 3 /\ DOMAIN Message(m) = 1..3 /\ Message(m) # << >>
           /\ \A i \in 1..3 : Message(m)[i].of = m /\ Message(m)[i].part = i
<1>1. Message(m) = [i \in 1..3 |-> [of |-> m, part |-> i]]
  BY DEF Message, SIZE
<1>2. Message(m) \in Seq([of : {m}, part : 1..3]) /\ Len(Message(m)) = 3
  BY <1>1
<1>3. Message(m) # << >>
  BY <1>2, EmptySeq
<1>4. QED
  BY <1>1, <1>2, <1>3

LEMMA Joined ==
    ASSUME NEW S, NEW s \in Seq(S), NEW t \in Seq(S)
    PROVE  /\ s \o t \in Seq(S) /\ Len(s \o t) = Len(s) + Len(t)
           /\ DOMAIN (s \o t) = 1..(Len(s) + Len(t))
           /\ \A i \in DOMAIN s : (s \o t)[i] = s[i]
           /\ \A i \in DOMAIN (s \o t) :
                \/ i \in DOMAIN s /\ (s \o t)[i] = s[i]
                \/ i - Len(s) \in DOMAIN t /\ i > Len(s) /\ (s \o t)[i] = t[i - Len(s)]
<1>1. /\ s \o t \in Seq(S) /\ Len(s \o t) = Len(s) + Len(t)
      /\ \A i \in 1..Len(s) + Len(t) :
           (s \o t)[i] = IF i <= Len(s) THEN s[i] ELSE t[i - Len(s)]
  BY ConcatProperties
<1>2. /\ Len(s) \in Nat /\ Len(t) \in Nat /\ DOMAIN s = 1..Len(s) /\ DOMAIN t = 1..Len(t)
      /\ DOMAIN (s \o t) = 1..(Len(s) + Len(t))
  BY <1>1
<1>3. \A i \in DOMAIN (s \o t) :
        IF i <= Len(s) THEN i \in DOMAIN s ELSE i - Len(s) \in DOMAIN t /\ i > Len(s)
  BY <1>2
<1>4. QED
  BY <1>1, <1>2, <1>3

\* What recv takes from a stream, and what it leaves.
LEMMA Cut ==
    ASSUME NEW S, NEW s \in Seq(S), NEW b \in Prefixes(s)
    PROVE  /\ b \in Seq(S) /\ Len(b) \in 1..Len(s) /\ b # << >>
           /\ \A i \in DOMAIN b : i \in DOMAIN s /\ b[i] = s[i]
           /\ After(s, b) \in Seq(S) /\ Len(After(s, b)) = Len(s) - Len(b)
           /\ \A i \in DOMAIN After(s, b) :
                /\ i + Len(b) \in DOMAIN s
                /\ After(s, b)[i] = s[i + Len(b)]
<1>1. PICK k \in 1..Len(s) : b = SubSeq(s, 1, k)
  BY DEF Prefixes
<1>2. Len(s) \in Nat /\ DOMAIN s = 1..Len(s) /\ \A i \in 1..Len(s) : s[i] \in S
  OBVIOUS
<1>3. b \in Seq(S) /\ Len(b) = k /\ \A i \in 1..k : b[i] = s[i]
  <2>1. k \in Int /\ \A i \in 1..k : s[i] \in S
    BY <1>2
  <2>2. /\ SubSeq(s, 1, k) \in Seq(S)
        /\ Len(SubSeq(s, 1, k)) = IF 1 <= k THEN k - 1 + 1 ELSE 0
        /\ \A i \in 1..k - 1 + 1 : SubSeq(s, 1, k)[i] = s[1 + i - 1]
    BY <2>1, SubSeqProperties
  <2>3. QED
    BY <1>1, <2>2
<1>4. b # << >>
  BY <1>3, EmptySeq
<1> DEFINE r == SubSeq(s, k + 1, Len(s))
<1>5. r \in Seq(S) /\ Len(r) = Len(s) - k /\ \A i \in 1..(Len(s) - k) : r[i] = s[i + k]
  <2> DEFINE a == k + 1
             n == Len(s)
  <2>1. a \in Int /\ n \in Int /\ \A i \in a..n : s[i] \in S
    BY <1>2
  <2> HIDE DEF a, n
  <2>2. /\ SubSeq(s, a, n) \in Seq(S)
        /\ Len(SubSeq(s, a, n)) = IF a <= n THEN n - a + 1 ELSE 0
        /\ \A i \in 1..n - a + 1 : SubSeq(s, a, n)[i] = s[a + i - 1]
    BY <2>1, SubSeqProperties
  <2>3. n - a + 1 = Len(s) - k /\ (a <= n <=> 1 <= Len(s) - k) /\ Len(s) - k >= 0
    BY <1>2 DEF a, n
  <2>4. \A i \in 1..(Len(s) - k) : a + i - 1 = i + k
    BY DEF a
  <2>5. SubSeq(s, a, n) \in Seq(S) /\ Len(SubSeq(s, a, n)) = Len(s) - k
    BY <2>1, <2>2, <2>3
  <2>6. \A i \in 1..(Len(s) - k) : SubSeq(s, a, n)[i] = s[i + k]
    BY <2>2, <2>3, <2>4
  <2>7. QED
    BY <2>5, <2>6 DEF a, n
<1>6. After(s, b) = r
  BY <1>3 DEF After
<1> HIDE DEF r
<1>7. /\ DOMAIN b = 1..k /\ \A i \in 1..k : i \in DOMAIN s
      /\ DOMAIN r = 1..(Len(s) - k) /\ \A i \in 1..(Len(s) - k) : i + k \in DOMAIN s
  BY <1>2, <1>3, <1>5
<1>8. QED
  BY <1>3, <1>4, <1>5, <1>6, <1>7

LEMMA TextFrom ==
    ASSUME NEW b, b # << >>
    PROVE  /\ Text(b) \in {"", "garbled", b[1].of}
           /\ Text(b) \notin {"", "garbled"} => b[1].part = 1 /\ Text(b) = b[1].of
           /\ Text(b) # "" => ~Zeros(b[1])
BY DEF Text

LEMMA NumberType == \A t, n : n \in Nat => Number(t, n) \subseteq Int
<1> SUFFICES ASSUME NEW t, NEW n \in Nat PROVE Number(t, n) \subseteq Int
  OBVIOUS
<1>1. CASE t = "number"
  BY <1>1 DEF Number
<1>2. CASE t = "garbled"
  BY <1>2 DEF Number
<1>3. CASE t # "number" /\ t # "garbled"
  BY <1>3 DEF Number
<1>4. QED
  BY <1>1, <1>2, <1>3

LEMMA FaultsType ==
    ASSUME faults \in 0..MaxFaults
    PROVE  /\ \A s, b : Receives(s, b) => faults' \in 0..MaxFaults
           /\ \A f : Fault(f) => faults' \in 0..MaxFaults
<1>1. MaxFaults \in Nat
  BY ExchangeAssumption
<1>2. faults < MaxFaults /\ faults' = faults + 1 => faults' \in 0..MaxFaults
  BY <1>1
<1>3. QED
  BY <1>2 DEF Receives, Fault
-----------------------------------------------------------------------------
(* What is on its way, whatever goes wrong: recv may be short, and what the *)
(* client makes of a message need not be what was sent.                    *)

\* The beginning of a message that is not an address.
Opens(u) == u.part = 1 /\ u.of \notin Peers

\* Until it has read the answer, nothing else was sent to the client.
Expects(c) ==
    /\ child[c] \in {"none", "cid", "get", "verify", "remove", "want", "gone"}
    /\ \A i \in DOMAIN up[c] : up[c][i].of \in Cids
    /\ child[c] \in {"none", "cid", "get", "verify", "remove"} => down[c] = << >>
    /\ down[c] \in {<< >>, Message("Y"), Message("N")}

\* The rest of the answer is zeros, and the number comes before addresses.
Counts(c) ==
    /\ child[c] \in {"none", "want", "PEERS", "gone"}
    /\ child[c] = "none" => parent = "gone"
    /\ \A i \in DOMAIN up[c] : up[c][i].of # "BLOCK"
    /\ child[c] \in {"none", "want"} => \A i \in DOMAIN down[c] : Zeros(down[c][i])
    /\ \A i \in DOMAIN down[c] :
         Opens(down[c][i]) => \A j \in 1..(i - 1) : Zeros(down[c][j])
    /\ remain[c] = 0

Stores(c) ==
    /\ child[c] \in {"PEERS", "gone"}
    /\ \A i \in DOMAIN down[c] : ~Opens(down[c][i])

Talks(c) ==
    /\ pc[c] = "idle" => child[c] = "none" /\ up[c] = << >> /\ down[c] = << >>
    /\ pc[c] = "answer" => Expects(c)
    /\ pc[c] = "count" => Counts(c)
    /\ pc[c] = "peers" /\ remain[c] > 0 => Stores(c)
    /\ pc[c] \in {"idle", "answer"} => remain[c] = 0
    /\ child[c] = "PEERS" => left[c] <= Cardinality(Peers)
    /\ child[c] = "BLOCK" => left[c] <= Length

Typed == TypeOK /\ Queued /\ \A c \in Clients : Talks(c)

LEMMA TypedShape == TypeOK => Shape
BY DEF TypeOK, Shape

LEMMA StreamType ==
    ASSUME TypeOK, NEW c \in Clients
    PROVE  up[c] \in Seq(Units) /\ down[c] \in Seq(Units)
BY DEF TypeOK

LEMMA TypeParts ==
    ASSUME TypeOK
    PROVE  /\ remain \in [Clients -> Int] /\ backlog \in Seq(Clients)
           /\ accepted \in Seq(Clients) /\ left \in [Clients -> Nat]
BY DEF TypeOK

\* Every step keeps the type, step by step.
LEMMA TypeClient ==
    ASSUME TypeOK, NEW c \in Clients, Talks(c), Client(c) \/ ClientKilled(c)
    PROVE  TypeOK'
<1> DEFINE PCs == {"idle", "answer", "size", "data", "count", "peers", "done"}
           Results == {"none", "refused", "registered", "failed", "peers", "killed"}
<1>0. /\ pc \in [Clients -> PCs] /\ remain \in [Clients -> Int]
      /\ learnt \in [Clients -> SUBSET (Peers \cup {"", "garbled"})]
      /\ backlog \in Seq(Clients) /\ result \in [Clients -> Results]
  BY DEF TypeOK
<1>1. \A l \in PCs : Goto(c, l) => pc' \in [Clients -> PCs]
  <2> HIDE DEF PCs
  <2>1. QED
    BY <1>0 DEF Goto
<1>2. \A r \in Results : Done(c, r) => pc' \in [Clients -> PCs] /\ result' \in [Clients -> Results]
  <2> HIDE DEF Results
  <2>1. "done" \in PCs
    OBVIOUS
  <2> HIDE DEF PCs
  <2>2. QED
    BY <1>0, <1>1, <2>1 DEF Done
<1>3. ASSUME NEW m \in Texts
      PROVE  [up EXCEPT ![c] = @ \o Message(m)] \in [Clients -> Seq(Units)]
  <2>1. Message(m) \in Seq(Units) /\ up[c] \in Seq(Units)
    BY UnitsOf, StreamType, <1>3
  <2>2. up[c] \o Message(m) \in Seq(Units)
    BY <2>1, Joined
  <2>3. QED
    BY <2>2 DEF TypeOK
<1>4. ASSUME NEW b \in Prefixes(down[c]), Receives(down[c], b),
             down' = [down EXCEPT ![c] = After(@, b)]
      PROVE  /\ down' \in [Clients -> Seq(Units)] /\ faults' \in 0..MaxFaults
             /\ b \in Seq(Units) /\ Len(b) \in Nat /\ b # << >>
             /\ 1 \in DOMAIN down[c] /\ b[1] = down[c][1]
  <2>1. down[c] \in Seq(Units)
    BY StreamType
  <2>2. /\ b \in Seq(Units) /\ Len(b) \in 1..Len(down[c]) /\ b # << >>
        /\ After(down[c], b) \in Seq(Units)
        /\ \A i \in DOMAIN b : i \in DOMAIN down[c] /\ b[i] = down[c][i]
    BY <2>1, Cut
  <2>3. 1 \in DOMAIN b /\ Len(b) \in Nat
    BY <2>2
  <2>4. faults' \in 0..MaxFaults
    BY <1>4, FaultsType DEF TypeOK
  <2>5. QED
    BY <1>4, <2>2, <2>3, <2>4 DEF TypeOK
<1>5. AtEnd(c) => down' \in [Clients -> Seq(Units)] /\ faults' \in 0..MaxFaults
  BY DEF AtEnd, TypeOK
<1>6. UNCHANGED server => /\ held' = held /\ parent' = parent /\ fds' = fds
                          /\ backlog' = backlog /\ accepted' = accepted
                          /\ child' = child /\ buffer' = buffer /\ left' = left
  BY DEF server
<1> HIDE DEF PCs, Results
<1>7. CASE Connect(c)
  <2>1. Message(asked[c]) \in Seq(Units)
    <3>1. asked[c] \in Texts
      BY DEF TypeOK, Texts
    <3>2. QED
      BY <3>1, UnitsOf
  <2>2. Append(backlog, c) \in Seq(Clients)
    <3>1. backlog \in Seq(Clients)
      BY TypeParts
    <3>2. QED
      BY <3>1
  <2>3. /\ backlog' \in Seq(Clients) /\ up' \in [Clients -> Seq(Units)]
        /\ pc' \in [Clients -> PCs] /\ result' \in [Clients -> Results]
    <3>1. "answer" \in PCs /\ "refused" \in Results
      BY DEF PCs, Results
    <3>2. CASE parent = "listening"
      BY <1>1, <1>7, <2>1, <2>2, <3>1, <3>2 DEF Connect, TypeOK, Results
    <3>3. CASE parent # "listening"
      BY <1>2, <1>7, <3>1, <3>3 DEF Connect, TypeOK
    <3>4. QED
      BY <3>2, <3>3
  <2>4. UNCHANGED <<held, parent, fds, accepted, child, buffer, left, down, asked,
                    remain, got, learnt, faults>>
    BY <1>7 DEF Connect
  <2>5. QED
    BY <2>3, <2>4 DEF TypeOK, PCs, Results
<1>8. CASE ReceiveAnswer(c)
  <2>1. {"size", "count"} \subseteq PCs /\ "refused" \in Results
    BY DEF PCs, Results
  <2>2. {"BLOCK", "PEERS"} \subseteq Texts
    BY DEF Texts
  <2>3. /\ down' \in [Clients -> Seq(Units)] /\ faults' \in 0..MaxFaults
        /\ up' \in [Clients -> Seq(Units)] /\ pc' \in [Clients -> PCs]
        /\ result' \in [Clients -> Results]
    <3>1. ASSUME NEW t, Goto(c, IF t = "Y" THEN "size" ELSE "count"),
                 up' = [up EXCEPT ![c] = @ \o Message(IF t = "Y" THEN "BLOCK" ELSE "PEERS")]
          PROVE  up' \in [Clients -> Seq(Units)] /\ pc' \in [Clients -> PCs]
      BY <1>1, <1>3, <2>1, <2>2, <3>1
    <3>2. UNCHANGED result => result' \in [Clients -> Results]
      BY DEF TypeOK, Results
    <3>3. CASE \E b \in Prefixes(down[c]) :
                 /\ Receives(down[c], b) /\ down' = [down EXCEPT ![c] = After(@, b)]
                 /\ Goto(c, IF Text(b) = "Y" THEN "size" ELSE "count")
                 /\ up' = [up EXCEPT ![c] =
                             @ \o Message(IF Text(b) = "Y" THEN "BLOCK" ELSE "PEERS")]
                 /\ UNCHANGED result
      BY <1>4, <3>1, <3>2, <3>3
    <3>4. CASE /\ AtEnd(c) /\ Goto(c, IF "" = "Y" THEN "size" ELSE "count")
               /\ up' = [up EXCEPT ![c] = @ \o Message(IF "" = "Y" THEN "BLOCK" ELSE "PEERS")]
               /\ UNCHANGED result
      BY <1>5, <3>1, <3>2, <3>4
    <3>5. CASE Reset(c) /\ Done(c, "refused") /\ UNCHANGED up
      BY <1>2, <1>5, <2>1, <3>5 DEF Reset, TypeOK
    <3>6. QED
      BY <1>8, <3>3, <3>4, <3>5 DEF ReceiveAnswer
  <2>4. UNCHANGED server /\ UNCHANGED <<asked, remain, got, learnt>>
    BY <1>8 DEF ReceiveAnswer
  <2>5. QED
    BY <1>6, <2>3, <2>4 DEF TypeOK, PCs, Results
<1>9. ASSUME NEW from, NEW to \in PCs, NEW n \in Nat, ReceiveNumber(c, from, to, n)
      PROVE  TypeOK'
  <2>1. "failed" \in Results
    BY DEF Results
  <2>2. /\ down' \in [Clients -> Seq(Units)] /\ faults' \in 0..MaxFaults
        /\ pc' \in [Clients -> PCs] /\ result' \in [Clients -> Results]
        /\ remain' \in [Clients -> Int]
    <3>1. UNCHANGED result => result' \in [Clients -> Results]
      BY DEF TypeOK, Results
    <3>2. CASE \E b \in Prefixes(down[c]) :
                 /\ Receives(down[c], b) /\ down' = [down EXCEPT ![c] = After(@, b)]
                 /\ \E k \in Number(Text(b), n) : remain' = [remain EXCEPT ![c] = k]
                 /\ Goto(c, to) /\ UNCHANGED result
      <4>1. \A t : Number(t, n) \subseteq Int
        BY NumberType
      <4>2. remain' \in [Clients -> Int]
        <5>1. remain \in [Clients -> Int]
          BY TypeParts
        <5>2. QED
          BY <3>2, <4>1, <5>1
      <4>3. QED
        BY <1>1, <1>4, <3>1, <3>2, <4>2
    <3>3. CASE AtEnd(c) /\ Goto(c, to) /\ UNCHANGED <<remain, result>>
      BY <1>1, <1>5, <3>1, <3>3 DEF TypeOK
    <3>4. CASE Reset(c) /\ Done(c, "failed") /\ UNCHANGED remain
      BY <1>2, <1>5, <2>1, <3>4 DEF Reset, TypeOK
    <3>5. QED
      BY <1>9, <3>2, <3>3, <3>4 DEF ReceiveNumber
  <2>3. UNCHANGED server /\ UNCHANGED <<up, asked, got, learnt>>
    BY <1>9 DEF ReceiveNumber
  <2>4. QED
    BY <1>6, <2>2, <2>3 DEF TypeOK, PCs, Results
<1>10. CASE ReceiveSize(c) \/ ReceiveCount(c)
  <2>1. {"data", "peers"} \subseteq PCs /\ Length \in Nat /\ Cardinality(Peers) \in Nat
    BY LengthType, PeersCount DEF PCs
  <2>2. QED
    BY <1>9, <1>10, <2>1 DEF ReceiveSize, ReceiveCount
<1>11. CASE ReceiveData(c)
  <2>1. PICK b \in Prefixes(down[c]) :
            /\ Receives(down[c], b) /\ down' = [down EXCEPT ![c] = After(@, b)]
            /\ got' = [got EXCEPT ![c] = @ \o b]
            /\ remain' = [remain EXCEPT ![c] = @ - Len(b)]
    BY <1>11 DEF ReceiveData
  <2>2. /\ down' \in [Clients -> Seq(Units)] /\ faults' \in 0..MaxFaults
        /\ b \in Seq(Units) /\ Len(b) \in Nat
    BY <1>4, <2>1
  <2>3. got[c] \o b \in Seq(Units)
    <3>1. got[c] \in Seq(Units)
      BY DEF TypeOK
    <3>2. QED
      BY <2>2, <3>1, Joined
  <2>4. remain' \in [Clients -> Int]
    <3>1. remain \in [Clients -> Int]
      BY TypeParts
    <3>2. remain[c] - Len(b) \in Int
      BY <2>2, <3>1
    <3>3. QED
      BY <2>1, <3>1, <3>2
  <2>5. got' \in [Clients -> Seq(Units)]
    BY <2>1, <2>3 DEF TypeOK
  <2>6. UNCHANGED server /\ UNCHANGED <<up, pc, asked, learnt, result>>
    BY <1>11 DEF ReceiveData
  <2>7. QED
    BY <1>6, <2>2, <2>4, <2>5, <2>6 DEF TypeOK
<1>12. CASE Register(c) \/ EndPeers(c) \/ ClientKilled(c)
  <2>1. pc' \in [Clients -> PCs] /\ result' \in [Clients -> Results]
    BY <1>2, <1>12 DEF Register, EndPeers, ClientKilled, Results
  <2>2. down' = down /\ faults' \in 0..MaxFaults
    <3>1. ClientKilled(c) => Fault("client")
      BY DEF ClientKilled
    <3>2. QED
      BY <1>12, <3>1, FaultsType DEF Register, EndPeers, ClientKilled, AtEnd, TypeOK
  <2>3. UNCHANGED server /\ UNCHANGED <<up, asked, remain, got, learnt>>
    BY <1>12 DEF Register, EndPeers, ClientKilled
  <2>4. QED
    BY <1>6, <2>1, <2>2, <2>3 DEF TypeOK, PCs, Results
<1>13. CASE ReceivePeer(c)
  <2>1. pc[c] = "peers" /\ remain[c] > 0 /\ Stores(c)
    BY <1>13 DEF ReceivePeer, Talks
  <2> DEFINE less == [remain EXCEPT ![c] = @ - 1]
  <2>0. less \in [Clients -> Int]
    BY TypeParts
  <2> HIDE DEF less
  <2>2. ASSUME NEW t \in Peers \cup {"", "garbled"},
               learnt' = [learnt EXCEPT ![c] = @ \cup {t}],
               remain' = [remain EXCEPT ![c] = @ - 1]
        PROVE  /\ learnt' \in [Clients -> SUBSET (Peers \cup {"", "garbled"})]
               /\ remain' \in [Clients -> Int]
    <3> DEFINE S == SUBSET (Peers \cup {"", "garbled"})
    <3>1. learnt \in [Clients -> S]
      BY DEF TypeOK
    <3>2. learnt[c] \cup {t} \in S
      BY <2>2, <3>1
    <3> HIDE DEF S
    <3>3. learnt' \in [Clients -> S]
      BY <2>2, <3>1, <3>2
    <3>4. remain' \in [Clients -> Int]
      BY <2>0, <2>2 DEF less
    <3>5. QED
      BY <3>3, <3>4 DEF S
  <2>3. /\ down' \in [Clients -> Seq(Units)] /\ faults' \in 0..MaxFaults
        /\ learnt' \in [Clients -> SUBSET (Peers \cup {"", "garbled"})]
        /\ remain' \in [Clients -> Int]
        /\ pc' \in [Clients -> PCs] /\ result' \in [Clients -> Results]
    <3>1. UNCHANGED <<pc, result>> =>
            pc' \in [Clients -> PCs] /\ result' \in [Clients -> Results]
      BY DEF TypeOK, PCs, Results
    <3>2. ASSUME NEW b \in Prefixes(down[c]), Receives(down[c], b),
                 down' = [down EXCEPT ![c] = After(@, b)]
          PROVE  Text(b) \in Peers \cup {"", "garbled"}
      <4>1. b # << >> /\ 1 \in DOMAIN down[c] /\ b[1] = down[c][1]
        BY <1>4, <3>2
      <4>2. ~Opens(b[1])
        BY <2>1, <4>1 DEF Stores
      <4>3. QED
        BY <4>1, <4>2, TextFrom DEF Opens
    <3>3. CASE \E b \in Prefixes(down[c]) :
                 /\ Receives(down[c], b) /\ down' = [down EXCEPT ![c] = After(@, b)]
                 /\ learnt' = [learnt EXCEPT ![c] = @ \cup {Text(b)}]
                 /\ remain' = [remain EXCEPT ![c] = @ - 1]
                 /\ UNCHANGED <<pc, result>>
      BY <1>4, <2>2, <3>1, <3>2, <3>3
    <3>4. CASE /\ AtEnd(c) /\ learnt' = [learnt EXCEPT ![c] = @ \cup {""}]
               /\ remain' = [remain EXCEPT ![c] = @ - 1]
               /\ UNCHANGED <<pc, result>>
      BY <1>5, <2>2, <3>1, <3>4
    <3>5. CASE Reset(c) /\ Done(c, "failed") /\ UNCHANGED <<learnt, remain>>
      <4>1. "failed" \in Results
        BY DEF Results
      <4>2. QED
        BY <1>2, <1>5, <3>5, <4>1 DEF Reset, TypeOK
    <3>6. QED
      BY <1>13, <3>3, <3>4, <3>5 DEF ReceivePeer
  <2>4. UNCHANGED server /\ UNCHANGED <<up, asked, got>>
    BY <1>13 DEF ReceivePeer
  <2>5. QED
    BY <1>6, <2>3, <2>4 DEF TypeOK, PCs, Results
<1>14. QED
  BY <1>7, <1>8, <1>10, <1>11, <1>12, <1>13 DEF Client

LEMMA TypeChild ==
    ASSUME TypeOK, NEW c \in Clients, Talks(c), Child(c)
    PROVE  TypeOK'
<1> DEFINE States == {"none", "cid", "get", "verify", "remove", "want",
                      "BLOCK", "PEERS", "gone"}
           Kinds == {"none", "whole", "bad", "missing"}
<1>1. /\ held \in [Cids -> Kinds] /\ child \in [Clients -> States]
      /\ up \in [Clients -> Seq(Units)] /\ down \in [Clients -> Seq(Units)]
      /\ left \in [Clients -> Nat] /\ faults \in 0..MaxFaults
  BY DEF TypeOK
<1>2. \A s \in States : child' = [child EXCEPT ![c] = s] => child' \in [Clients -> States]
  BY <1>1
<1>3. ASSUME NEW s \in Seq(Units), down' = [down EXCEPT ![c] = @ \o s]
      PROVE  down' \in [Clients -> Seq(Units)]
  <2>1. down[c] \o s \in Seq(Units)
    BY <1>1, <1>3, Joined
  <2>2. QED
    BY <1>1, <1>3, <2>1
<1>4. ASSUME NEW b \in Prefixes(up[c]), Receives(up[c], b), up' = [up EXCEPT ![c] = After(@, b)]
      PROVE  up' \in [Clients -> Seq(Units)] /\ faults' \in 0..MaxFaults
  <2>1. After(up[c], b) \in Seq(Units)
    BY <1>1, Cut
  <2>2. QED
    BY <1>1, <1>4, <2>1, FaultsType
<1>5. UNCHANGED client => /\ pc' = pc /\ asked' = asked /\ remain' = remain /\ got' = got
                          /\ learnt' = learnt /\ result' = result
  BY DEF client
<1>6. CASE ChildBegins(c)
  <2>1. child' \in [Clients -> States]
    <3>1. \E l \in {"get", "verify", "remove", "want", "gone"} : child' = [child EXCEPT ![c] = l]
      BY <1>6 DEF ChildBegins, ChildReceives, ChildLooksUp, ChildVerifies, ChildRemoves,
                  ChildGoes, Answer
    <3>2. QED
      BY <1>2, <3>1
  <2>2. down' \in [Clients -> Seq(Units)]
    <3>1. Message("Y") \in Seq(Units) /\ Message("N") \in Seq(Units)
      BY UnitsOf DEF Texts
    <3>2. \/ down' = down
          \/ down' = [down EXCEPT ![c] = @ \o Message("Y")]
          \/ down' = [down EXCEPT ![c] = @ \o Message("N")]
      BY <1>6 DEF ChildBegins, ChildReceives, ChildLooksUp, ChildVerifies, ChildRemoves, Answer
    <3>3. QED
      BY <1>1, <1>3, <3>1, <3>2
  <2>3. UNCHANGED client /\ UNCHANGED <<parent, fds, backlog, accepted, left>>
    BY <1>6 DEF ChildBegins, ChildReceives, ChildLooksUp, ChildVerifies, ChildRemoves
  <2>4. CASE ChildReceives(c)
    <3>1. PICK b \in Prefixes(up[c]) :
              /\ Receives(up[c], b) /\ up' = [up EXCEPT ![c] = After(@, b)]
              /\ buffer' = [buffer EXCEPT ![c] = Text(b)]
      BY <2>4 DEF ChildReceives
    <3>2. up' \in [Clients -> Seq(Units)] /\ faults' \in 0..MaxFaults
      BY <1>4, <3>1
    <3>3. Text(b) \in Strings
      <4>1. b \in Seq(Units) /\ b # << >>
        BY <1>1, Cut
      <4>2. b[1] \in Units
        BY <4>1
      <4>3. b[1].of \in Strings
        BY <4>2 DEF Units, Strings
      <4>4. QED
        BY <4>1, <4>3, TextFrom DEF Strings
    <3>4. buffer' \in [Clients -> Strings]
      BY <3>1, <3>3 DEF TypeOK
    <3>5. held' = held
      BY <2>4 DEF ChildReceives
    <3>6. QED
      BY <1>5, <2>1, <2>2, <2>3, <3>2, <3>4, <3>5 DEF TypeOK
  <2>5. CASE ~ChildReceives(c)
    <3>1. UNCHANGED <<buffer, up, faults>>
      BY <1>6, <2>5 DEF ChildBegins, ChildLooksUp, ChildVerifies, ChildRemoves
    <3>2. held' \in [Cids -> Kinds]
      <4>1. held' = held \/ \E t : held' = [held EXCEPT ![t] = "missing"]
        BY <1>6, <2>5 DEF ChildBegins, ChildLooksUp, ChildVerifies, ChildRemoves
      <4>2. QED
        BY <1>1, <4>1
    <3>3. QED
      BY <1>5, <2>1, <2>2, <2>3, <3>1, <3>2 DEF TypeOK
  <2>6. QED
    BY <2>4, <2>5
<1>7. CASE ChildHears(c)
  <2>1. PICK b \in Prefixes(up[c]) :
            /\ Receives(up[c], b) /\ up' = [up EXCEPT ![c] = After(@, b)]
            /\ IF Text(b) \in {"BLOCK", "PEERS"}
               THEN /\ child' = [child EXCEPT ![c] = Text(b)]
                    /\ left' = [left EXCEPT ![c] = IF Text(b) = "BLOCK" THEN Length
                                                   ELSE Cardinality(Peers)]
                    /\ down' = [down EXCEPT ![c] = @ \o Message("number")]
               ELSE child' = [child EXCEPT ![c] = "gone"] /\ UNCHANGED <<left, down>>
    BY <1>7 DEF ChildHears, ChildGoes
  <2>2. up' \in [Clients -> Seq(Units)] /\ faults' \in 0..MaxFaults
    BY <1>4, <2>1
  <2>3. child' \in [Clients -> States]
    <3>1. \/ child' = [child EXCEPT ![c] = "BLOCK"]
          \/ child' = [child EXCEPT ![c] = "PEERS"]
          \/ child' = [child EXCEPT ![c] = "gone"]
      BY <2>1
    <3>2. QED
      BY <1>2, <3>1
  <2>4. left' \in [Clients -> Nat]
    BY <1>1, <2>1, LengthType, PeersCount
  <2>5. down' \in [Clients -> Seq(Units)]
    <3>1. Message("number") \in Seq(Units)
      BY UnitsOf DEF Texts
    <3>2. QED
      BY <1>1, <1>3, <2>1, <3>1
  <2>6. UNCHANGED client /\ UNCHANGED <<held, parent, fds, backlog, accepted, buffer>>
    BY <1>7 DEF ChildHears
  <2>7. QED
    BY <1>5, <2>2, <2>3, <2>4, <2>5, <2>6 DEF TypeOK
<1>8. CASE ChildSends(c)
  <2>1. /\ child[c] \in {"BLOCK", "PEERS"} /\ left[c] > 0
        /\ left' = [left EXCEPT ![c] = @ - 1]
        /\ down' = [down EXCEPT ![c] = @ \o
                      IF child[c] = "BLOCK" THEN <<Block[Length - left[c] + 1]>>
                      ELSE Message(Listed[Cardinality(Peers) - left[c] + 1])]
    BY <1>8 DEF ChildSends
  <2>2. left' \in [Clients -> Nat]
    <3>1. left[c] - 1 \in Nat
      BY <1>1, <2>1
    <3>2. QED
      BY <1>1, <2>1, <3>1
  <2>3. down' \in [Clients -> Seq(Units)]
    <3>1. CASE child[c] = "BLOCK"
      <4>1. Length - left[c] + 1 \in 1..Length
        BY <1>1, <2>1, <3>1, LengthType DEF Talks
      <4>2. Block[Length - left[c] + 1] \in Units
        BY <4>1 DEF Block, Units
      <4>3. <<Block[Length - left[c] + 1]>> \in Seq(Units)
        BY <4>2
      <4>4. QED
        BY <1>3, <2>1, <3>1, <4>3
    <3>2. CASE child[c] = "PEERS"
      <4>1. Cardinality(Peers) - left[c] + 1 \in 1..Cardinality(Peers)
        BY <1>1, <2>1, <3>2, PeersCount DEF Talks
      <4>2. Listed[Cardinality(Peers) - left[c] + 1] \in Peers
        BY <4>1, ListedType
      <4>3. Message(Listed[Cardinality(Peers) - left[c] + 1]) \in Seq(Units)
        BY <4>2, UnitsOf DEF Texts
      <4>4. QED
        BY <1>3, <2>1, <3>2, <4>3
    <3>3. QED
      BY <2>1, <3>1, <3>2
  <2>4. UNCHANGED client /\ UNCHANGED <<held, parent, fds, backlog, accepted, child,
                                       buffer, up, faults>>
    BY <1>8 DEF ChildSends
  <2>5. QED
    BY <1>5, <2>2, <2>3, <2>4 DEF TypeOK
<1>9. CASE ChildEnds(c)
  <2>1. child' \in [Clients -> States]
    BY <1>2, <1>9 DEF ChildEnds, ChildGoes
  <2>2. UNCHANGED client /\ UNCHANGED <<held, parent, fds, backlog, accepted, buffer, left, up,
                                       down, faults>>
    BY <1>9 DEF ChildEnds, ChildGoes
  <2>3. QED
    BY <1>5, <2>1, <2>2 DEF TypeOK
<1>10. QED
  BY <1>6, <1>7, <1>8, <1>9 DEF Child, ChildBegins

LEMMA TypeParent ==
    ASSUME TypeOK, Queued, Accept \/ ServerCrashes
    PROVE  TypeOK'
<1> DEFINE States == {"none", "cid", "get", "verify", "remove", "want",
                      "BLOCK", "PEERS", "gone"}
<1>1. /\ fds \in Nat /\ faults \in 0..MaxFaults /\ child \in [Clients -> States]
  BY DEF TypeOK
<1>2. CASE Accept
  <2>1. backlog' \in Seq(Clients) /\ accepted' \in Seq(Clients) /\ child' \in [Clients -> States]
    <3>1. Shape'
      BY <1>2, TypedShape, ShapeKept DEF Next
    <3>2. QED
      BY <3>1 DEF Shape
  <2>2. fds' \in Nat
    BY <1>1, <1>2 DEF Accept
  <2>3. faults' \in 0..MaxFaults
    BY <1>1, <1>2, FaultsType DEF Accept
  <2>4. parent' \in {"listening", "gone"}
    BY <1>2 DEF Accept
  <2>5. UNCHANGED <<held, buffer, up, down, left, pc, asked, remain, got, learnt, result>>
    BY <1>2 DEF Accept, client
  <2>6. QED
    BY <2>1, <2>2, <2>3, <2>4, <2>5 DEF TypeOK
<1>3. CASE ServerCrashes
  <2>1. faults' \in 0..MaxFaults /\ parent' = "gone" /\ child' \in [Clients -> States]
    BY <1>1, <1>3, FaultsType DEF ServerCrashes
  <2>2. UNCHANGED <<held, fds, backlog, accepted, buffer, left, up, down,
                    pc, asked, remain, got, learnt, result>>
    BY <1>3 DEF ServerCrashes, client
  <2>3. QED
    BY <2>1, <2>2 DEF TypeOK
<1>4. QED
  BY <1>2, <1>3
-----------------------------------------------------------------------------
(* And every step keeps what is on its way.                                *)

LEMMA TalksKept ==
    ASSUME NEW c \in Clients, Talks(c), parent = "gone" => parent' = "gone",
           pc'[c] = pc[c], child'[c] = child[c], up'[c] = up[c], down'[c] = down[c],
           left'[c] = left[c], remain'[c] = remain[c]
    PROVE  Talks(c)'
<1>1. pc[c] = "answer" => Expects(c)'
  BY DEF Talks, Expects
<1>2. pc[c] = "count" => Counts(c)'
  BY DEF Talks, Counts
<1>3. pc[c] = "peers" /\ remain[c] > 0 => Stores(c)'
  BY DEF Talks, Stores
<1>4. QED
  BY <1>1, <1>2, <1>3 DEF Talks

LEMMA TalksOthers ==
    ASSUME Shape, NEW d \in Clients, Client(d) \/ Child(d) \/ ClientKilled(d),
           NEW c \in Clients, c # d, Talks(c)
    PROVE  Talks(c)'
<1> USE DEF Shape
<1>1. CASE Connect(d)
  BY <1>1, TalksKept DEF Connect, Goto, Done
<1>2. CASE ReceiveAnswer(d)
  BY <1>2, TalksKept DEF ReceiveAnswer, AtEnd, Reset, Goto, Done, server
<1>3. CASE ReceiveSize(d) \/ ReceiveCount(d)
  BY <1>3, TalksKept DEF ReceiveSize, ReceiveCount, ReceiveNumber, AtEnd, Reset, Goto, Done, server
<1>4. CASE ReceiveData(d)
  BY <1>4, TalksKept DEF ReceiveData, server
<1>5. CASE Register(d) \/ EndPeers(d) \/ ClientKilled(d)
  BY <1>5, TalksKept DEF Register, EndPeers, ClientKilled, AtEnd, Goto, Done, server
<1>6. CASE ReceivePeer(d)
  BY <1>6, TalksKept DEF ReceivePeer, AtEnd, Reset, Goto, Done, server
<1>7. CASE ChildBegins(d)
  BY <1>7, TalksKept
     DEF ChildBegins, ChildReceives, ChildLooksUp, ChildVerifies, ChildRemoves,
         ChildGoes, Answer, client
<1>8. CASE ChildHears(d)
  BY <1>8, TalksKept DEF ChildHears, ChildGoes, client
<1>9. CASE ChildSends(d) \/ ChildEnds(d)
  BY <1>9, TalksKept DEF ChildSends, ChildEnds, ChildGoes, client
<1>10. QED
  BY <1>1, <1>2, <1>3, <1>4, <1>5, <1>6, <1>7, <1>8, <1>9 DEF Client, Child, ChildBegins

\* What is left of an answer after a recv is zeros.
LEMMA AnswerRest ==
    ASSUME NEW m \in {"Y", "N"}, NEW b \in Prefixes(Message(m))
    PROVE  \A i \in DOMAIN After(Message(m), b) :
             Zeros(After(Message(m), b)[i]) /\ ~Opens(After(Message(m), b)[i])
<1>1. Message(m) \in Seq(Units)
  BY UnitsOf DEF Texts
<1> DEFINE s == Message(m)
           r == After(s, b)
<1>2. /\ DOMAIN s = 1..3 /\ \A i \in 1..3 : s[i].of = m /\ s[i].part = i
      /\ Len(s) = 3
  BY MessageParts
<1> HIDE DEF s
<1>3. /\ Len(b) \in 1..Len(s)
      /\ r \in Seq(Units) /\ Len(r) = Len(s) - Len(b)
      /\ \A i \in DOMAIN r : i + Len(b) \in DOMAIN s /\ r[i] = s[i + Len(b)]
  BY <1>1, Cut DEF s
<1> HIDE DEF r
<1>4. SUFFICES ASSUME NEW i \in DOMAIN r PROVE Zeros(r[i]) /\ ~Opens(r[i])
  BY DEF r, s
<1>5. i \in Nat /\ i >= 1 /\ Len(b) \in Nat /\ Len(b) >= 1
  <2>1. i \in 1..Len(r) /\ Len(r) \in Nat /\ Len(s) \in Nat
    BY <1>2, <1>3
  <2>2. QED
    BY <1>3, <2>1
<1>6. i + Len(b) \in {2, 3}
  <2>1. i + Len(b) \in 1..3
    BY <1>2, <1>3
  <2>2. QED
    BY <1>5, <2>1
<1>7. r[i].of = m /\ r[i].part \in {2, 3}
  BY <1>2, <1>3, <1>6
<1>8. QED
  BY <1>7 DEF Zeros, Opens, SIZE

LEMMA NotAskedFor == \A t \in Cids : t \notin {"BLOCK", "PEERS"}
BY ExchangeAssumption

LEMMA TalksConnect ==
    ASSUME TypeOK, NEW c \in Clients, Talks(c), Connect(c)
    PROVE  Talks(c)'
<1>1. /\ pc[c] = "idle" /\ UNCHANGED <<parent, child, down, left, remain>>
      /\ child[c] = "none" /\ down[c] = << >> /\ remain[c] = 0
  BY DEF Connect, Talks
<1>2. CASE pc'[c] = "done"
  BY <1>1, <1>2 DEF Talks
<1>3. CASE pc'[c] = "answer" /\ up'[c] = Message(asked[c])
  <2>1. asked[c] \in Cids
    BY DEF TypeOK
  <2>2. \A i \in DOMAIN up'[c] : up'[c][i].of \in Cids
    BY <1>3, <2>1, MessageParts
  <2>3. Expects(c)'
    BY <1>1, <2>2 DEF Expects
  <2>4. QED
    BY <1>1, <1>3, <2>3 DEF Talks
<1>4. QED
  BY <1>2, <1>3, TypedShape DEF Connect, Goto, Done, Shape

LEMMA TalksAnswer ==
    ASSUME TypeOK, Queued, NEW c \in Clients, Talks(c), ReceiveAnswer(c)
    PROVE  Talks(c)'
<1> USE TypedShape DEF Shape
<1>1. /\ pc[c] = "answer" /\ Expects(c) /\ remain[c] = 0
      /\ UNCHANGED <<parent, child, left, remain>>
  BY DEF ReceiveAnswer, Talks, server
<1>2. CASE pc'[c] \in {"size", "done"}
  BY <1>1, <1>2 DEF Talks, Expects
<1>3. CASE /\ pc'[c] = "count" /\ up'[c] = up[c] \o Message("PEERS")
           /\ \A i \in DOMAIN down'[c] : Zeros(down'[c][i]) /\ ~Opens(down'[c][i])
           /\ child[c] \in {"none", "want", "gone"} /\ (child[c] = "none" => parent = "gone")
  <2>1. \A i \in DOMAIN up'[c] : up'[c][i].of # "BLOCK"
    <3> DEFINE s == up[c]
               t == Message("PEERS")
    <3>1. s \in Seq(Units) /\ t \in Seq(Units)
      BY StreamType, UnitsOf DEF Texts
    <3>2. \A i \in DOMAIN s : s[i].of \in Cids
      BY <1>1 DEF Expects
    <3>3. \A i \in DOMAIN t : t[i].of = "PEERS"
      BY MessageParts
    <3> HIDE DEF s, t
    <3>4. \A i \in DOMAIN (s \o t) :
             \/ i \in DOMAIN s /\ (s \o t)[i] = s[i]
             \/ i - Len(s) \in DOMAIN t /\ (s \o t)[i] = t[i - Len(s)]
      BY <3>1, Joined
    <3>5. \A i \in DOMAIN (s \o t) : (s \o t)[i].of # "BLOCK"
      BY <3>2, <3>3, <3>4, NotAskedFor
    <3>6. up'[c] = s \o t
      BY <1>3 DEF s, t
    <3>7. QED
      BY <3>5, <3>6
  <2>2. Counts(c)'
    BY <1>1, <1>3, <2>1 DEF Counts
  <2>3. QED
    BY <1>1, <1>3, <2>2 DEF Talks, Expects
<1>4. ASSUME NEW b \in Prefixes(down[c]), Receives(down[c], b),
             down' = [down EXCEPT ![c] = After(@, b)],
             Goto(c, IF Text(b) = "Y" THEN "size" ELSE "count"),
             up' = [up EXCEPT ![c] = @ \o Message(IF Text(b) = "Y" THEN "BLOCK" ELSE "PEERS")]
      PROVE  Talks(c)'
  <2>1. down[c] # << >>
    BY <1>4 DEF Receives
  <2>2. child[c] \in {"want", "gone"} /\ \E m \in {"Y", "N"} : down[c] = Message(m)
    BY <1>1, <2>1 DEF Expects
  <2>3. \A i \in DOMAIN down'[c] : Zeros(down'[c][i]) /\ ~Opens(down'[c][i])
    <3>1. PICK m \in {"Y", "N"} : down[c] = Message(m)
      BY <2>2
    <3>2. b \in Prefixes(Message(m)) /\ down'[c] = After(Message(m), b)
      BY <1>4, <3>1
    <3>3. QED
      BY <3>2, AnswerRest
  <2>4. CASE Text(b) = "Y"
    BY <1>2, <1>4, <2>4 DEF Goto
  <2>5. CASE Text(b) # "Y"
    BY <1>3, <1>4, <2>2, <2>3, <2>5 DEF Goto
  <2>6. QED
    BY <2>4, <2>5
<1>5. CASE AtEnd(c) /\ Goto(c, "count") /\ up' = [up EXCEPT ![c] = @ \o Message("PEERS")]
  <2>1. child[c] \in {"none", "gone"} /\ parent = "gone" /\ down'[c] = << >>
    BY <1>5, ClosedHasNoChild DEF AtEnd, Closed
  <2>2. \A i \in DOMAIN down'[c] : FALSE
    BY <2>1
  <2>3. QED
    BY <1>3, <1>5, <2>1, <2>2 DEF Goto
<1>6. CASE Done(c, "refused")
  BY <1>2, <1>6 DEF Done, Goto
<1>7. QED
  BY <1>4, <1>5, <1>6 DEF ReceiveAnswer

LEMMA TalksCount ==
    ASSUME TypeOK, NEW c \in Clients, Talks(c), ReceiveCount(c)
    PROVE  Talks(c)'
<1> USE TypedShape DEF Shape
<1>1. /\ pc[c] = "count" /\ Counts(c) /\ UNCHANGED <<parent, child, up, left>>
  BY DEF ReceiveCount, ReceiveNumber, Talks, server
<1>2. CASE pc'[c] = "done"
  BY <1>1, <1>2 DEF Talks
<1>3. CASE pc'[c] = "peers" /\ (remain'[c] > 0 => Stores(c)')
  BY <1>1, <1>3 DEF Talks
<1>4. ASSUME NEW b \in Prefixes(down[c]), down' = [down EXCEPT ![c] = After(@, b)],
             NEW k \in Number(Text(b), Cardinality(Peers)), remain' = [remain EXCEPT ![c] = k]
      PROVE  remain'[c] > 0 => Stores(c)'
  <2>1. SUFFICES ASSUME k > 0 PROVE Stores(c)'
    <3>1. remain'[c] = k
      BY <1>4, TypeParts
    <3>2. QED
      BY <2>1, <3>1
  <2>2. Text(b) \in {"number", "garbled"}
    BY <2>1 DEF Number
  <2>3. /\ b # << >> /\ Len(b) \in 1..Len(down[c]) /\ down'[c] = After(down[c], b)
        /\ \A i \in DOMAIN b : i \in DOMAIN down[c] /\ b[i] = down[c][i]
        /\ \A i \in DOMAIN down'[c] :
             i + Len(b) \in DOMAIN down[c] /\ down'[c][i] = down[c][i + Len(b)]
        /\ b \in Seq(Units) /\ down'[c] \in Seq(Units)
    <3>1. down[c] \in Seq(Units) /\ down'[c] = After(down[c], b)
      BY <1>4, StreamType
    <3>2. QED
      BY <3>1, Cut
  <2>4. 1 \in DOMAIN b /\ Len(b) \in Nat \ {0}
    BY <2>3
  <2>5. 1 \in DOMAIN down[c] /\ ~Zeros(down[c][1])
    <3>1. ~Zeros(b[1])
      BY <2>2, <2>3, TextFrom
    <3>2. b[1] = down[c][1] /\ 1 \in DOMAIN down[c]
      BY <2>3, <2>4
    <3>3. QED
      BY <3>1, <3>2
  <2>6. child[c] \in {"PEERS", "gone"}
    BY <1>1, <2>5 DEF Counts
  <2>7. ASSUME NEW i \in DOMAIN down'[c], Opens(down'[c][i]) PROVE FALSE
    <3>1. i \in Nat \ {0}
      BY <2>3
    <3>2. 1 \in 1..((i + Len(b)) - 1)
      BY <2>4, <3>1
    <3>3. i + Len(b) \in DOMAIN down[c] /\ Opens(down[c][i + Len(b)])
      BY <2>3, <2>7
    <3>4. Zeros(down[c][1])
      BY <1>1, <3>2, <3>3 DEF Counts
    <3>5. QED
      BY <2>5, <3>4
  <2>8. QED
    BY <1>1, <2>6, <2>7 DEF Stores
<1>5. QED
  <2>1. CASE \E b \in Prefixes(down[c]) :
               /\ Receives(down[c], b) /\ down' = [down EXCEPT ![c] = After(@, b)]
               /\ \E k \in Number(Text(b), Cardinality(Peers)) : remain' = [remain EXCEPT ![c] = k]
               /\ Goto(c, "peers") /\ UNCHANGED result
    BY <1>3, <1>4, <2>1 DEF Goto
  <2>2. CASE AtEnd(c) /\ Goto(c, "peers") /\ UNCHANGED <<remain, result>>
    BY <1>1, <1>3, <2>2 DEF Goto, Counts
  <2>3. CASE Reset(c) /\ Done(c, "failed") /\ UNCHANGED remain
    BY <1>2, <2>3 DEF Done, Goto
  <2>4. QED
    BY <2>1, <2>2, <2>3 DEF ReceiveCount, ReceiveNumber

LEMMA TalksPeer ==
    ASSUME TypeOK, NEW c \in Clients, Talks(c), ReceivePeer(c)
    PROVE  Talks(c)'
<1> USE TypedShape DEF Shape
<1>1. /\ pc[c] = "peers" /\ Stores(c) /\ UNCHANGED <<parent, child, up, left>>
  BY DEF ReceivePeer, Talks, server
<1>2. CASE pc'[c] = "done"
  BY <1>1, <1>2 DEF Talks
<1>3. CASE pc'[c] = "peers" /\ \A i \in DOMAIN down'[c] : ~Opens(down'[c][i])
  BY <1>1, <1>3 DEF Talks, Stores
<1>4. ASSUME NEW b \in Prefixes(down[c]), down' = [down EXCEPT ![c] = After(@, b)]
      PROVE  \A i \in DOMAIN down'[c] : ~Opens(down'[c][i])
  <2>1. down[c] \in Seq(Units) /\ down'[c] = After(down[c], b)
    BY <1>4, StreamType
  <2>2. \A i \in DOMAIN down'[c] :
          i + Len(b) \in DOMAIN down[c] /\ down'[c][i] = down[c][i + Len(b)]
    BY <2>1, Cut
  <2>3. QED
    BY <1>1, <2>2 DEF Stores
<1>5. QED
  <2>1. CASE UNCHANGED pc /\ \E b \in Prefixes(down[c]) : down' = [down EXCEPT ![c] = After(@, b)]
    BY <1>1, <1>3, <1>4, <2>1
  <2>2. CASE UNCHANGED pc /\ AtEnd(c)
    BY <1>1, <1>3, <2>2 DEF AtEnd, Stores
  <2>3. CASE Done(c, "failed")
    BY <1>2, <2>3 DEF Done, Goto
  <2>4. QED
    BY <2>1, <2>2, <2>3 DEF ReceivePeer

\* The other steps of a client leave nothing to say about it.
LEMMA TalksElse ==
    ASSUME TypeOK, NEW c \in Clients, Talks(c),
           ReceiveSize(c) \/ ReceiveData(c) \/ Register(c) \/ EndPeers(c) \/ ClientKilled(c)
    PROVE  Talks(c)'
<1> USE TypedShape DEF Shape
<1>1. UNCHANGED <<child, left>>
  BY DEF ReceiveSize, ReceiveNumber, ReceiveData, Register, EndPeers, ClientKilled, server
<1>2. pc'[c] \in {"data", "done"}
  <2>1. CASE ReceiveSize(c)
    BY <2>1 DEF ReceiveSize, ReceiveNumber, Goto, Done
  <2>2. CASE ReceiveData(c)
    BY <2>2 DEF ReceiveData
  <2>3. CASE Register(c) \/ EndPeers(c) \/ ClientKilled(c)
    BY <2>3 DEF Register, EndPeers, ClientKilled, Goto, Done
  <2>4. QED
    BY <2>1, <2>2, <2>3
<1>3. QED
  BY <1>1, <1>2 DEF Talks

LEMMA TalksChild ==
    ASSUME TypeOK, NEW c \in Clients, Talks(c), Child(c)
    PROVE  Talks(c)'
<1> USE TypedShape DEF Shape
<1>1. /\ UNCHANGED <<parent, pc, asked, remain>> /\ child[c] \notin {"none", "gone"}
      /\ pc[c] # "idle"
  <2>1. /\ UNCHANGED <<parent, pc, asked, remain>> /\ child[c] \notin {"none", "gone"}
    BY DEF Child, ChildReceives, ChildLooksUp, ChildVerifies, ChildRemoves, ChildHears,
           ChildSends, ChildEnds, client
  <2>2. QED
    BY <2>1 DEF Talks
<1>2. ASSUME NEW b \in Prefixes(up[c]), up' = [up EXCEPT ![c] = After(@, b)]
      PROVE  /\ \A i \in DOMAIN up'[c] : \E j \in DOMAIN up[c] : up'[c][i] = up[c][j]
             /\ 1 \in DOMAIN up[c] /\ b # << >> /\ b[1] = up[c][1]
  <2>1. up[c] \in Seq(Units) /\ up'[c] = After(up[c], b)
    BY <1>2, StreamType
  <2>2. /\ b \in Seq(Units) /\ Len(b) \in 1..Len(up[c]) /\ b # << >>
        /\ \A i \in DOMAIN b : i \in DOMAIN up[c] /\ b[i] = up[c][i]
        /\ \A i \in DOMAIN After(up[c], b) :
             i + Len(b) \in DOMAIN up[c] /\ After(up[c], b)[i] = up[c][i + Len(b)]
    BY <2>1, Cut
  <2>3. 1 \in DOMAIN b
    BY <2>2
  <2>4. QED
    BY <2>1, <2>2, <2>3
<1>3. CASE ChildBegins(c)
  <2>1. child[c] \in {"cid", "get", "verify", "remove"} /\ UNCHANGED left
    BY <1>3 DEF ChildBegins, ChildReceives, ChildLooksUp, ChildVerifies, ChildRemoves
  <2>2. child'[c] \in {"get", "verify", "remove", "want", "gone"}
    BY <1>3 DEF ChildBegins, ChildReceives, ChildLooksUp, ChildVerifies, ChildRemoves,
                ChildGoes, Answer
  <2>3. \/ down'[c] = down[c]
        \/ child'[c] = "want" /\ down'[c] \in {down[c] \o Message("Y"), down[c] \o Message("N")}
    BY <1>3 DEF ChildBegins, ChildReceives, ChildLooksUp, ChildVerifies, ChildRemoves,
                ChildGoes, Answer
  <2>4. ASSUME pc[c] = "answer" PROVE Expects(c)'
    <3>1. Expects(c) /\ down[c] = << >>
      BY <2>1, <2>4 DEF Talks, Expects
    <3>2. \A i \in DOMAIN up'[c] : up'[c][i].of \in Cids
      <4>1. CASE up' = up
        BY <3>1, <4>1 DEF Expects
      <4>2. CASE \E b \in Prefixes(up[c]) : up' = [up EXCEPT ![c] = After(@, b)]
        BY <1>2, <3>1, <4>2 DEF Expects
      <4>3. QED
        BY <1>3, <4>1, <4>2
           DEF ChildBegins, ChildReceives, ChildLooksUp, ChildVerifies, ChildRemoves
    <3>3. \/ down'[c] = << >>
          \/ child'[c] = "want" /\ down'[c] \in {Message("Y"), Message("N")}
      BY <2>3, <3>1, FirstMessage
    <3>4. QED
      BY <2>2, <3>2, <3>3 DEF Expects
  <2>5. pc[c] # "count" /\ ~(pc[c] = "peers" /\ remain[c] > 0)
    BY <2>1 DEF Talks, Counts, Stores
  <2>6. QED
    BY <1>1, <2>2, <2>4, <2>5 DEF Talks
<1>4. CASE ChildHears(c)
  <2>1. PICK b \in Prefixes(up[c]) :
            /\ up' = [up EXCEPT ![c] = After(@, b)]
            /\ IF Text(b) \in {"BLOCK", "PEERS"}
               THEN /\ child' = [child EXCEPT ![c] = Text(b)]
                    /\ left' = [left EXCEPT ![c] = IF Text(b) = "BLOCK" THEN Length
                                                   ELSE Cardinality(Peers)]
                    /\ down' = [down EXCEPT ![c] = @ \o Message("number")]
               ELSE child' = [child EXCEPT ![c] = "gone"] /\ UNCHANGED <<left, down>>
    BY <1>4 DEF ChildHears, ChildGoes
  <2>2. child[c] = "want"
    BY <1>4 DEF ChildHears
  <2>3. /\ child'[c] = "PEERS" => left'[c] <= Cardinality(Peers)
        /\ child'[c] = "BLOCK" => left'[c] <= Length
    BY <2>1, LengthType, PeersCount
  <2>4. Text(b) \in {"", "garbled", up[c][1].of} /\ 1 \in DOMAIN up[c]
    BY <1>2, <2>1, TextFrom
  <2>5. ~(pc[c] = "peers" /\ remain[c] > 0)
    BY <2>2 DEF Talks, Stores
  <2>6. ASSUME pc[c] = "answer" PROVE Expects(c)'
    <3>1. Expects(c)
      BY <2>6 DEF Talks
    <3>2. Text(b) \notin {"BLOCK", "PEERS"}
      BY <2>4, <3>1, NotAskedFor DEF Expects
    <3>3. child'[c] = "gone" /\ down'[c] = down[c]
      BY <2>1, <3>2
    <3>4. \A i \in DOMAIN up'[c] : up'[c][i].of \in Cids
      BY <1>2, <2>1, <3>1 DEF Expects
    <3>5. QED
      BY <3>1, <3>3, <3>4 DEF Expects
  <2>7. ASSUME pc[c] = "count" PROVE Counts(c)'
    <3>1. Counts(c)
      BY <2>7 DEF Talks
    <3>2. \A i \in DOMAIN up'[c] : up'[c][i].of # "BLOCK"
      <4>1. \A i \in DOMAIN up[c] : up[c][i].of # "BLOCK"
        BY <3>1 DEF Counts
      <4>2. \A i \in DOMAIN up'[c] : \E j \in DOMAIN up[c] : up'[c][i] = up[c][j]
        BY <1>2, <2>1
      <4>3. QED
        BY <4>1, <4>2
    <3>3. Text(b) # "BLOCK"
      BY <2>4, <3>1 DEF Counts
    <3>4. CASE Text(b) = "PEERS"
      <4>1. child'[c] = "PEERS" /\ down'[c] = down[c] \o Message("number")
        BY <2>1, <3>4
      <4>2. \A i \in DOMAIN down[c] : Zeros(down[c][i])
        BY <2>2, <3>1 DEF Counts
      <4>3. ASSUME NEW i \in DOMAIN down'[c], Opens(down'[c][i]), NEW j \in 1..(i - 1)
            PROVE  Zeros(down'[c][j])
        <5> DEFINE s == down[c]
                   t == Message("number")
        <5>1. s \in Seq(Units) /\ t \in Seq(Units)
          BY StreamType, UnitsOf DEF Texts
        <5>2. DOMAIN t = 1..3 /\ \A k \in 1..3 : t[k].part = k
          BY MessageParts
        <5> HIDE DEF s, t
        <5>3. /\ \A k \in DOMAIN s : (s \o t)[k] = s[k]
              /\ \/ i \in DOMAIN s
                 \/ i - Len(s) \in DOMAIN t /\ (s \o t)[i] = t[i - Len(s)]
          BY <4>1, <4>3, <5>1, Joined DEF s, t
        <5>4. j \in DOMAIN s
          <6>1. DOMAIN s = 1..Len(s) /\ Len(s) \in Nat
            BY <5>1
          <6>2. CASE i \in DOMAIN s
            BY <6>1, <6>2
          <6>3. CASE i - Len(s) \in DOMAIN t /\ (s \o t)[i] = t[i - Len(s)]
            <7>1. (s \o t)[i].part = 1
              BY <4>1, <4>3 DEF Opens, s, t
            <7>2. t[i - Len(s)].part = i - Len(s)
              BY <5>2, <6>3
            <7>3. i - Len(s) = 1
              BY <6>3, <7>1, <7>2
            <7>4. i \in Int
              BY <4>1, <4>3, <5>1, Joined DEF s, t
            <7>5. QED
              BY <6>1, <7>3, <7>4
          <6>4. QED
            BY <5>3, <6>2, <6>3
        <5>5. QED
          BY <4>1, <4>2, <5>3, <5>4 DEF s, t
      <4>4. QED
        BY <1>1, <3>1, <3>2, <4>1, <4>3 DEF Counts
    <3>5. CASE Text(b) \notin {"BLOCK", "PEERS"}
      <4>1. child'[c] = "gone" /\ down'[c] = down[c]
        BY <2>1, <3>5
      <4>2. QED
        BY <1>1, <3>1, <3>2, <4>1 DEF Counts
    <3>6. QED
      BY <3>3, <3>4, <3>5
  <2>8. QED
    BY <1>1, <2>3, <2>5, <2>6, <2>7 DEF Talks, Expects
<1>5. CASE ChildSends(c)
  <2>1. /\ child[c] \in {"BLOCK", "PEERS"} /\ UNCHANGED <<child, up>>
        /\ left'[c] = left[c] - 1 /\ left[c] > 0
        /\ child[c] = "PEERS" =>
             down'[c] = down[c] \o Message(Listed[Cardinality(Peers) - left[c] + 1])
    BY <1>5 DEF ChildSends
  <2>2. left[c] \in Nat /\ left'[c] <= left[c]
    BY <2>1, TypeParts
  <2>3. /\ child[c] = "PEERS" => left'[c] <= Cardinality(Peers)
        /\ child[c] = "BLOCK" => left'[c] <= Length
    BY <2>1, <2>2, LengthType, PeersCount DEF Talks
  <2>4. pc[c] # "answer"
    BY <2>1 DEF Talks, Expects
  <2>5. ASSUME child[c] = "PEERS"
        PROVE  \A i \in DOMAIN down'[c] :
                 \/ i \in DOMAIN down[c] /\ \A j \in 1..i : down'[c][j] = down[c][j]
                 \/ ~Opens(down'[c][i])
    <3> DEFINE s == down[c]
               n == Cardinality(Peers) - left[c] + 1
               t == Message(Listed[n])
    <3>1. Listed[n] \in Peers
      <4>1. n \in 1..Cardinality(Peers)
        BY <2>1, <2>2, <2>5, PeersCount DEF Talks
      <4>2. QED
        BY <4>1, ListedType
    <3> HIDE DEF n
    <3>2. s \in Seq(Units) /\ t \in Seq(Units)
      BY <3>1, StreamType, UnitsOf DEF Texts
    <3>3. \A k \in DOMAIN t : t[k].of \in Peers
      BY <3>1, MessageParts
    <3>4. down'[c] = s \o t
      BY <2>1, <2>5 DEF n
    <3> HIDE DEF s, t
    <3>5. /\ \A k \in DOMAIN s : (s \o t)[k] = s[k]
          /\ \A i \in DOMAIN (s \o t) :
               \/ i \in DOMAIN s
               \/ i - Len(s) \in DOMAIN t /\ (s \o t)[i] = t[i - Len(s)]
      BY <3>2, Joined
    <3>6. \A i \in DOMAIN s : \A j \in 1..i : j \in DOMAIN s
      BY <3>2
    <3>7. QED
      BY <3>3, <3>4, <3>5, <3>6 DEF Opens, s
  <2>6. ASSUME pc[c] = "count" PROVE Counts(c)'
    <3>1. Counts(c) /\ child[c] = "PEERS"
      BY <2>1, <2>6 DEF Talks, Counts
    <3>2. ASSUME NEW i \in DOMAIN down'[c], Opens(down'[c][i]), NEW j \in 1..(i - 1)
          PROVE  Zeros(down'[c][j])
      <4>1. i \in DOMAIN down[c] /\ \A k \in 1..i : down'[c][k] = down[c][k]
        BY <2>5, <3>1, <3>2
      <4>2. i \in 1..i /\ j \in 1..i
        <5>1. down[c] \in Seq(Units)
          BY StreamType
        <5>2. i \in Nat \ {0}
          BY <4>1, <5>1
        <5>3. QED
          BY <5>2
      <4>3. QED
        BY <3>1, <3>2, <4>1, <4>2 DEF Counts
    <3>3. QED
      BY <1>1, <2>1, <3>1, <3>2 DEF Counts
  <2>7. ASSUME pc[c] = "peers" /\ remain[c] > 0 PROVE Stores(c)'
    <3>1. Stores(c) /\ child[c] = "PEERS"
      BY <2>1, <2>7 DEF Talks, Stores
    <3>2. \A i \in DOMAIN down'[c] : ~Opens(down'[c][i])
      <4>1. ASSUME NEW i \in DOMAIN down[c], \A j \in 1..i : down'[c][j] = down[c][j]
            PROVE  ~Opens(down'[c][i])
        <5>1. down[c] \in Seq(Units)
          BY StreamType
        <5>2. i \in 1..i
          BY <5>1
        <5>3. QED
          BY <3>1, <4>1, <5>2 DEF Stores
      <4>2. QED
        BY <2>5, <3>1, <4>1
    <3>3. QED
      BY <2>1, <3>1, <3>2 DEF Stores
  <2>8. QED
    BY <1>1, <2>1, <2>3, <2>4, <2>6, <2>7 DEF Talks
<1>6. CASE ChildEnds(c)
  <2>1. /\ child'[c] = "gone" /\ UNCHANGED <<left, up, down>>
        /\ child[c] \in {"BLOCK", "PEERS"} \/ pc[c] = "done"
    BY <1>6 DEF ChildEnds, ChildGoes
  <2>2. pc[c] # "answer"
    BY <2>1 DEF Talks, Expects
  <2>3. pc[c] = "count" => Counts(c)'
    BY <1>1, <2>1 DEF Talks, Counts
  <2>4. pc[c] = "peers" /\ remain[c] > 0 => Stores(c)'
    BY <1>1, <2>1 DEF Talks, Stores
  <2>5. QED
    BY <1>1, <2>1, <2>2, <2>3, <2>4 DEF Talks
<1>7. QED
  BY <1>3, <1>4, <1>5, <1>6 DEF Child, ChildBegins

LEMMA TalksParent ==
    ASSUME TypeOK, Queued, Accept \/ ServerCrashes, NEW c \in Clients, Talks(c)
    PROVE  Talks(c)'
<1> USE TypedShape DEF Shape
<1>1. UNCHANGED <<up, down, left, pc, remain>> /\ parent = "listening"
  BY DEF Accept, ServerCrashes, client
<1>2. CASE child'[c] = child[c]
  BY <1>1, <1>2, TalksKept
<1>3. CASE Accept /\ child'[c] # child[c]
  <2>1. c = Head(backlog) /\ child'[c] = "cid" /\ backlog # << >>
    BY <1>3 DEF Accept
  <2>2. child[c] = "none" /\ pc[c] # "idle"
    <3>1. 1 \in DOMAIN backlog /\ backlog[1] = c
      BY <2>1
    <3>2. QED
      BY <3>1 DEF Queued
  <2>3. pc[c] # "count" /\ ~(pc[c] = "peers" /\ remain[c] > 0)
    BY <1>1, <2>2 DEF Talks, Counts, Stores
  <2>4. pc[c] = "answer" => Expects(c)'
    BY <1>1, <2>1, <2>2 DEF Talks, Expects
  <2>5. QED
    BY <1>1, <2>1, <2>2, <2>3, <2>4 DEF Talks
<1>4. CASE ServerCrashes
  <2>1. parent' = "gone" /\ child'[c] = IF child[c] = "none" THEN "none" ELSE "gone"
    BY <1>4 DEF ServerCrashes
  <2>2. pc[c] = "answer" => Expects(c)'
    BY <1>1, <2>1 DEF Talks, Expects
  <2>3. pc[c] = "count" => Counts(c)'
    BY <1>1, <2>1 DEF Talks, Counts
  <2>4. pc[c] = "peers" /\ remain[c] > 0 => Stores(c)'
    BY <1>1, <2>1 DEF Talks, Stores
  <2>5. QED
    BY <1>1, <2>1, <2>2, <2>3, <2>4 DEF Talks
<1>5. QED
  BY <1>2, <1>3, <1>4

LEMMA TypedInit == Init => Typed
<1> SUFFICES ASSUME Init PROVE Typed
  OBVIOUS
<1>1. TypeOK
  <2>1. held \in [Cids -> {"none", "whole", "bad", "missing"}] /\ fds \in Nat
    <3>1. Held \subseteq {"none", "whole", "bad", "missing"} /\ Limits \subseteq Nat
      BY ExchangeAssumption
    <3>2. QED
      BY <3>1 DEF Init
  <2>2. << >> \in Seq(Units) /\ << >> \in Seq(Clients)
    BY EmptySeq
  <2>3. 0 \in 0..MaxFaults
    <3>1. MaxFaults \in Nat
      BY ExchangeAssumption
    <3>2. QED
      BY <3>1
  <2>4. /\ child = [c \in Clients |-> "none"] /\ buffer = [c \in Clients |-> ""]
        /\ pc = [c \in Clients |-> "idle"] /\ result = [c \in Clients |-> "none"]
    BY DEF Init
  <2>5. /\ up = [c \in Clients |-> << >>] /\ down = [c \in Clients |-> << >>]
        /\ got = [c \in Clients |-> << >>] /\ learnt = [c \in Clients |-> {}]
    BY DEF Init
  <2>6. /\ parent = "listening" /\ backlog = << >> /\ accepted = << >> /\ faults = 0
        /\ asked \in [Clients -> Cids]
    BY DEF Init
  <2>7. /\ up \in [Clients -> Seq(Units)] /\ down \in [Clients -> Seq(Units)]
        /\ got \in [Clients -> Seq(Units)]
        /\ learnt \in [Clients -> SUBSET (Peers \cup {"", "garbled"})]
    BY <2>2, <2>5
  <2>8. buffer \in [Clients -> Strings]
    BY <2>4 DEF Strings
  <2>9. /\ child \in [Clients -> {"none", "cid", "get", "verify", "remove", "want",
                               "BLOCK", "PEERS", "gone"}]
        /\ pc \in [Clients -> {"idle", "answer", "size", "data", "count", "peers", "done"}]
        /\ result \in [Clients -> {"none", "refused", "registered", "failed", "peers", "killed"}]
    BY <2>4
  <2>10. left \in [Clients -> Nat] /\ remain \in [Clients -> Int]
    <3>1. left = [c \in Clients |-> 0] /\ remain = [c \in Clients |-> 0]
      BY DEF Init
    <3>2. QED
      BY <3>1
  <2>11. /\ parent \in {"listening", "gone"} /\ faults \in 0..MaxFaults
         /\ backlog \in Seq(Clients) /\ accepted \in Seq(Clients)
    BY <2>2, <2>3, <2>6
  <2>12. QED
    BY <2>1, <2>6, <2>7, <2>8, <2>9, <2>10, <2>11 DEF TypeOK
<1>2. Queued
  <2>1. backlog = << >> /\ \A c \in Clients : child[c] = "none"
    BY DEF Init
  <2>2. QED
    BY <2>1 DEF Queued
<1>3. \A c \in Clients : Talks(c)
  BY DEF Init, Talks
<1>4. QED
  BY <1>1, <1>2, <1>3 DEF Typed

LEMMA TypedStep == Typed /\ [Next]_vars => Typed'
<1> SUFFICES ASSUME Typed, [Next]_vars PROVE Typed'
  OBVIOUS
<1>1. TypeOK /\ Queued /\ Shape /\ \A c \in Clients : Talks(c)
  BY TypedShape DEF Typed
<1>2. Queued'
  <2>1. \A c \in Clients : pc[c] = "idle" => child[c] = "none"
    BY <1>1 DEF Talks
  <2>2. QED
    BY <1>1, <2>1, QueuedKept
<1>3. TypeOK'
  <2>1. CASE UNCHANGED vars
    BY <1>1, <2>1 DEF TypeOK, vars
  <2>2. CASE Accept \/ ServerCrashes
    BY <1>1, <2>2, TypeParent
  <2>3. ASSUME NEW c \in Clients, Client(c) \/ Child(c) \/ ClientKilled(c)
        PROVE  TypeOK'
    BY <1>1, <2>3, TypeClient, TypeChild
  <2>4. QED
    BY <2>1, <2>2, <2>3 DEF Next, Finished
<1>4. ASSUME NEW c \in Clients PROVE Talks(c)'
  <2>1. ASSUME NEW d \in Clients, Client(d) \/ Child(d) \/ ClientKilled(d)
        PROVE  Talks(c)'
    <3>1. CASE d # c
      BY <1>1, <1>4, <2>1, <3>1, TalksOthers
    <3>2. CASE d = c
      BY <1>1, <1>4, <2>1, <3>2, TalksConnect, TalksAnswer, TalksCount, TalksPeer,
         TalksElse, TalksChild DEF Client
    <3>3. QED
      BY <3>1, <3>2
  <2>2. CASE Accept \/ ServerCrashes
    BY <1>1, <1>4, <2>2, TalksParent
  <2>3. CASE UNCHANGED vars
    BY <1>1, <1>4, <2>3, TalksKept DEF vars
  <2>4. QED
    BY <2>1, <2>2, <2>3 DEF Next, Finished
<1>5. QED
  BY <1>2, <1>3, <1>4 DEF Typed

\* Whatever goes wrong, short recvs included, the streams between a client
\* and its child keep to the protocol so far that what the client takes for
\* an address is one, or nothing, or cut (network.c:53-72), and that the
\* child never sends past the block or the list (tnfs-server.c:20-77).
THEOREM ExchangeTypeCorrect == Spec => []TypeOK
<1>1. Init => Typed
  BY TypedInit
<1>2. Typed /\ [Next]_vars => Typed'
  BY TypedStep
<1>3. Typed => TypeOK
  BY DEF Typed
<1>4. QED
  BY <1>1, <1>2, <1>3, PTL DEF Spec
-----------------------------------------------------------------------------
(* The addresses that a child sends, and what its client makes of them.    *)

\* The messages of the addresses after the first a, up to the bth.
Addresses(s, a, b) ==
    /\ s \in Seq(Units) /\ Len(s) = 3 * (b - a)
    /\ \A j \in a..(b - 1), p \in 1..3 :
         s[3 * (j - a) + p] = [of |-> Listed[j + 1], part |-> p]

First(g) == {Listed[i] : i \in 1..g}

LEMMA FirstPeers ==
    /\ First(0) = {} /\ First(Cardinality(Peers)) = Peers
    /\ \A g \in 0..Cardinality(Peers) : First(g) \subseteq Peers
    /\ \A g \in Nat : First(g) \cup {Listed[g + 1]} = First(g + 1)
<1>1. First(0) = {} /\ First(Cardinality(Peers)) = Peers
  BY ListedType DEF First
<1>2. \A g \in 0..Cardinality(Peers) : First(g) \subseteq Peers
  <2>1. \A g \in 0..Cardinality(Peers) : \A i \in 1..g : i \in 1..Cardinality(Peers)
    BY PeersCount
  <2>2. QED
    BY <2>1, ListedType DEF First
<1>3. \A g \in Nat : First(g) \cup {Listed[g + 1]} = First(g + 1)
  <2>1. \A g \in Nat : 1..(g + 1) = 1..g \cup {g + 1}
    OBVIOUS
  <2>2. QED
    BY <2>1 DEF First
<1>4. QED
  BY <1>1, <1>2, <1>3

LEMMA NoAddresses ==
    /\ \A a \in Nat : Addresses(<< >>, a, a)
    /\ \A s : \A a \in Nat, b \in Nat : Addresses(s, a, b) => a <= b /\ (s = << >> <=> a = b)
<1>1. \A a \in Nat : Addresses(<< >>, a, a)
  BY EmptySeq DEF Addresses
<1>2. ASSUME NEW s, NEW a \in Nat, NEW b \in Nat, Addresses(s, a, b)
      PROVE  a <= b /\ (s = << >> <=> a = b)
  <2>1. s \in Seq(Units) /\ Len(s) = 3 * (b - a)
    BY <1>2 DEF Addresses
  <2>2. Len(s) \in Nat /\ (s = << >> <=> Len(s) = 0)
    BY <2>1, EmptySeq
  <2>3. QED
    BY <2>1, <2>2
<1>3. QED
  BY <1>1, <1>2

LEMMA OneMore ==
    ASSUME NEW a \in Nat, NEW b \in Nat, b < Cardinality(Peers), NEW s, Addresses(s, a, b)
    PROVE  Addresses(s \o Message(Listed[b + 1]), a, b + 1)
<1> DEFINE t == Message(Listed[b + 1])
           u == s \o t
<1>1. a <= b
  BY NoAddresses
<1>2. Listed[b + 1] \in Peers
  <2>1. b + 1 \in 1..Cardinality(Peers)
    BY PeersCount
  <2>2. QED
    BY <2>1, ListedType
<1>3. s \in Seq(Units) /\ t \in Seq(Units) /\ Len(s) = 3 * (b - a) /\ Len(t) = 3
  BY <1>2, UnitsOf, MessageParts DEF Addresses, Texts
<1>4. \A p \in 1..3 : t[p] = [of |-> Listed[b + 1], part |-> p]
  BY DEF Message, SIZE
<1> HIDE DEF t
<1>5. /\ u \in Seq(Units) /\ Len(u) = Len(s) + 3
      /\ \A i \in 1..(Len(s) + 3) : u[i] = IF i <= Len(s) THEN s[i] ELSE t[i - Len(s)]
  <2>1. /\ s \o t \in Seq(Units) /\ Len(s \o t) = Len(s) + Len(t)
        /\ \A i \in 1..Len(s) + Len(t) :
             (s \o t)[i] = IF i <= Len(s) THEN s[i] ELSE t[i - Len(s)]
    BY <1>3, ConcatProperties
  <2>2. Len(s) + Len(t) = Len(s) + 3
    BY <1>3
  <2>3. QED
    BY <2>1, <2>2
<1> HIDE DEF u
<1>6. Len(u) = 3 * ((b + 1) - a)
  BY <1>3, <1>5
<1>7. ASSUME NEW j \in a..((b + 1) - 1), NEW p \in 1..3
      PROVE  u[3 * (j - a) + p] = [of |-> Listed[j + 1], part |-> p]
  <2>1. 3 * (j - a) + p \in 1..(Len(s) + 3)
    BY <1>1, <1>3
  <2>2. CASE j \in a..(b - 1)
    <3>1. 3 * (j - a) + p <= Len(s)
      BY <1>3, <2>2
    <3>2. u[3 * (j - a) + p] = s[3 * (j - a) + p]
      BY <1>5, <2>1, <3>1
    <3>3. QED
      BY <2>2, <3>2 DEF Addresses
  <2>3. CASE j = b
    <3>1. (3 * (j - a) + p) - Len(s) = p /\ ~(3 * (j - a) + p <= Len(s))
      BY <1>3, <2>3
    <3>2. u[3 * (j - a) + p] = t[p]
      BY <1>5, <2>1, <3>1
    <3>3. QED
      BY <1>4, <2>3, <3>2
  <2>4. j \in a..(b - 1) \/ j = b
    OBVIOUS
  <2>5. QED
    BY <2>2, <2>3, <2>4
<1>8. QED
  BY <1>5, <1>6, <1>7 DEF Addresses, u, t

\* A recv that is not short takes the next one, and leaves the rest.
LEMMA ReceivesAddress ==
    ASSUME "short" \notin Faults, NEW a \in Nat, NEW n \in Nat, NEW s,
           Addresses(s, a, n), NEW b \in Prefixes(s), Receives(s, b)
    PROVE  a < n /\ Text(b) = Listed[a + 1] /\ Addresses(After(s, b), a + 1, n)
<1>1. s \in Seq(Units) /\ Len(s) = 3 * (n - a) /\ s # << >>
  BY DEF Addresses, Receives
<1>2. a < n
  BY <1>1, NoAddresses
<1>3. Len(s) >= 3
  BY <1>1, <1>2
<1>4. /\ b \in Seq(Units) /\ b # << >> /\ Len(b) \in 1..Len(s)
      /\ \A i \in DOMAIN b : b[i] = s[i]
      /\ After(s, b) \in Seq(Units) /\ Len(After(s, b)) = Len(s) - Len(b)
      /\ \A i \in DOMAIN After(s, b) : After(s, b)[i] = s[i + Len(b)]
  <2>1. s \in Seq(Units)
    BY <1>1
  <2>2. QED
    BY <2>1, Cut
<1>5. Len(b) = 3
  <2>1. PICK k \in 1..3 : k <= Len(s) /\ b = SubSeq(s, 1, k) /\ ~(k < 3 /\ k < Len(s))
    BY DEF Receives, SIZE
  <2>2. k = 3
    BY <1>1, <1>3, <2>1
  <2>3. QED
    BY <1>1, <1>3, <2>1, <2>2
<1>6. b[1] = [of |-> Listed[a + 1], part |-> 1]
  <2>1. a \in a..(n - 1) /\ 1 \in 1..3 /\ 3 * (a - a) + 1 = 1
    BY <1>2
  <2>2. s[1] = [of |-> Listed[a + 1], part |-> 1]
    BY <2>1 DEF Addresses
  <2>3. 1 \in DOMAIN b
    BY <1>4, <1>5
  <2>4. QED
    BY <1>4, <2>2, <2>3
<1>7. Text(b) = Listed[a + 1]
  <2>1. ~Zeros(b[1]) /\ b[1].part = 1 /\ b[1].of = Listed[a + 1]
    BY <1>6 DEF Zeros, SIZE
  <2>2. QED
    <3>1. b # << >> /\ Len(b) > 1
      BY <1>4, <1>5
    <3>2. QED
      BY <2>1, <3>1 DEF Text
<1> DEFINE r == After(s, b)
<1>8. r \in Seq(Units) /\ Len(r) = 3 * (n - (a + 1)) /\ \A i \in 1..Len(r) : r[i] = s[i + 3]
  BY <1>1, <1>4, <1>5
<1> HIDE DEF r
<1>9. ASSUME NEW j \in (a + 1)..(n - 1), NEW p \in 1..3
      PROVE  r[3 * (j - (a + 1)) + p] = [of |-> Listed[j + 1], part |-> p]
  <2>1. 3 * (j - (a + 1)) + p \in 1..Len(r)
    BY <1>8
  <2>2. (3 * (j - (a + 1)) + p) + 3 = 3 * (j - a) + p /\ j \in a..(n - 1)
    OBVIOUS
  <2>3. s[3 * (j - a) + p] = [of |-> Listed[j + 1], part |-> p]
    BY <2>2 DEF Addresses
  <2>4. QED
    BY <1>8, <2>1, <2>2, <2>3
<1>10. QED
  BY <1>2, <1>7, <1>8, <1>9 DEF Addresses, r
-----------------------------------------------------------------------------
(* Where a client that asks for peers is.                                  *)

Serves(c) == child[c] \in {"PEERS", "gone"} /\ left[c] \in 0..Cardinality(Peers)

Sent(c) == Cardinality(Peers) - left[c]

\* It waits for the number, of which it has not read anything.
Requests(c) ==
    \/ child[c] = "want" /\ up[c] = Message("PEERS") /\ down[c] = << >>
    \/ (child[c] = "gone" \/ Closed(c)) /\ down[c] = << >>
    \/ Serves(c) /\ \E s : Addresses(s, 0, Sent(c)) /\ down[c] = Message("number") \o s

\* It has stored the first g addresses, and those that come are the next.
Holds(c, g) ==
    /\ learnt[c] = First(g) /\ remain[c] = Cardinality(Peers) - g
    /\ Addresses(down[c], g, Sent(c))

Learns(c) ==
    \/ Closed(c) /\ down[c] = << >> /\ learnt[c] \subseteq Peers \cup {""}
    \/ Serves(c) /\ \E g \in 0..Sent(c) : Holds(c, g)

Learnt(c) ==
    /\ learnt[c] \subseteq IF Closed(c) THEN Peers \cup {""} ELSE Peers
    /\ result[c] = "peers" => learnt[c] = Peers \/ Closed(c)

Listens(c) ==
    /\ pc[c] \in {"idle", "answer", "size", "data", "count"} => learnt[c] = {}
    /\ pc[c] = "count" => Requests(c)
    /\ pc[c] = "peers" => Learns(c)
    /\ pc[c] = "done" => Learnt(c)
    /\ pc[c] # "done" => result[c] = "none"

Full == Typed /\ Whole /\ \A c \in Clients : Listens(c)

\* What a client has stored is sound wherever it is.
LEMMA AllLearnt ==
    ASSUME TypeOK, NEW c \in Clients, Listens(c)
    PROVE  Learnt(c)
<1>1. CASE pc[c] = "done"
  BY <1>1 DEF Listens
<1>2. CASE pc[c] = "peers"
  <2>1. result[c] # "peers"
    BY <1>2 DEF Listens
  <2>2. CASE Closed(c) /\ learnt[c] \subseteq Peers \cup {""}
    BY <2>1, <2>2 DEF Learnt
  <2>3. ASSUME Serves(c), NEW g \in 0..Sent(c), Holds(c, g) PROVE Learnt(c)
    <3>1. g \in 0..Cardinality(Peers)
      BY <2>3, PeersCount DEF Serves, Sent
    <3>2. learnt[c] \subseteq Peers
      BY <2>3, <3>1, FirstPeers DEF Holds
    <3>3. learnt[c] \subseteq Peers \cup {""}
      BY <3>2
    <3>4. QED
      BY <2>1, <3>2, <3>3 DEF Learnt
  <2>4. QED
    BY <1>2, <2>2, <2>3 DEF Listens, Learns
<1>3. CASE pc[c] \in {"idle", "answer", "size", "data", "count"}
  <2>1. learnt[c] = {} /\ result[c] # "peers"
    BY <1>3 DEF Listens
  <2>2. QED
    BY <2>1 DEF Learnt
<1>4. pc[c] \in {"idle", "answer", "size", "data", "count", "peers", "done"}
  BY DEF TypeOK
<1>5. QED
  BY <1>1, <1>2, <1>3, <1>4

\* A client that stops changes nothing of it.
LEMMA Stops ==
    ASSUME TypeOK, NEW c \in Clients, Listens(c), Closed(c) => Closed(c)',
           pc'[c] = "done", learnt'[c] = learnt[c],
           result'[c] = "peers" => learnt[c] = Peers \/ Closed(c)
    PROVE  Listens(c)'
<1>1. learnt[c] \subseteq IF Closed(c) THEN Peers \cup {""} ELSE Peers
  BY AllLearnt DEF Learnt
<1>2. learnt[c] \subseteq Peers => learnt[c] \subseteq Peers \cup {""}
  OBVIOUS
<1>3. Learnt(c)'
  <2>1. CASE Closed(c)
    BY <1>1, <2>1 DEF Learnt
  <2>2. CASE ~Closed(c)
    BY <1>1, <1>2, <2>2 DEF Learnt
  <2>3. QED
    BY <2>1, <2>2
<1>4. QED
  BY <1>3 DEF Listens

LEMMA ListensKept ==
    ASSUME TypeOK, NEW c \in Clients, Listens(c), Closed(c) => Closed(c)',
           pc'[c] = pc[c], child'[c] = child[c], up'[c] = up[c], down'[c] = down[c],
           left'[c] = left[c], remain'[c] = remain[c], learnt'[c] = learnt[c],
           result'[c] = result[c]
    PROVE  Listens(c)'
<1>1. pc[c] = "count" => Requests(c)'
  BY DEF Listens, Requests, Serves, Sent
<1>2. pc[c] = "peers" => Learns(c)'
  BY DEF Listens, Learns, Serves, Sent, Holds
<1>3. CASE pc[c] = "done"
  <2>1. result[c] = "peers" => learnt[c] = Peers \/ Closed(c)
    BY <1>3 DEF Listens, Learnt
  <2>2. QED
    BY <1>3, <2>1, Stops
<1>4. CASE pc[c] # "done"
  BY <1>1, <1>2, <1>4 DEF Listens
<1>5. QED
  BY <1>3, <1>4

LEMMA ListensOthers ==
    ASSUME TypeOK, NEW d \in Clients, Client(d) \/ Child(d) \/ ClientKilled(d),
           NEW c \in Clients, c # d, Listens(c), Closed(c) => Closed(c)'
    PROVE  Listens(c)'
<1> USE TypedShape DEF Shape
<1>0. DOMAIN learnt = Clients
  BY DEF TypeOK
<1>1. CASE Connect(d)
  BY <1>0, <1>1, ListensKept DEF Connect, Goto, Done
<1>2. CASE ReceiveAnswer(d)
  BY <1>0, <1>2, ListensKept DEF ReceiveAnswer, AtEnd, Reset, Goto, Done, server
<1>3. CASE ReceiveSize(d) \/ ReceiveCount(d)
  BY <1>0, <1>3, ListensKept DEF ReceiveSize, ReceiveCount, ReceiveNumber, AtEnd, Reset,
                                 Goto, Done, server
<1>4. CASE ReceiveData(d)
  BY <1>0, <1>4, ListensKept DEF ReceiveData, server
<1>5. CASE Register(d) \/ EndPeers(d) \/ ClientKilled(d)
  BY <1>0, <1>5, ListensKept DEF Register, EndPeers, ClientKilled, AtEnd, Goto, Done, server
<1>6. CASE ReceivePeer(d)
  BY <1>0, <1>6, ListensKept DEF ReceivePeer, AtEnd, Reset, Goto, Done, server
<1>7. CASE ChildBegins(d)
  BY <1>0, <1>7, ListensKept
     DEF ChildBegins, ChildReceives, ChildLooksUp, ChildVerifies, ChildRemoves,
         ChildGoes, Answer, client
<1>8. CASE ChildHears(d)
  BY <1>0, <1>8, ListensKept DEF ChildHears, ChildGoes, client
<1>9. CASE ChildSends(d) \/ ChildEnds(d)
  BY <1>0, <1>9, ListensKept DEF ChildSends, ChildEnds, ChildGoes, client
<1>10. QED
  BY <1>1, <1>2, <1>3, <1>4, <1>5, <1>6, <1>7, <1>8, <1>9 DEF Client, Child, ChildBegins

\* The client's own steps.
LEMMA ListensAnswer ==
    ASSUME "short" \notin Faults, TypeOK, NEW c \in Clients, Sound(c), Listens(c),
           ReceiveAnswer(c), Closed(c) => Closed(c)'
    PROVE  Listens(c)'
<1> USE TypedShape DEF Shape
<1>1. /\ pc[c] = "answer" /\ Waits(c) /\ learnt[c] = {} /\ result[c] = "none"
      /\ UNCHANGED <<child, left, learnt>>
  BY DEF ReceiveAnswer, Sound, Listens, server
<1>2. CASE pc'[c] = "size" /\ UNCHANGED result
  BY <1>1, <1>2 DEF Listens
<1>3. CASE pc'[c] = "count" /\ UNCHANGED result /\ Requests(c)'
  BY <1>1, <1>3 DEF Listens
<1>4. ASSUME NEW b, Receives(down[c], b), down' = [down EXCEPT ![c] = After(@, b)],
             up' = [up EXCEPT ![c] = @ \o Message("PEERS")]
      PROVE  Requests(c)'
  <2>1. down[c] \in {Message("Y"), Message("N")}
    BY <1>1, <1>4, NothingReceived DEF Waits
  <2>2. down'[c] = << >>
    BY <1>4, <2>1, ReceivesOnly
  <2>3. \/ child[c] = "want" /\ up[c] = << >>
        \/ child[c] = "gone"
    BY <1>1, <1>4, NothingReceived DEF Waits
  <2>4. QED
    BY <1>1, <1>4, <2>2, <2>3, FirstMessage DEF Requests
<1>5. ASSUME NEW b, Receives(down[c], b), down' = [down EXCEPT ![c] = After(@, b)],
             Goto(c, IF Text(b) = "Y" THEN "size" ELSE "count"),
             up' = [up EXCEPT ![c] = @ \o Message(IF Text(b) = "Y" THEN "BLOCK" ELSE "PEERS")],
             UNCHANGED result
      PROVE  Listens(c)'
  <2>1. CASE Text(b) = "Y"
    BY <1>2, <1>5, <2>1 DEF Goto
  <2>2. CASE Text(b) # "Y"
    <3>1. Requests(c)'
      BY <1>4, <1>5, <2>2
    <3>2. pc'[c] = "count"
      BY <1>5, <2>2 DEF Goto
    <3>3. QED
      BY <1>3, <1>5, <3>1, <3>2
  <2>3. QED
    BY <2>1, <2>2
<1>6. CASE AtEnd(c) /\ Goto(c, "count") /\ UNCHANGED result
  <2>1. Requests(c)'
    BY <1>6 DEF AtEnd, Requests
  <2>2. QED
    BY <1>3, <1>6, <2>1 DEF Goto
<1>7. CASE Done(c, "refused")
  <2>1. pc'[c] = "done" /\ result'[c] = "refused"
    <3>1. DOMAIN pc = Clients /\ DOMAIN result = Clients
      OBVIOUS
    <3>2. QED
      BY <1>7, <3>1 DEF Done, Goto
  <2>2. QED
    BY <1>1, <2>1, Stops
<1>8. QED
  BY <1>5, <1>6, <1>7 DEF ReceiveAnswer

LEMMA ListensCount ==
    ASSUME "short" \notin Faults, TypeOK, NEW c \in Clients, Listens(c), ReceiveCount(c),
           Closed(c) => Closed(c)'
    PROVE  Listens(c)'
<1> USE TypedShape DEF Shape
<1>1. /\ pc[c] = "count" /\ Requests(c) /\ learnt[c] = {} /\ result[c] = "none"
      /\ UNCHANGED <<child, left, learnt>>
  BY DEF ReceiveCount, ReceiveNumber, Listens, server
<1>2. CASE AtEnd(c) /\ Goto(c, "peers") /\ UNCHANGED <<remain, result>>
  <2>1. Learns(c)'
    BY <1>1, <1>2 DEF AtEnd, Learns
  <2>2. QED
    BY <1>1, <1>2, <2>1 DEF Listens, Goto
<1>3. CASE Reset(c) /\ Done(c, "failed") /\ UNCHANGED remain
  <2>1. pc'[c] = "done" /\ result'[c] = "failed"
    <3>1. DOMAIN pc = Clients /\ DOMAIN result = Clients
      OBVIOUS
    <3>2. QED
      BY <1>3, <3>1 DEF Done, Goto
  <2>2. QED
    BY <1>1, <2>1, Stops
<1>4. ASSUME NEW b \in Prefixes(down[c]), Receives(down[c], b),
             down' = [down EXCEPT ![c] = After(@, b)],
             NEW k \in Number(Text(b), Cardinality(Peers)), remain' = [remain EXCEPT ![c] = k],
             Goto(c, "peers"), UNCHANGED result
      PROVE  Listens(c)'
  <2>1. PICK s : /\ Serves(c) /\ Addresses(s, 0, Sent(c))
                 /\ down[c] = Message("number") \o s
    BY <1>1, <1>4, NothingReceived DEF Requests
  <2>2. s \in Seq(Units)
    BY <2>1 DEF Addresses
  <2>3. Text(b) = "number" /\ After(down[c], b) = s
    BY <1>4, <2>1, <2>2, ReceivesMessage
  <2>4. remain'[c] = Cardinality(Peers)
    <3>1. k = Cardinality(Peers)
      BY <1>4, <2>3 DEF Number
    <3>2. QED
      BY <1>4, <3>1
  <2>5. down'[c] = s
    BY <1>4, <2>3
  <2>6. Holds(c, 0)'
    <3>1. Cardinality(Peers) = Cardinality(Peers) - 0
      BY PeersCount
    <3>2. Sent(c)' = Sent(c)
      BY <1>1 DEF Sent
    <3>3. learnt'[c] = First(0)
      BY <1>1, FirstPeers
    <3>4. QED
      BY <2>1, <2>4, <2>5, <3>1, <3>2, <3>3 DEF Holds
  <2>7. Serves(c)' /\ 0 \in 0..Sent(c)'
    <3>1. Serves(c)' /\ Sent(c)' = Sent(c)
      BY <1>1, <2>1 DEF Serves, Sent
    <3>2. Sent(c) \in Nat
      BY <2>1, PeersCount DEF Serves, Sent
    <3>3. QED
      BY <3>1, <3>2
  <2>8. Learns(c)'
    BY <2>6, <2>7 DEF Learns
  <2>9. QED
    BY <1>1, <1>4, <2>8 DEF Listens, Goto
<1>5. QED
  BY <1>2, <1>3, <1>4 DEF ReceiveCount, ReceiveNumber

LEMMA ListensPeer ==
    ASSUME "short" \notin Faults, TypeOK, NEW c \in Clients, Listens(c), ReceivePeer(c),
           Closed(c) => Closed(c)'
    PROVE  Listens(c)'
<1> USE TypedShape DEF Shape
<1>1. /\ pc[c] = "peers" /\ Learns(c) /\ result[c] = "none"
      /\ UNCHANGED <<child, left>>
  BY DEF ReceivePeer, Listens, server
<1>2. DOMAIN learnt = Clients /\ remain \in [Clients -> Int]
  BY DEF TypeOK
<1>3. CASE /\ AtEnd(c) /\ learnt' = [learnt EXCEPT ![c] = @ \cup {""}]
           /\ UNCHANGED <<pc, result>>
  <2>1. learnt[c] \subseteq Peers \cup {""}
    BY <1>3, AllLearnt DEF AtEnd, Learnt
  <2>2. learnt'[c] \subseteq Peers \cup {""}
    BY <1>2, <1>3, <2>1
  <2>3. Learns(c)'
    BY <1>3, <2>2 DEF AtEnd, Learns
  <2>4. QED
    BY <1>1, <1>3, <2>3 DEF Listens
<1>4. CASE Reset(c) /\ Done(c, "failed") /\ UNCHANGED <<learnt, remain>>
  <2>1. pc'[c] = "done" /\ result'[c] = "failed"
    <3>1. DOMAIN pc = Clients /\ DOMAIN result = Clients
      OBVIOUS
    <3>2. QED
      BY <1>4, <3>1 DEF Done, Goto
  <2>2. QED
    BY <1>1, <1>4, <2>1, Stops
<1>5. ASSUME NEW b \in Prefixes(down[c]), Receives(down[c], b),
             down' = [down EXCEPT ![c] = After(@, b)],
             learnt' = [learnt EXCEPT ![c] = @ \cup {Text(b)}],
             remain' = [remain EXCEPT ![c] = @ - 1],
             UNCHANGED <<pc, result>>
      PROVE  Listens(c)'
  <2>1. PICK g \in 0..Sent(c) : Serves(c) /\ Holds(c, g)
    BY <1>1, <1>5, NothingReceived DEF Learns
  <2>2. Sent(c) \in Nat /\ Cardinality(Peers) \in Nat
    BY <2>1, PeersCount DEF Serves, Sent
  <2>3. g \in Nat
    BY <2>2
  <2>4. g < Sent(c) /\ Text(b) = Listed[g + 1] /\ Addresses(After(down[c], b), g + 1, Sent(c))
    BY <1>5, <2>1, <2>2, <2>3, ReceivesAddress DEF Holds
  <2>5. Sent(c)' = Sent(c) /\ Serves(c)'
    BY <1>1, <2>1 DEF Sent, Serves
  <2>6. learnt'[c] = First(g + 1)
    <3>1. learnt'[c] = First(g) \cup {Listed[g + 1]}
      BY <1>2, <1>5, <2>1, <2>4 DEF Holds
    <3>2. QED
      BY <2>3, <3>1, FirstPeers
  <2>7. remain'[c] = Cardinality(Peers) - (g + 1)
    <3>1. remain'[c] = remain[c] - 1
      BY <1>2, <1>5
    <3>2. QED
      BY <2>1, <2>2, <2>3, <3>1 DEF Holds
  <2>8. down'[c] = After(down[c], b)
    BY <1>5
  <2>9. Holds(c, g + 1)'
    BY <2>4, <2>5, <2>6, <2>7, <2>8 DEF Holds
  <2>10. g + 1 \in 0..Sent(c)'
    BY <2>2, <2>3, <2>4, <2>5
  <2>11. Learns(c)'
    BY <2>5, <2>9, <2>10 DEF Learns
  <2>12. QED
    BY <1>1, <1>5, <2>11 DEF Listens
<1>6. QED
  BY <1>3, <1>4, <1>5 DEF ReceivePeer

LEMMA ListensEnd ==
    ASSUME TypeOK, NEW c \in Clients, Listens(c), EndPeers(c), Closed(c) => Closed(c)'
    PROVE  Listens(c)'
<1> USE TypedShape DEF Shape
<1>1. /\ pc[c] = "peers" /\ Learns(c) /\ remain[c] = 0 /\ learnt' = learnt
      /\ pc'[c] = "done"
  BY DEF EndPeers, Listens, Done, Goto
<1>2. learnt[c] = Peers \/ Closed(c)
  <2>1. ASSUME Serves(c), NEW g \in 0..Sent(c), Holds(c, g) PROVE learnt[c] = Peers
    <3>1. g = Cardinality(Peers)
      BY <1>1, <2>1, PeersCount DEF Serves, Sent, Holds
    <3>2. QED
      BY <2>1, <3>1, FirstPeers DEF Holds
  <2>2. QED
    BY <1>1, <2>1 DEF Learns
<1>3. QED
  BY <1>1, <1>2, Stops

LEMMA ListensElse ==
    ASSUME TypeOK, NEW c \in Clients, Listens(c), Closed(c) => Closed(c)',
           \/ Connect(c) \/ ReceiveSize(c) \/ ReceiveData(c) \/ Register(c) \/ ClientKilled(c)
    PROVE  Listens(c)'
<1> USE TypedShape DEF Shape
<1>1. learnt' = learnt
  BY DEF Connect, ReceiveSize, ReceiveNumber, ReceiveData, Register, ClientKilled
<1>2. pc[c] # "done"
  BY DEF Connect, ReceiveSize, ReceiveNumber, ReceiveData, Register, ClientKilled
<1>3. \/ /\ pc'[c] \in {"answer", "data"} /\ result'[c] = result[c]
         /\ pc[c] \in {"idle", "size", "data"}
      \/ pc'[c] = "done" /\ result'[c] \in {"refused", "failed", "registered", "killed"}
  <2>1. CASE Connect(c)
    BY <2>1 DEF Connect, Goto, Done
  <2>2. CASE ReceiveSize(c)
    BY <2>2 DEF ReceiveSize, ReceiveNumber, Goto, Done
  <2>3. CASE ReceiveData(c)
    BY <2>3 DEF ReceiveData
  <2>4. CASE Register(c) \/ ClientKilled(c)
    BY <2>4 DEF Register, ClientKilled, Goto, Done
  <2>5. QED
    BY <2>1, <2>2, <2>3, <2>4
<1>4. QED
  BY <1>1, <1>2, <1>3, Stops DEF Listens

\* A message more from the child, in the stream or not yet counted.
LEMMA NextAddress ==
    ASSUME TypeOK, NEW c \in Clients, Serves(c), child[c] = "PEERS", ChildSends(c)
    PROVE  /\ Serves(c)' /\ Sent(c)' = Sent(c) + 1 /\ Sent(c) \in Nat
           /\ \A s : \A g \in Nat : Addresses(s, g, Sent(c)) =>
                Addresses(s \o Message(Listed[Sent(c) + 1]), g, Sent(c)')
           /\ Listed[Sent(c) + 1] \in Peers
           /\ down'[c] = down[c] \o Message(Listed[Sent(c) + 1])
<1> USE TypedShape DEF Shape
<1>1. /\ left[c] > 0 /\ left'[c] = left[c] - 1 /\ child' = child
      /\ down'[c] = down[c] \o Message(Listed[Cardinality(Peers) - left[c] + 1])
  BY DEF ChildSends
<1>2. left[c] \in 1..Cardinality(Peers) /\ Cardinality(Peers) \in Nat
  BY <1>1, PeersCount DEF Serves
<1>3. Serves(c)' /\ Sent(c)' = Sent(c) + 1
  BY <1>1, <1>2 DEF Serves, Sent
<1>4. Sent(c) \in Nat /\ Sent(c) < Cardinality(Peers) /\ Sent(c) + 1 \in 1..Cardinality(Peers)
  BY <1>2 DEF Sent
<1>5. \A s : \A g \in Nat : Addresses(s, g, Sent(c)) =>
        Addresses(s \o Message(Listed[Sent(c) + 1]), g, Sent(c)')
  BY <1>3, <1>4, OneMore
<1>6. Listed[Sent(c) + 1] \in Peers
  BY <1>4, ListedType
<1>7. down'[c] = down[c] \o Message(Listed[Sent(c) + 1])
  BY <1>1 DEF Sent
<1>8. QED
  BY <1>3, <1>4, <1>5, <1>6, <1>7

LEMMA ListensChild ==
    ASSUME "short" \notin Faults, TypeOK, Queued, NEW c \in Clients, Sound(c), Listens(c), Child(c)
    PROVE  Listens(c)'
<1> USE TypedShape DEF Shape
<1>1. /\ UNCHANGED <<pc, remain, learnt, result>>
      /\ child[c] \notin {"none", "gone"}
  BY DEF Child, ChildReceives, ChildLooksUp, ChildVerifies, ChildRemoves, ChildHears,
         ChildSends, ChildEnds, client
<1>2. ~Closed(c)
  BY <1>1, ClosedHasNoChild
<1>3. SUFFICES ASSUME pc[c] \in {"count", "peers"}
               PROVE  /\ pc[c] = "count" => Requests(c)'
                      /\ pc[c] = "peers" => Learns(c)'
  <2>1. CASE pc[c] = "done"
    <3>1. result[c] = "peers" => learnt[c] = Peers
      BY <1>2, <2>1 DEF Listens, Learnt
    <3>2. QED
      BY <1>1, <1>2, <2>1, <3>1, Stops
  <2>2. CASE pc[c] \notin {"count", "peers", "done"}
    BY <1>1, <2>2 DEF Listens
  <2>3. CASE pc[c] \in {"count", "peers"}
    BY <1>1, <1>3, <2>3 DEF Listens
  <2>4. QED
    BY <2>1, <2>2, <2>3
<1>4. /\ pc[c] = "count" =>
           \/ child[c] = "want" /\ up[c] = Message("PEERS") /\ down[c] = << >>
           \/ /\ child[c] = "PEERS" /\ Serves(c)
              /\ \E s : Addresses(s, 0, Sent(c)) /\ down[c] = Message("number") \o s
      /\ pc[c] = "peers" =>
           child[c] = "PEERS" /\ Serves(c) /\ \E g \in 0..Sent(c) : Holds(c, g)
  BY <1>1, <1>2 DEF Listens, Requests, Learns, Serves
<1>5. CASE ChildBegins(c)
  BY <1>3, <1>4, <1>5
     DEF ChildBegins, ChildReceives, ChildLooksUp, ChildVerifies, ChildRemoves
<1>6. CASE ChildHears(c)
  <2>1. child[c] = "want"
    BY <1>6 DEF ChildHears, ChildGoes
  <2>2. pc[c] = "count" /\ up[c] = Message("PEERS") /\ down[c] = << >>
    BY <1>3, <1>4, <2>1
  <2>3. PICK b : /\ Receives(up[c], b)
                 /\ Text(b) \in {"BLOCK", "PEERS"} =>
                      /\ child'[c] = Text(b)
                      /\ Text(b) = "PEERS" => left'[c] = Cardinality(Peers)
                      /\ down'[c] = down[c] \o Message("number")
    BY <1>6 DEF ChildHears, ChildGoes
  <2>4. Text(b) = "PEERS"
    BY <2>2, <2>3, ReceivesOnly
  <2>5. child'[c] = "PEERS" /\ left'[c] = Cardinality(Peers)
    BY <2>3, <2>4
  <2>6. down'[c] = Message("number") \o << >>
    <3>1. down'[c] = Message("number")
      BY <2>2, <2>3, <2>4, FirstMessage
    <3>2. Message("number") \in Seq(Units)
      BY UnitsOf DEF Texts
    <3>3. QED
      BY <3>1, <3>2, ConcatEmptySeq
  <2>7. Sent(c)' = 0 /\ Serves(c)'
    BY <2>5, PeersCount DEF Sent, Serves
  <2>8. Addresses(<< >>, 0, Sent(c)')
    BY <2>7, NoAddresses
  <2>9. Requests(c)'
    BY <2>6, <2>7, <2>8 DEF Requests
  <2>10. QED
    BY <2>2, <2>9
<1>7. CASE ChildSends(c)
  <2>1. child[c] = "PEERS" /\ Serves(c)
    BY <1>3, <1>4, <1>7 DEF ChildSends
  <2> DEFINE m == Message(Listed[Sent(c) + 1])
  <2>2. /\ Serves(c)' /\ Sent(c)' = Sent(c) + 1 /\ Sent(c) \in Nat
        /\ \A s : \A g \in Nat : Addresses(s, g, Sent(c)) => Addresses(s \o m, g, Sent(c)')
        /\ m \in Seq(Units) /\ down'[c] = down[c] \o m
    BY <1>7, <2>1, NextAddress, UnitsOf DEF Texts
  <2> HIDE DEF m
  <2>3. ASSUME pc[c] = "count" PROVE Requests(c)'
    <3>1. PICK s : Addresses(s, 0, Sent(c)) /\ down[c] = Message("number") \o s
      BY <1>4, <2>1, <2>3
    <3>2. down'[c] = Message("number") \o (s \o m)
      <4>1. s \in Seq(Units) /\ m \in Seq(Units) /\ Message("number") \in Seq(Units)
        BY <2>2, <3>1, UnitsOf DEF Addresses, Texts
      <4>2. (Message("number") \o s) \o m = Message("number") \o (s \o m)
        BY <4>1, ConcatAssociative
      <4>3. QED
        BY <2>2, <3>1, <4>2
    <3>3. Addresses(s \o m, 0, Sent(c)')
      BY <2>2, <3>1
    <3>4. QED
      BY <2>2, <3>2, <3>3 DEF Requests
  <2>4. ASSUME pc[c] = "peers" PROVE Learns(c)'
    <3>1. PICK g \in 0..Sent(c) : Holds(c, g)
      BY <1>4, <2>4
    <3>2. g \in Nat /\ g \in 0..Sent(c)'
      BY <2>2
    <3>3. Addresses(down'[c], g, Sent(c)')
      BY <2>2, <3>1, <3>2 DEF Holds
    <3>4. Holds(c, g)'
      BY <1>1, <3>1, <3>3 DEF Holds
    <3>5. QED
      BY <2>2, <3>2, <3>4 DEF Learns
  <2>5. QED
    BY <2>3, <2>4
<1>8. CASE ChildEnds(c)
  <2>1. /\ child'[c] = "gone" /\ UNCHANGED <<left, up, down>>
        /\ child[c] \in {"BLOCK", "PEERS"}
    BY <1>3, <1>8 DEF ChildEnds, ChildGoes
  <2>2. Serves(c)' /\ Sent(c)' = Sent(c)
    BY <1>3, <1>4, <2>1 DEF Serves, Sent
  <2>3. pc[c] = "count" => Requests(c)'
    BY <1>4, <2>1, <2>2 DEF Requests
  <2>4. pc[c] = "peers" => Learns(c)'
    BY <1>1, <1>4, <2>1, <2>2 DEF Learns, Holds
  <2>5. QED
    BY <2>3, <2>4
<1>9. QED
  BY <1>5, <1>6, <1>7, <1>8 DEF Child, ChildBegins

LEMMA ListensParent ==
    ASSUME TypeOK, Queued, Accept \/ ServerCrashes, NEW c \in Clients, Listens(c),
           Closed(c) => Closed(c)'
    PROVE  Listens(c)'
<1> USE TypedShape DEF Shape
<1>1. UNCHANGED <<up, down, left, pc, remain, learnt, result>> /\ parent = "listening"
  BY DEF Accept, ServerCrashes, client
<1>2. ~Closed(c)
  BY <1>1 DEF Closed
<1>3. CASE pc[c] = "done"
  <2>1. result[c] = "peers" => learnt[c] = Peers
    BY <1>2, <1>3 DEF Listens, Learnt
  <2>2. QED
    BY <1>1, <1>3, <2>1, Stops
<1>4. CASE pc[c] \notin {"count", "peers", "done"}
  BY <1>1, <1>4 DEF Listens
<1>5. CASE pc[c] \in {"count", "peers"} /\ child'[c] = child[c]
  BY <1>1, <1>5, ListensKept
<1>6. CASE pc[c] \in {"count", "peers"} /\ child'[c] # child[c]
  <2>1. child[c] # "none"
    BY <1>2, <1>6 DEF Listens, Requests, Learns, Serves
  <2>2. ~Accept
    <3>1. SUFFICES ASSUME Accept PROVE FALSE
      OBVIOUS
    <3>2. c = Head(backlog) /\ backlog # << >>
      BY <1>6, <3>1 DEF Accept
    <3>3. 1 \in DOMAIN backlog /\ backlog[1] = c
      BY <3>2
    <3>4. QED
      BY <2>1, <3>3 DEF Queued
  <2>3. child'[c] = "gone"
    BY <2>1, <2>2 DEF ServerCrashes
  <2>4. pc[c] = "count" => Requests(c)'
    BY <1>1, <1>2, <2>3 DEF Listens, Requests, Serves, Sent
  <2>5. pc[c] = "peers" => Learns(c)'
    BY <1>1, <1>2, <2>3 DEF Listens, Learns, Serves, Sent, Holds
  <2>6. QED
    BY <1>1, <1>6, <2>4, <2>5 DEF Listens
<1>7. QED
  BY <1>3, <1>4, <1>5, <1>6

LEMMA FullInit == Init => Full
<1> SUFFICES ASSUME Init PROVE Full
  OBVIOUS
<1>1. \A c \in Clients : Listens(c)
  BY DEF Init, Listens
<1>2. QED
  BY <1>1, TypedInit, WholeInit DEF Full

LEMMA FullStep ==
    ASSUME "short" \notin Faults, Full, [Next]_vars
    PROVE  Full'
<1>1. TypeOK /\ Queued /\ Shape /\ \A c \in Clients : Sound(c) /\ Listens(c)
  BY DEF Full, Typed, Whole
<1>2. \A c \in Clients : Closed(c) => Closed(c)'
  BY <1>1, ClosedStays
<1>3. ASSUME NEW c \in Clients PROVE Listens(c)'
  <2>1. ASSUME NEW d \in Clients, Client(d) \/ Child(d) \/ ClientKilled(d)
        PROVE  Listens(c)'
    <3>1. CASE d # c
      BY <1>1, <1>2, <1>3, <2>1, <3>1, ListensOthers
    <3>2. CASE d = c
      BY <1>1, <1>2, <1>3, <2>1, <3>2, ListensAnswer, ListensCount, ListensPeer, ListensEnd,
         ListensElse, ListensChild DEF Client
    <3>3. QED
      BY <3>1, <3>2
  <2>2. CASE Accept \/ ServerCrashes
    BY <1>1, <1>2, <1>3, <2>2, ListensParent
  <2>3. CASE UNCHANGED vars
    BY <1>1, <1>2, <1>3, <2>3, ListensKept DEF vars
  <2>4. QED
    BY <2>1, <2>2, <2>3 DEF Next, Finished
<1>4. QED
  BY <1>3, TypedStep, WholeStep DEF Full

\* What receive_peers stores (network.c:53-72) are peers of the server, and
\* when it returns all of them: the first addresses of the list, as many as
\* the number it read, in the order they were sent (tnfs-server.c:52-77).
\* Once the server is gone it may also store empty strings.
THEOREM PeersReceivedHolds ==
    ASSUME "short" \notin Faults
    PROVE  Spec => []PeersReceived
<1>1. Init => Full
  BY FullInit
<1>2. Full /\ [Next]_vars => Full'
  BY FullStep
<1>3. Full => PeersReceived
  <2>1. SUFFICES ASSUME Full, NEW c \in Clients PROVE Learnt(c)
    BY DEF PeersReceived, Learnt
  <2>2. QED
    BY <2>1, AllLearnt DEF Full, Typed
<1>4. QED
  BY <1>1, <1>2, <1>3, PTL DEF Spec
=============================================================================
