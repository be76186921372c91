----------------------------- MODULE GossipProof ----------------------------
(***************************************************************************)
(* Proofs about Gossip.                                                    *)
(***************************************************************************)
EXTENDS Gossip, FiniteSetTheorems, TLAPS

\* What the proofs use of the assumptions.
LEMMA Constants ==
    /\ Readers \subseteq Hosts /\ Hosts \subseteq Addresses /\ Typed \subseteq Addresses
    /\ Nobody \subseteq Addresses /\ Empty \in Addresses /\ "block" \notin Addresses
    /\ Blocks \in Nat \ {0} /\ Descriptors \in Nat \ {0} /\ MaxUpsets \in Nat
BY GossipAssumption DEF Addresses

USE Constants

LEMMA GossipTypeInit == Init => TypeOK
BY DEF Init, TypeOK

\* A reader that walks has no entry of the block left.
LEMMA ForgetEffect ==
    ASSUME TypeOK, NEW h \in Readers, Forget(h)
    PROVE  /\ bad' \in [Hosts -> SUBSET (1..Blocks)]
           /\ missing' \in [Hosts -> SUBSET (1..Blocks)]
           /\ block[h] \notin bad'[h] \cup missing'[h]
<1>1. /\ bad \in [Hosts -> SUBSET (1..Blocks)] /\ missing \in [Hosts -> SUBSET (1..Blocks)]
      /\ h \in Hosts
  BY DEF TypeOK
<1>2. bad[h] \ {block[h]} \in SUBSET (1..Blocks) /\ missing[h] \ {block[h]} \in SUBSET (1..Blocks)
  BY <1>1
<1>3. QED
  BY <1>1, <1>2 DEF Forget

\* A child takes away the file of a bad block, and no entry.
LEMMA AnswerEffect ==
    ASSUME TypeOK, NEW h \in Readers, asked[h] \in Hosts, Answer(h)
    PROVE  /\ bad' \in [Hosts -> SUBSET (1..Blocks)]
           /\ missing' \in [Hosts -> SUBSET (1..Blocks)]
           /\ \A a \in Hosts : /\ missing[a] \subseteq missing'[a]
                              /\ bad'[a] \cup missing'[a] = bad[a] \cup missing[a]
<1> DEFINE a == asked[h]
           b == block[h]
<1>1. /\ bad \in [Hosts -> SUBSET (1..Blocks)] /\ missing \in [Hosts -> SUBSET (1..Blocks)]
      /\ b \in 1..Blocks
  BY DEF TypeOK
<1>2. CASE UNCHANGED spoilt
  BY <1>1, <1>2 DEF spoilt
<1>3. CASE ~UNCHANGED spoilt
  <2>1. /\ bad' = [bad EXCEPT ![a] = bad[a] \ {b}]
        /\ missing' = [missing EXCEPT ![a] = missing[a] \cup ({b} \cap bad[a])]
    BY <1>3 DEF Answer
  <2>2. /\ bad[a] \ {b} \in SUBSET (1..Blocks)
        /\ missing[a] \cup ({b} \cap bad[a]) \in SUBSET (1..Blocks)
    BY <1>1
  <2>3. /\ bad' \in [Hosts -> SUBSET (1..Blocks)] /\ missing' \in [Hosts -> SUBSET (1..Blocks)]
    BY <1>1, <2>1, <2>2
  <2>4. ASSUME NEW c \in Hosts
        PROVE  /\ missing[c] \subseteq missing'[c]
               /\ bad'[c] \cup missing'[c] = bad[c] \cup missing[c]
    BY <1>1, <2>1
  <2>5. QED
    BY <2>3, <2>4
<1>4. QED
  BY <1>2, <1>3

LEMMA GossipTypeReader ==
    ASSUME TypeOK, NEW h \in Readers, Reader(h)
    PROVE  TypeOK'
<1>1. CASE ReadBlock(h)
  <2>1. block' \in [Readers -> 1..Blocks]
    <3>1. block[h] \in 1..Blocks /\ Blocks \in Nat
      BY DEF TypeOK
    <3>2. block[h] < Blocks => block[h] + 1 \in 1..Blocks
      BY <3>1
    <3>3. \/ block' = block
          \/ block[h] < Blocks /\ block' = [block EXCEPT ![h] = block[h] + 1]
      BY <1>1 DEF ReadBlock
    <3>4. QED
      BY <3>2, <3>3 DEF TypeOK
  <2>2. [a \in Hosts |-> IF a \in peers[h] \cap running THEN Tells(h, a) ELSE {}]
            \in [Hosts -> SUBSET (Addresses \cup {"block"})]
    <3>1. \A a \in Hosts : peers[a] \subseteq Addresses
      BY DEF TypeOK
    <3>2. \A a \in Hosts : Tells(h, a) \in {{"block"}, {}, peers[a]}
      BY DEF Tells
    <3>3. QED
      BY <3>1, <3>2
  <2>3. owed' \in [Readers -> [Hosts -> SUBSET (Addresses \cup {"block"})]]
    <3>1. owed \in [Readers -> [Hosts -> SUBSET (Addresses \cup {"block"})]]
      BY DEF TypeOK
    <3>2. \/ owed' = owed
          \/ owed' = [owed EXCEPT ![h] = [a \in Hosts |->
                         IF a \in peers[h] \cap running THEN Tells(h, a) ELSE {}]]
      BY <1>1 DEF ReadBlock, lookup
    <3>3. QED
      BY <2>2, <3>1, <3>2
  <2>4. /\ pc' \in [Readers -> {"idle", "read", "walk", "asked", "unanswered", "peers", "check"}]
        /\ todo' \in [Readers -> SUBSET Addresses]
        /\ outcome' \in [Readers -> {None, "found", "not found", "malformed address",
                                      "no socket", "lost", "interrupted"}]
        /\ UNCHANGED <<peers, held, running, asked, coming, fds, upsets>>
    BY <1>1 DEF ReadBlock, TypeOK, End, Goto, lookup
  <2>5. bad' \in [Hosts -> SUBSET (1..Blocks)] /\ missing' \in [Hosts -> SUBSET (1..Blocks)]
    <3>1. UNCHANGED spoilt \/ Forget(h)
      BY <1>1 DEF ReadBlock
    <3>2. QED
      BY <3>1, ForgetEffect DEF TypeOK, spoilt
  <2>6. QED
    BY <2>1, <2>3, <2>4, <2>5 DEF TypeOK
<1>2. CASE Connect(h)
  <2>1. PICK a \in todo[h] :
          \/ fds[h] = 0 /\ End(h, "no socket") /\ UNCHANGED <<todo, asked, fds>>
          \/ /\ todo' = [todo EXCEPT ![h] = @ \ {a}]
             /\ asked' = [asked EXCEPT ![h] = a]
             /\ \/ Goto(h, "asked") /\ UNCHANGED fds
                \/ fds[h] # 0 /\ fds' = [fds EXCEPT ![h] = @ - 1] /\ UNCHANGED pc
             /\ UNCHANGED outcome
    BY <1>2 DEF Connect
  <2>2. a \in Addresses
    BY DEF TypeOK
  <2>3. fds' \in [Readers -> 0..Descriptors]
    <3>1. fds[h] \in 0..Descriptors
      BY DEF TypeOK
    <3>2. fds[h] # 0 => fds[h] - 1 \in 0..Descriptors
      BY <3>1
    <3>3. fds' = fds \/ (fds[h] # 0 /\ fds' = [fds EXCEPT ![h] = fds[h] - 1])
      BY <2>1
    <3>4. QED
      BY <3>2, <3>3 DEF TypeOK
  <2>4. /\ pc' \in [Readers -> {"idle", "read", "walk", "asked", "unanswered", "peers", "check"}]
        /\ outcome' \in [Readers -> {None, "found", "not found", "malformed address",
                                      "no socket", "lost", "interrupted"}]
    BY <2>1 DEF TypeOK, End, Goto
  <2>5. todo' \in [Readers -> SUBSET Addresses]
    <3>1. todo \in [Readers -> SUBSET Addresses]
      BY DEF TypeOK
    <3>2. todo' = todo \/ todo' = [todo EXCEPT ![h] = todo[h] \ {a}]
      BY <2>1
    <3>3. todo[h] \ {a} \in SUBSET Addresses
      BY <3>1
    <3>4. QED
      BY <3>1, <3>2, <3>3
  <2>6. asked' \in [Readers -> Addresses \cup {None}]
    <3>1. asked \in [Readers -> Addresses \cup {None}]
      BY DEF TypeOK
    <3>2. asked' = asked \/ asked' = [asked EXCEPT ![h] = a]
      BY <2>1
    <3>3. QED
      BY <2>2, <3>1, <3>2
  <2>7. UNCHANGED <<peers, held, bad, missing, running, block, coming, owed, upsets>>
    BY <1>2 DEF Connect, spoilt
  <2>8. QED
    BY <2>3, <2>4, <2>5, <2>6, <2>7 DEF TypeOK
<1>3. CASE Answer(h)
  <2>1. asked[h] \in Hosts /\ block[h] \in 1..Blocks
    BY <1>3 DEF Answer, TypeOK
  <2>2. held' \in [Hosts -> SUBSET (1..Blocks)]
    <3>1. held \in [Hosts -> SUBSET (1..Blocks)]
      BY DEF TypeOK
    <3>2. held' = held \/ held' = [held EXCEPT ![h] = held[h] \cup {block[h]}]
      BY <1>3 DEF Answer
    <3>3. held[h] \cup {block[h]} \in SUBSET (1..Blocks)
      BY <2>1, <3>1
    <3>4. QED
      BY <3>1, <3>2, <3>3
  <2>3. coming' \in [Readers -> SUBSET Addresses]
    BY <1>3, <2>1 DEF Answer, TypeOK
  <2>4. pc' \in [Readers -> {"idle", "read", "walk", "asked", "unanswered", "peers", "check"}]
    BY <1>3 DEF Answer, Goto, TypeOK
  <2>5. UNCHANGED <<peers, running, block, todo, asked, fds, outcome, owed, upsets>>
    BY <1>3 DEF Answer
  <2>6. bad' \in [Hosts -> SUBSET (1..Blocks)] /\ missing' \in [Hosts -> SUBSET (1..Blocks)]
    BY <1>3, <2>1, AnswerEffect
  <2>7. QED
    BY <2>2, <2>3, <2>4, <2>5, <2>6 DEF TypeOK
<1>4. CASE Lost(h)
  BY <1>4 DEF Lost, TypeOK, End, Goto, lookup, spoilt
<1>5. CASE ReceivePeer(h)
  <2>1. PICK a \in coming[h] :
          /\ coming' = [coming EXCEPT ![h] = @ \ {a}]
          /\ \E b \in {a, Empty} : peers' = [peers EXCEPT ![h] = @ \cup {b}]
    BY <1>5 DEF ReceivePeer
  <2>2. a \in Addresses
    BY DEF TypeOK
  <2>3. peers' \in [Hosts -> SUBSET Addresses]
    <3>1. peers \in [Hosts -> SUBSET Addresses]
      BY DEF TypeOK
    <3>2. PICK b \in {a, Empty} : peers' = [peers EXCEPT ![h] = peers[h] \cup {b}]
      BY <2>1
    <3>3. peers[h] \cup {b} \in SUBSET Addresses
      BY <2>2, <3>1
    <3>4. QED
      BY <3>1, <3>2, <3>3
  <2>4. coming' \in [Readers -> SUBSET Addresses]
    BY <2>1 DEF TypeOK
  <2>5. UNCHANGED <<held, bad, missing, running, pc, block, todo, asked, fds, outcome,
                    owed, upsets>>
    BY <1>5 DEF ReceivePeer, spoilt
  <2>6. QED
    BY <2>3, <2>4, <2>5 DEF TypeOK
<1>6. CASE EndPeers(h) \/ EndWalk(h) \/ Check(h)
  BY <1>6 DEF EndPeers, EndWalk, Check, TypeOK, End, Goto, lookup, spoilt
<1>7. QED
  BY <1>1, <1>2, <1>3, <1>4, <1>5, <1>6 DEF Reader

\* What is forgiven is owed no more, and nothing else changes.
LEMMA ForgiveEffect ==
    ASSUME TypeOK, NEW h \in Hosts, NEW tells, Forgive(h, tells)
    PROVE  /\ owed' \in [Readers -> [Hosts -> SUBSET (Addresses \cup {"block"})]]
           /\ \A k \in Readers, b \in Hosts :
                /\ owed'[k][b] \subseteq owed[k][b]
                /\ b = h \/ k = h => owed'[k][b] = owed[k][b] \ tells
<1> DEFINE Less(k) == IF h = k THEN [b \in Hosts |-> owed[k][b] \ tells]
                               ELSE [owed[k] EXCEPT ![h] = @ \ tells]
<1>1. owed' = [k \in Readers |-> Less(k)]
  BY DEF Forgive
<1>2. \A k \in Readers : owed[k] \in [Hosts -> SUBSET (Addresses \cup {"block"})]
  BY DEF TypeOK
<1>3. ASSUME NEW k \in Readers
      PROVE  /\ Less(k) \in [Hosts -> SUBSET (Addresses \cup {"block"})]
             /\ \A b \in Hosts : /\ Less(k)[b] \subseteq owed[k][b]
                                 /\ b = h \/ k = h => Less(k)[b] = owed[k][b] \ tells
  <2>1. owed[k] \in [Hosts -> SUBSET (Addresses \cup {"block"})]
    BY <1>2
  <2>2. CASE h = k
    BY <2>1, <2>2
  <2>3. CASE h # k
    BY <2>1, <2>3
  <2>4. QED
    BY <2>2, <2>3
<1> HIDE DEF Less
<1>4. QED
  BY <1>1, <1>3

LEMMA UpsetType == TypeOK /\ Upset => upsets' \in 0..MaxUpsets
<1> SUFFICES ASSUME TypeOK, Upset PROVE upsets' \in 0..MaxUpsets
  OBVIOUS
<1>1. upsets \in 0..MaxUpsets
  BY DEF TypeOK
<1>2. QED
  BY <1>1 DEF Upset

\* A file that is damaged stays registered, and only its block is owed no more.
LEMMA RotEffect ==
    ASSUME TypeOK, NEW h \in Hosts, Rot(h)
    PROVE  /\ held' \in [Hosts -> SUBSET (1..Blocks)]
           /\ bad' \in [Hosts -> SUBSET (1..Blocks)]
           /\ owed' \in [Readers -> [Hosts -> SUBSET (Addresses \cup {"block"})]]
           /\ \A a \in Hosts : held'[a] \cup bad'[a] = held[a] \cup bad[a]
           /\ \A k \in Readers, a \in Hosts :
                /\ owed'[k][a] \subseteq owed[k][a]
                /\ "block" \in owed'[k][a] /\ block[k] \in held[a] => block[k] \in held'[a]
<1>1. PICK b \in held[h] :
        /\ held' = [held EXCEPT ![h] = held[h] \ {b}]
        /\ bad' = [bad EXCEPT ![h] = bad[h] \cup {b}]
        /\ owed' = [k \in Readers |->
                      IF block[k] = b THEN [owed[k] EXCEPT ![h] = @ \ {"block"}]
                                      ELSE owed[k]]
  BY DEF Rot
<1>2. /\ held \in [Hosts -> SUBSET (1..Blocks)] /\ bad \in [Hosts -> SUBSET (1..Blocks)]
      /\ \A k \in Readers : owed[k] \in [Hosts -> SUBSET (Addresses \cup {"block"})]
  BY DEF TypeOK
<1>3. held[h] \ {b} \in SUBSET (1..Blocks) /\ bad[h] \cup {b} \in SUBSET (1..Blocks)
  BY <1>2
<1>4. /\ held' \in [Hosts -> SUBSET (1..Blocks)] /\ bad' \in [Hosts -> SUBSET (1..Blocks)]
      /\ \A a \in Hosts : held'[a] \cup bad'[a] = held[a] \cup bad[a]
      /\ \A a \in Hosts : held'[a] = IF a = h THEN held[h] \ {b} ELSE held[a]
  BY <1>1, <1>2, <1>3
<1>5. ASSUME NEW k \in Readers
      PROVE  /\ owed'[k] \in [Hosts -> SUBSET (Addresses \cup {"block"})]
             /\ \A a \in Hosts :
                  /\ owed'[k][a] \subseteq owed[k][a]
                  /\ "block" \in owed'[k][a] => a # h \/ block[k] # b
  <2>1. owed[k] \in [Hosts -> SUBSET (Addresses \cup {"block"})]
    BY <1>2
  <2>2. CASE block[k] = b
    <3>1. owed'[k] = [owed[k] EXCEPT ![h] = owed[k][h] \ {"block"}]
      BY <1>1, <2>2
    <3>2. QED
      BY <2>1, <3>1
  <2>3. CASE block[k] # b
    <3>1. owed'[k] = owed[k]
      BY <1>1, <2>3
    <3>2. QED
      BY <2>1, <2>3, <3>1
  <2>4. QED
    BY <2>2, <2>3
<1>6. owed' \in [Readers -> [Hosts -> SUBSET (Addresses \cup {"block"})]]
  <2>1. \A k \in Readers : owed'[k] \in [Hosts -> SUBSET (Addresses \cup {"block"})]
    BY <1>5
  <2>2. DOMAIN owed' = Readers /\ owed' = [k \in Readers |-> owed'[k]]
    BY <1>1
  <2>3. QED
    BY <2>1, <2>2
<1>7. QED
  BY <1>4, <1>5, <1>6

LEMMA GossipTypeHost ==
    ASSUME TypeOK, NEW h \in Hosts,
           AddPeer(h) \/ RemovePeer(h) \/ StopServer(h) \/ StartServer(h) \/ Rot(h)
    PROVE  TypeOK'
<1>1. CASE AddPeer(h)
  <2>1. upsets' \in 0..MaxUpsets
    BY <1>1, UpsetType DEF AddPeer
  <2>2. peers' \in [Hosts -> SUBSET Addresses]
    <3>1. peers \in [Hosts -> SUBSET Addresses]
      BY DEF TypeOK
    <3>2. PICK a \in Typed : peers' = [peers EXCEPT ![h] = peers[h] \cup {a}]
      BY <1>1 DEF AddPeer
    <3>3. peers[h] \cup {a} \in SUBSET Addresses
      BY <3>1
    <3>4. QED
      BY <3>1, <3>2, <3>3
  <2>3. QED
    BY <1>1, <2>1, <2>2 DEF AddPeer, TypeOK, lookup, spoilt
<1>2. CASE RemovePeer(h)
  <2>1. upsets' \in 0..MaxUpsets
    BY <1>2, UpsetType DEF RemovePeer
  <2>2. /\ peers' \in [Hosts -> SUBSET Addresses]
        /\ owed' \in [Readers -> [Hosts -> SUBSET (Addresses \cup {"block"})]]
    <3>1. peers \in [Hosts -> SUBSET Addresses]
      BY DEF TypeOK
    <3>2. PICK a \in Typed \cap peers[h] :
              peers' = [peers EXCEPT ![h] = peers[h] \ {a}] /\ Forgive(h, {a})
      BY <1>2 DEF RemovePeer
    <3>3. peers[h] \ {a} \in SUBSET Addresses
      BY <3>1
    <3>4. QED
      BY <3>1, <3>2, <3>3, ForgiveEffect
  <2>3. UNCHANGED <<held, bad, missing, running, pc, block, todo, asked, coming, fds, outcome>>
    BY <1>2 DEF RemovePeer, spoilt
  <2>4. QED
    BY <2>1, <2>2, <2>3 DEF TypeOK
<1>3. CASE StopServer(h)
  <2>1. upsets' \in 0..MaxUpsets
    BY <1>3, UpsetType DEF StopServer
  <2>2. owed' \in [Readers -> [Hosts -> SUBSET (Addresses \cup {"block"})]]
    BY <1>3, ForgiveEffect DEF StopServer
  <2>3. /\ running' \subseteq Hosts
        /\ UNCHANGED <<peers, held, bad, missing, pc, block, todo, asked, coming, fds, outcome>>
    BY <1>3 DEF StopServer, TypeOK, spoilt
  <2>4. QED
    BY <2>1, <2>2, <2>3 DEF TypeOK
<1>4. CASE StartServer(h)
  BY <1>4 DEF StartServer, TypeOK, lookup, spoilt
<1>5. CASE Rot(h)
  <2>1. upsets' \in 0..MaxUpsets
    BY <1>5, UpsetType DEF Rot
  <2>2. UNCHANGED <<peers, missing, running, pc, block, todo, asked, coming, fds, outcome>>
    BY <1>5 DEF Rot
  <2>3. QED
    BY <1>5, <2>1, <2>2, RotEffect DEF TypeOK
<1>6. QED
  BY <1>1, <1>2, <1>3, <1>4, <1>5

LEMMA GossipTypeStep == TypeOK /\ [Next]_vars => TypeOK'
<1> SUFFICES ASSUME TypeOK, [Next]_vars PROVE TypeOK'
  OBVIOUS
<1>1. ASSUME NEW h \in Readers, Get(h) PROVE TypeOK'
  <2>1. /\ block' \in [Readers -> 1..Blocks]
        /\ fds' \in [Readers -> 0..Descriptors]
    <3>1. 1 \in 1..Blocks /\ Descriptors \in 0..Descriptors
      OBVIOUS
    <3>2. block \in [Readers -> 1..Blocks] /\ fds \in [Readers -> 0..Descriptors]
      BY DEF TypeOK
    <3>3. QED
      BY <1>1, <3>1, <3>2 DEF Get
  <2>2. /\ pc' \in [Readers -> {"idle", "read", "walk", "asked", "unanswered", "peers", "check"}]
        /\ outcome' \in [Readers -> {None, "found", "not found", "malformed address",
                                      "no socket", "lost", "interrupted"}]
        /\ UNCHANGED <<peers, held, bad, missing, running, todo, asked, coming, owed, upsets>>
    BY <1>1 DEF Get, Goto, TypeOK, lookup, spoilt
  <2>3. QED
    BY <2>1, <2>2 DEF TypeOK
<1>2. CASE \E h \in Readers : Reader(h)
  BY <1>2, GossipTypeReader
<1>3. ASSUME NEW h \in Readers, Interrupt(h) PROVE TypeOK'
  BY <1>3 DEF Interrupt, TypeOK, End, Goto, lookup, spoilt
<1>4. ASSUME NEW h \in Readers, NoChild(h) PROVE TypeOK'
  <2>1. upsets' \in 0..MaxUpsets
    BY <1>4, UpsetType DEF NoChild
  <2>2. QED
    BY <1>4, <2>1 DEF NoChild, TypeOK, Goto, lookup, spoilt
<1>5. CASE \E h \in Hosts : AddPeer(h) \/ RemovePeer(h) \/ StopServer(h) \/ StartServer(h) \/ Rot(h)
  BY <1>5, GossipTypeHost
<1>6. CASE UNCHANGED vars
  BY <1>6 DEF TypeOK, vars, lookup
<1>7. QED
  BY <1>1, <1>2, <1>3, <1>4, <1>5, <1>6 DEF Next

\* Hosts, readers and their users keep the types of their state (network.c,
\* peer.c): a process never has fewer than no sockets left, an answer is
\* awaited only from a host, and every block that is read is one of the file.
THEOREM GossipTypeCorrect == Spec => []TypeOK
BY GossipTypeInit, GossipTypeStep, PTL DEF Spec
-----------------------------------------------------------------------------
(* A lookup that finds nothing was exhaustive.                             *)

\* The loop of look_for_block, whatever it waits for.
Walking == {"walk", "asked", "unanswered", "peers"}

\* What a peer owed when the lookup began it can still tell; a host that does
\* not run, or has not run all the time, owes nothing.
Fresh(h) == \A a \in Hosts :
    /\ owed[h][a] \subseteq peers[a] \cup {"block"}
    /\ pc[h] \in Walking /\ "block" \in owed[h][a] => block[h] \in held[a]
    /\ a \notin running => owed[h][a] = {}

\* What peer a, which was asked, has not told yet.
Expected(h, a) ==
    IF a # asked[h] THEN {}
    ELSE IF pc[h] \in {"asked", "unanswered"} THEN owed[h][a]
    ELSE IF pc[h] = "peers" THEN coming[h]
    ELSE {}

Told(h) == \A a \in Hosts :
    /\ pc[h] \in Walking /\ a \notin todo[h] =>
         owed[h][a] \subseteq peers[h] \cup Expected(h, a)
    /\ pc[h] = "check" /\ block[h] \notin Registered(h) => owed[h][a] \subseteq peers[h]
    /\ outcome[h] = "not found" => pc[h] = "idle" /\ owed[h][a] \subseteq peers[h]

AsksHost(h) == pc[h] \in {"asked", "unanswered", "peers"} => asked[h] \in Hosts

Sound(h) == Fresh(h) /\ Told(h) /\ AsksHost(h)
Owing == TypeOK /\ \A h \in Readers : Sound(h)

LEMMA OwingInit == Init => Owing
BY GossipTypeInit DEF Init, Owing, Sound, Fresh, Told, AsksHost

\* A reader is not disturbed by those who only learn.
LEMMA SoundKept ==
    ASSUME NEW k \in Readers, Sound(k),
           pc'[k] = pc[k], block'[k] = block[k], todo'[k] = todo[k],
           asked'[k] = asked[k], coming'[k] = coming[k], outcome'[k] = outcome[k],
           owed'[k] = owed[k], running \subseteq running',
           Registered(k) \subseteq Registered(k)',
           \A a \in Hosts : peers[a] \subseteq peers'[a] /\ held[a] \subseteq held'[a]
    PROVE  Sound(k)'
<1>1. Fresh(k)'
  BY DEF Sound, Fresh
<1>2. Told(k)'
  BY DEF Sound, Told, Expected
<1>3. AsksHost(k)'
  BY DEF Sound, AsksHost
<1>4. QED
  BY <1>1, <1>2, <1>3 DEF Sound

LEMMA Domains ==
    TypeOK => /\ DOMAIN peers = Hosts /\ DOMAIN held = Hosts
              /\ DOMAIN bad = Hosts /\ DOMAIN missing = Hosts
              /\ DOMAIN pc = Readers /\ DOMAIN block = Readers /\ DOMAIN todo = Readers
              /\ DOMAIN asked = Readers /\ DOMAIN coming = Readers
              /\ DOMAIN outcome = Readers /\ DOMAIN owed = Readers
BY DEF TypeOK

LEMMA OwingOthers ==
    ASSUME TypeOK, NEW h \in Readers, Get(h) \/ Reader(h) \/ Interrupt(h) \/ NoChild(h),
           NEW k \in Readers, k # h, Sound(k), AsksHost(h)
    PROVE  Sound(k)'
<1> USE DEF spoilt
<1>a. /\ UNCHANGED <<held, bad, missing>> => Registered(k)' = Registered(k)
      /\ h \in Hosts /\ k \in Hosts
  BY DEF Registered
<1>1. CASE Get(h)
  BY <1>a, <1>1, SoundKept, Domains DEF Get, Goto, lookup
<1>2. CASE ReadBlock(h)
  <2>1. UNCHANGED <<held, running, peers>>
    BY <1>2 DEF ReadBlock
  <2>2. bad'[k] = bad[k] /\ missing'[k] = missing[k]
    <3>1. UNCHANGED spoilt \/ Forget(h)
      BY <1>2 DEF ReadBlock
    <3>2. CASE UNCHANGED spoilt
      BY <3>2
    <3>3. CASE Forget(h)
      <4>1. \A a \in Hosts : a # h => bad'[a] = bad[a] /\ missing'[a] = missing[a]
        BY <3>3, Domains DEF Forget
      <4>2. QED
        BY <1>a, <4>1
    <3>4. QED
      BY <3>1, <3>2, <3>3
  <2>3. Registered(k)' = Registered(k)
    BY <2>1, <2>2 DEF Registered
  <2>4. QED
    BY <1>2, <2>1, <2>3, SoundKept, Domains DEF ReadBlock, End, Goto, lookup
<1>3. CASE Connect(h)
  BY <1>a, <1>3, SoundKept, Domains DEF Connect, End, Goto
<1>4. CASE Answer(h)
  <2>1. /\ pc'[k] = pc[k] /\ coming'[k] = coming[k]
        /\ UNCHANGED <<peers, running, block, todo, asked, outcome, owed>>
    BY <1>4, Domains DEF Answer, Goto
  <2>2. \A a \in Hosts : held[a] \subseteq held'[a]
    BY <1>4, Domains DEF Answer
  <2>3. Registered(k) \subseteq Registered(k)'
    <3>1. asked[h] \in Hosts
      BY <1>4 DEF Answer, AsksHost
    <3>2. bad'[k] \cup missing'[k] = bad[k] \cup missing[k]
      BY <1>4, <1>a, <3>1, AnswerEffect
    <3>3. QED
      BY <1>a, <2>2, <3>2 DEF Registered
  <2>4. QED
    BY <2>1, <2>2, <2>3, SoundKept
<1>5. CASE Lost(h)
  BY <1>a, <1>5, SoundKept, Domains DEF Lost, End, Goto, lookup
<1>6. CASE ReceivePeer(h)
  <2>1. /\ coming'[k] = coming[k]
        /\ UNCHANGED <<held, bad, missing, running, pc, block, todo, asked, outcome, owed>>
    BY <1>6, Domains DEF ReceivePeer
  <2>2. \A a \in Hosts : peers[a] \subseteq peers'[a]
    BY <1>6, Domains DEF ReceivePeer
  <2>3. QED
    BY <1>a, <2>1, <2>2, SoundKept
<1>7. CASE EndPeers(h) \/ EndWalk(h) \/ Check(h)
  BY <1>a, <1>7, SoundKept, Domains DEF EndPeers, EndWalk, Check, End, Goto, lookup
<1>8. CASE Interrupt(h) \/ NoChild(h)
  BY <1>a, <1>8, SoundKept, Domains DEF Interrupt, NoChild, End, Goto, lookup
<1>9. QED
  BY <1>1, <1>2, <1>3, <1>4, <1>5, <1>6, <1>7, <1>8 DEF Reader

LEMMA OwingReader ==
    ASSUME TypeOK, NEW h \in Readers, Get(h) \/ Reader(h) \/ Interrupt(h) \/ NoChild(h),
           Sound(h)
    PROVE  Sound(h)'
<1> USE Domains DEF Sound, Goto, lookup, spoilt, Walking
<1>1. CASE Get(h)
  <2>1. /\ pc'[h] = "read" /\ outcome'[h] = None
        /\ UNCHANGED <<peers, held, running, owed>>
    BY <1>1 DEF Get
  <2>2. QED
    BY <2>1 DEF Fresh, Told, AsksHost, None
<1>2. CASE ReadBlock(h)
  <2>1. pc[h] = "read" /\ outcome[h] # "not found"
    BY <1>2 DEF ReadBlock, Told
  <2>2. UNCHANGED <<peers, held, running, asked, coming>>
    BY <1>2 DEF ReadBlock
  <2>3. CASE /\ owed' = owed /\ pc'[h] \in {"read", "idle"}
             /\ outcome'[h] \in {outcome[h], "found", "malformed address"}
    BY <2>1, <2>2, <2>3 DEF Fresh, Told, AsksHost
  <2>4. CASE /\ pc'[h] = "walk" /\ todo'[h] = peers[h]
             /\ owed'[h] = [a \in Hosts |->
                    IF a \in peers[h] \cap running THEN Tells(h, a) ELSE {}]
             /\ UNCHANGED <<block, outcome>>
    <3>1. Fresh(h)'
      <4>1. ASSUME NEW a \in Hosts
            PROVE  owed'[h][a] = IF a \in peers[h] \cap running THEN Tells(h, a) ELSE {}
        BY <2>4
      <4>2. ASSUME NEW a \in Hosts
            PROVE  /\ owed'[h][a] \subseteq peers[a] \cup {"block"}
                   /\ "block" \in owed'[h][a] => block[h] \in held[a]
                   /\ a \notin running => owed'[h][a] = {}
        <5>1. peers[a] \subseteq Addresses
          BY DEF TypeOK
        <5>2. QED
          BY <4>1, <5>1 DEF Tells
      <4>3. QED
        BY <2>2, <2>4, <4>2 DEF Fresh
    <3>2. Told(h)'
      BY <2>1, <2>2, <2>4 DEF Told, Expected
    <3>3. QED
      BY <2>4, <3>1, <3>2 DEF AsksHost
  <2>5. QED
    BY <1>2, <2>3, <2>4 DEF ReadBlock, End
<1>3. CASE Connect(h)
  <2>1. pc[h] = "walk" /\ UNCHANGED <<peers, held, running, block, coming, owed>>
    BY <1>3 DEF Connect
  <2>2. PICK a \in todo[h] :
          \/ pc'[h] = "idle" /\ outcome'[h] = "no socket" /\ UNCHANGED <<todo, asked>>
          \/ /\ todo'[h] = todo[h] \ {a} /\ asked'[h] = a
             /\ pc'[h] = IF a \in running THEN "asked" ELSE "walk"
             /\ UNCHANGED outcome
    BY <1>3, <2>1 DEF Connect, End
  <2>3. running \subseteq Hosts
    BY DEF TypeOK
  <2>4. outcome[h] # "not found"
    BY <2>1 DEF Told
  <2>5. Fresh(h)'
    BY <2>1, <2>2 DEF Fresh
  <2>6. Told(h)'
    <3>1. CASE pc'[h] = "idle"
      BY <2>2, <2>4, <3>1 DEF Told
    <3>2. ASSUME pc'[h] # "idle", NEW b \in Hosts, b \notin todo'[h]
          PROVE  owed[h][b] \subseteq peers[h] \cup Expected(h, b)'
      <4>1. CASE b = a
        BY <2>1, <2>2, <3>2, <4>1 DEF Fresh, Expected
      <4>2. CASE b # a
        BY <2>1, <2>2, <3>2, <4>2 DEF Told, Expected
      <4>3. QED
        BY <4>1, <4>2
    <3>3. CASE pc'[h] # "idle"
      BY <2>1, <2>2, <2>4, <3>2, <3>3 DEF Told
    <3>4. QED
      BY <3>1, <3>3
  <2>7. QED
    BY <2>2, <2>3, <2>5, <2>6 DEF AsksHost
<1>4. CASE Answer(h)
  <2>1. /\ pc[h] = "asked" /\ asked[h] \in Hosts
        /\ UNCHANGED <<peers, running, block, todo, asked, outcome, owed>>
    BY <1>4 DEF Answer, AsksHost
  <2>2. \A a \in Hosts : held[a] \subseteq held'[a]
    BY <1>4 DEF Answer
  <2>3. \/ pc'[h] = "check" /\ block[h] \in held'[h]
        \/ pc'[h] = "unanswered" /\ UNCHANGED coming
        \/ /\ pc'[h] = "peers" /\ coming'[h] = peers[asked[h]]
           /\ block[h] \notin held[asked[h]]
    BY <1>4, <2>1 DEF Answer
  <2>4. outcome[h] # "not found"
    BY <2>1 DEF Told
  <2>5. Fresh(h)'
    BY <2>1, <2>2, <2>3 DEF Fresh
  <2>6. Told(h)'
    <3>1. CASE pc'[h] = "check"
      BY <2>1, <2>3, <2>4, <3>1 DEF Told, Registered
    <3>2. ASSUME pc'[h] = "peers", NEW b \in Hosts, b \notin todo[h]
          PROVE  owed[h][b] \subseteq peers[h] \cup Expected(h, b)'
      <4>1. CASE b = asked[h]
        BY <2>1, <2>3, <3>2, <4>1 DEF Fresh, Expected
      <4>2. CASE b # asked[h]
        BY <2>1, <3>2, <4>2 DEF Told, Expected
      <4>3. QED
        BY <4>1, <4>2
    <3>3. CASE pc'[h] = "peers"
      BY <2>1, <2>4, <3>2, <3>3 DEF Told
    <3>4. CASE pc'[h] = "unanswered"
      BY <2>1, <2>3, <2>4, <3>4 DEF Told, Expected
    <3>5. QED
      BY <2>3, <3>1, <3>3, <3>4
  <2>7. QED
    BY <2>1, <2>5, <2>6 DEF AsksHost
<1>5. CASE Lost(h)
  <2>1. /\ pc[h] \in {"asked", "unanswered"} /\ asked[h] \in Hosts \ running
        /\ pc'[h] \in {"walk", "read", "idle"}
        /\ outcome'[h] \in {outcome[h], "lost"}
        /\ UNCHANGED <<peers, held, running, block, todo, asked, coming, owed>>
    BY <1>5 DEF Lost, End, AsksHost
  <2>2. owed[h][asked[h]] = {}
    BY <2>1 DEF Fresh
  <2>3. Told(h)'
    BY <2>1, <2>2 DEF Told, Expected
  <2>4. QED
    BY <2>1, <2>3 DEF Fresh, AsksHost
<1>6. CASE ReceivePeer(h)
  <2>1. /\ pc[h] = "peers" /\ asked[h] \in Hosts
        /\ UNCHANGED <<held, running, pc, block, todo, asked, outcome, owed>>
    BY <1>6 DEF ReceivePeer, AsksHost
  <2>2. PICK a \in coming[h] :
          /\ coming'[h] = coming[h] \ {a}
          /\ \/ a \in peers'[h]
             \/ asked[h] \notin running
    BY <1>6 DEF ReceivePeer
  <2>3. \A b \in Hosts : peers[b] \subseteq peers'[b]
    BY <1>6 DEF ReceivePeer
  <2>4. Fresh(h)'
    BY <2>1, <2>3 DEF Fresh
  <2>5. asked[h] \notin running => owed[h][asked[h]] = {}
    BY <2>1 DEF Fresh
  <2>6. Told(h)'
    BY <2>1, <2>2, <2>3, <2>5 DEF Told, Expected
  <2>7. QED
    BY <2>1, <2>4, <2>6 DEF AsksHost
<1>7. CASE EndPeers(h)
  <2>1. /\ pc[h] = "peers" /\ coming[h] = {} /\ pc'[h] = "walk"
        /\ UNCHANGED <<peers, held, running, block, todo, asked, coming, owed, outcome>>
    BY <1>7 DEF EndPeers
  <2>2. QED
    BY <2>1 DEF Fresh, Told, Expected, AsksHost
<1>8. CASE EndWalk(h)
  <2>1. /\ pc[h] = "walk" /\ todo[h] = {} /\ pc'[h] = "check"
        /\ UNCHANGED <<peers, held, running, block, todo, asked, coming, owed, outcome>>
    BY <1>8 DEF EndWalk
  <2>2. QED
    BY <2>1 DEF Fresh, Told, Expected, AsksHost
<1>9. CASE Check(h)
  <2>1. /\ pc[h] = "check"
        /\ \/ pc'[h] = "read" /\ outcome'[h] = outcome[h]
           \/ pc'[h] = "idle" /\ block[h] \notin Registered(h)
        /\ UNCHANGED <<peers, held, running, block, todo, asked, coming, owed>>
    BY <1>9 DEF Check, End
  <2>2. QED
    BY <2>1 DEF Fresh, Told, AsksHost
<1>10. CASE Interrupt(h) \/ NoChild(h)
  <2>1. /\ pc[h] \in {"asked", "unanswered"}
        /\ \/ pc'[h] = "idle" /\ outcome'[h] = "interrupted"
           \/ pc'[h] = "unanswered" /\ outcome'[h] = outcome[h]
        /\ UNCHANGED <<peers, held, running, block, todo, asked, coming, owed>>
    BY <1>10 DEF Interrupt, NoChild, End
  <2>2. Told(h)'
    BY <2>1 DEF Told, Expected
  <2>3. QED
    BY <2>1, <2>2 DEF Fresh, AsksHost
<1>11. QED
  BY <1>1, <1>2, <1>3, <1>4, <1>5, <1>6, <1>7, <1>8, <1>9, <1>10 DEF Reader

LEMMA OwingHost ==
    ASSUME TypeOK, NEW h \in Hosts,
           AddPeer(h) \/ RemovePeer(h) \/ StopServer(h) \/ StartServer(h) \/ Rot(h),
           NEW k \in Readers, Sound(k)
    PROVE  Sound(k)'
<1> USE DEF Sound, spoilt, Walking
<1>a. UNCHANGED <<held, bad, missing>> => Registered(k)' = Registered(k)
  BY DEF Registered
<1>1. CASE AddPeer(h)
  <2>1. UNCHANGED <<held, bad, missing, running, pc, block, todo, asked, coming, owed, outcome>>
    BY <1>1 DEF AddPeer, lookup
  <2>2. \A a \in Hosts : peers[a] \subseteq peers'[a]
    BY <1>1, Domains DEF AddPeer
  <2>3. QED
    BY <1>a, <2>1, <2>2, SoundKept
<1>2. CASE RemovePeer(h)
  <2>1. PICK a \in Typed \cap peers[h] :
            peers' = [peers EXCEPT ![h] = @ \ {a}] /\ Forgive(h, {a})
    BY <1>2 DEF RemovePeer
  <2>2. \A b \in Hosts : /\ owed'[k][b] \subseteq owed[k][b]
                         /\ b = h \/ k = h => owed'[k][b] = owed[k][b] \ {a}
    BY <2>1, ForgiveEffect
  <2>3. \A b \in Hosts : b # h => peers'[b] = peers[b]
    BY <2>1, Domains
  <2>4. peers'[h] = peers[h] \ {a}
    BY <2>1, Domains
  <2>5. UNCHANGED <<held, bad, missing, running, pc, block, todo, asked, coming, outcome>>
    BY <1>2 DEF RemovePeer
  <2>6. Fresh(k)'
    BY <2>2, <2>3, <2>4, <2>5 DEF Fresh
  <2>7. peers[k] \ {a} \subseteq peers'[k] /\ (k # h => peers'[k] = peers[k])
    BY <2>3, <2>4
  <2>8. ASSUME NEW b \in Hosts
        PROVE  /\ \A set : owed[k][b] \subseteq peers[k] \cup set =>
                              owed'[k][b] \subseteq peers'[k] \cup set
               /\ owed[k][b] \subseteq peers[k] => owed'[k][b] \subseteq peers'[k]
    BY <2>2, <2>7
  <2>9. Told(k)'
    <3>1. ASSUME NEW b \in Hosts
          PROVE  /\ b = asked[k] => owed'[k][b] \subseteq owed[k][b]
                 /\ \A set : owed[k][b] \subseteq peers[k] \cup set =>
                              owed'[k][b] \subseteq peers'[k] \cup (set \cap owed'[k][b])
                 /\ owed[k][b] \subseteq peers[k] => owed'[k][b] \subseteq peers'[k]
      <4>1. owed'[k][b] \subseteq owed[k][b]
        BY <2>2
      <4>2. QED
        BY <2>8, <4>1
    <3>2. Registered(k)' = Registered(k)
      BY <1>a, <2>5
    <3>3. ASSUME NEW b \in Hosts, pc[k] \in Walking, b \notin todo[k]
          PROVE  owed'[k][b] \subseteq peers'[k] \cup Expected(k, b)'
      <4>1. owed[k][b] \subseteq peers[k] \cup Expected(k, b)
        BY <3>3 DEF Told
      <4>2. owed'[k][b] \subseteq peers'[k] \cup (Expected(k, b) \cap owed'[k][b])
        BY <3>1, <4>1
      <4>3. Expected(k, b) \cap owed'[k][b] \subseteq Expected(k, b)'
        BY <2>5 DEF Expected
      <4>4. QED
        BY <4>2, <4>3
    <3>4. QED
      BY <2>5, <3>1, <3>2, <3>3 DEF Told
  <2>10. QED
    BY <2>5, <2>6, <2>9 DEF AsksHost
<1>3. CASE StopServer(h)
  <2>1. \A b \in Hosts : /\ owed'[k][b] \subseteq owed[k][b]
                         /\ b = h => owed'[k][b] = {}
    <3>1. \A b \in Hosts : owed[k][b] \subseteq Addresses \cup {"block"}
      <4>1. owed[k] \in [Hosts -> SUBSET (Addresses \cup {"block"})]
        BY DEF TypeOK
      <4>2. QED
        BY <4>1
    <3>2. QED
      BY <1>3, <3>1, ForgiveEffect DEF StopServer
  <2>2. /\ UNCHANGED <<peers, held, bad, missing, pc, block, todo, asked, coming, outcome>>
        /\ running' = running \ {h}
    BY <1>3 DEF StopServer
  <2>3. Fresh(k)'
    BY <2>1, <2>2 DEF Fresh
  <2>4. Told(k)'
    BY <1>a, <2>1, <2>2 DEF Told, Expected
  <2>5. QED
    BY <2>2, <2>3, <2>4 DEF AsksHost
<1>4. CASE StartServer(h)
  BY <1>a, <1>4, SoundKept DEF StartServer, lookup
<1>5. CASE Rot(h)
  <2>1. UNCHANGED <<peers, missing, running, pc, block, todo, asked, coming, outcome>>
    BY <1>5 DEF Rot
  <2>2. \A a \in Hosts :
          /\ held'[a] \cup bad'[a] = held[a] \cup bad[a]
          /\ owed'[k][a] \subseteq owed[k][a]
          /\ "block" \in owed'[k][a] /\ block[k] \in held[a] => block[k] \in held'[a]
    BY <1>5, RotEffect
  <2>3. Fresh(k)'
    BY <2>1, <2>2 DEF Fresh
  <2>4. Registered(k)' = Registered(k)
    BY <2>1, <2>2 DEF Registered
  <2>5. Told(k)'
    BY <2>1, <2>2, <2>4 DEF Told, Expected
  <2>6. QED
    BY <2>1, <2>3, <2>5 DEF AsksHost
<1>6. QED
  BY <1>1, <1>2, <1>3, <1>4, <1>5

LEMMA OwingStep == Owing /\ [Next]_vars => Owing'
<1> SUFFICES ASSUME Owing, [Next]_vars PROVE Owing'
  OBVIOUS
<1>1. TypeOK /\ TypeOK'
  BY GossipTypeStep DEF Owing
<1>2. \A k \in Readers : Sound(k)'
  <2> SUFFICES ASSUME NEW k \in Readers PROVE Sound(k)'
    OBVIOUS
  <2> Sound(k)
    BY DEF Owing
  <2>1. ASSUME NEW h \in Readers, Get(h) \/ Reader(h) \/ Interrupt(h) \/ NoChild(h)
        PROVE  Sound(k)'
    <3>1. AsksHost(h)
      BY DEF Owing, Sound
    <3>2. QED
      BY <1>1, <2>1, <3>1, OwingOthers, OwingReader
  <2>2. ASSUME NEW h \in Hosts,
               AddPeer(h) \/ RemovePeer(h) \/ StopServer(h) \/ StartServer(h) \/ Rot(h)
        PROVE  Sound(k)'
    BY <1>1, <2>2, OwingHost
  <2>3. CASE UNCHANGED vars
    BY <2>3, SoundKept DEF vars, lookup, Registered
  <2>4. QED
    BY <2>1, <2>2, <2>3 DEF Next
<1>3. QED
  BY <1>1, <1>2 DEF Owing

\* For any number of hosts, readers and blocks: when tnfs get says that a block
\* is not found on the network (network.c:76-129), every peer known at the start
\* that ran all the time had no such block, and its addresses are known now.
THEOREM NotFoundIsExhaustiveHolds == Spec => []NotFoundIsExhaustive
<1>1. Owing => NotFoundIsExhaustive
  BY DEF Owing, Sound, Told, NotFoundIsExhaustive
<1>2. QED
  BY <1>1, OwingInit, OwingStep, PTL DEF Spec
-----------------------------------------------------------------------------
(* FailsForCause: as long as nobody interferes, a command walks once over   *)
(* the peers for each block, and loses a socket to each dead one on the way. *)

Known == Hosts \cup Nobody
Calm == running = Hosts /\ \A a \in Hosts : peers[a] \subseteq Known

\* The addresses that cost h a socket, and that it has used no more than n.
Dead(h) == peers[h] \cap Nobody
Spends(h, n) == Descriptors - fds[h] <= n

\* What the walks for the first b blocks may cost.
Walks(h, b) == b * Cardinality(Dead(h))

\* The peer that h asked has lost the file, or deletes the entry itself.
LacksFile(h) ==
    asked[h] \in Readers \/ (asked[h] \in Hosts /\ block[h] \in missing[asked[h]])

Spent(h) ==
    /\ coming[h] \subseteq Known
    /\ pc[h] \in Walking =>
         /\ todo[h] \subseteq peers[h]
         /\ Spends(h, Walks(h, block[h] - 1) + Cardinality(Dead(h) \ todo[h]))
    /\ pc[h] = "check" \/ (pc[h] = "read" /\ block[h] \in held[h]) =>
         Spends(h, Walks(h, block[h]))
    /\ pc[h] = "read" /\ block[h] \notin held[h] => Spends(h, Walks(h, block[h] - 1))
    /\ pc[h] \in Walking \cup {"check"} => block[h] \notin bad[h] \cup missing[h]
    /\ pc[h] = "unanswered" \/ outcome[h] = "interrupted" => LacksFile(h)
    /\ outcome[h] = "interrupted" => pc[h] = "idle"
    /\ outcome[h] \in {None, "found", "not found", "no socket", "interrupted"}
    /\ outcome[h] = "no socket" => Descriptors <= Walks(h, Blocks)

Frugal == upsets = 0 => Calm /\ \A h \in Readers : Spent(h)

LEMMA DeadFinite ==
    ASSUME NEW S, NEW T
    PROVE  /\ IsFiniteSet((S \cap Nobody) \ T)
           /\ Cardinality((S \cap Nobody) \ T) \in Nat
           /\ Cardinality(S \cap Nobody) \in Nat
           /\ Cardinality((S \cap Nobody) \ T) <= Cardinality(S \cap Nobody)
<1>1. IsFiniteSet(Nobody)
  BY GossipAssumption
<1>2. IsFiniteSet(S \cap Nobody) /\ IsFiniteSet((S \cap Nobody) \ T)
  BY <1>1, FS_Subset
<1>3. (S \cap Nobody) \ T \in SUBSET (S \cap Nobody)
  OBVIOUS
<1>4. QED
  BY <1>2, <1>3, FS_CardinalityType, FS_Subset

LEMMA DeadMore ==
    ASSUME NEW S, NEW R, S \subseteq R, NEW T, NEW U, U \subseteq T
    PROVE  /\ Cardinality((S \cap Nobody) \ T) <= Cardinality((R \cap Nobody) \ U)
           /\ Cardinality(S \cap Nobody) <= Cardinality(R \cap Nobody)
<1>1. IsFiniteSet((R \cap Nobody) \ U) /\ IsFiniteSet(R \cap Nobody)
  <2>1. (R \cap Nobody) \ {} = R \cap Nobody
    OBVIOUS
  <2>2. QED
    BY <2>1, DeadFinite
<1>2. (S \cap Nobody) \ T \in SUBSET ((R \cap Nobody) \ U) /\ S \cap Nobody \in SUBSET (R \cap Nobody)
  OBVIOUS
<1>3. QED
  BY <1>1, <1>2, FS_Subset

LEMMA TimesMore ==
    ASSUME NEW b \in Nat, NEW c \in Nat, NEW n \in Nat, NEW m \in Nat, b <= c, n <= m
    PROVE  b * n \in Nat /\ c * m \in Nat /\ b * n <= c * m
<1>1. b * n \in Nat /\ c * m \in Nat /\ c * n \in Nat /\ (c - b) * n \in Nat /\ c * (m - n) \in Nat
  <2>1. c - b \in Nat /\ m - n \in Nat
    OBVIOUS
  <2>2. \A i, j \in Nat : i * j \in Nat
    OBVIOUS
  <2>3. QED
    BY <2>1, <2>2
<1>2. c * n = b * n + (c - b) * n /\ c * m = c * n + c * (m - n)
  OBVIOUS
<1>3. QED
  BY <1>1, <1>2

LEMMA WalksType ==
    ASSUME TypeOK, NEW h \in Readers
    PROVE  /\ block[h] \in Nat /\ block[h] - 1 \in Nat /\ block[h] <= Blocks
           /\ fds[h] \in 0..Descriptors
           /\ \A b \in Nat : Walks(h, b) \in Nat /\ Walks(h, b + 1) = Walks(h, b) + Cardinality(Dead(h))
           /\ \A b, c \in Nat : b <= c => Walks(h, b) <= Walks(h, c)
<1>1. Cardinality(Dead(h)) \in Nat
  BY DeadFinite DEF Dead
<1>2. block[h] \in 1..Blocks /\ fds[h] \in 0..Descriptors
  BY DEF TypeOK
<1>3. \A n, b \in Nat : b * n \in Nat /\ (b + 1) * n = b * n + n
  OBVIOUS
<1>4. QED
  BY <1>1, <1>2, <1>3, TimesMore DEF Walks

\* A walk costs at most as many sockets as there are dead addresses.
LEMMA WalkEnds ==
    ASSUME TypeOK, NEW h \in Readers,
           Spends(h, Walks(h, block[h] - 1) + Cardinality(Dead(h) \ todo[h]))
    PROVE  Spends(h, Walks(h, block[h]))
<1>1. /\ Cardinality(Dead(h) \ todo[h]) \in Nat /\ Cardinality(Dead(h)) \in Nat
      /\ Cardinality(Dead(h) \ todo[h]) <= Cardinality(Dead(h))
  BY DeadFinite DEF Dead
<1>2. Walks(h, block[h]) = Walks(h, block[h] - 1) + Cardinality(Dead(h)) /\ Walks(h, block[h] - 1) \in Nat
  <2>1. block[h] - 1 \in Nat /\ (block[h] - 1) + 1 = block[h]
    BY WalksType
  <2>2. QED
    BY <2>1, WalksType
<1>3. fds[h] \in Nat
  BY WalksType
<1>4. QED
  BY <1>1, <1>2, <1>3 DEF Spends

LEMMA SpentKept ==
    ASSUME NEW k \in Readers, Spent(k),
           pc'[k] = pc[k], block'[k] = block[k], todo'[k] = todo[k],
           coming'[k] = coming[k], outcome'[k] = outcome[k], fds'[k] = fds[k],
           peers'[k] = peers[k], held'[k] = held[k], asked'[k] = asked[k],
           (bad[k] \cup missing[k])' \subseteq bad[k] \cup missing[k],
           \A a \in Hosts \ Readers : missing[a] \subseteq missing'[a]
    PROVE  Spent(k)'
<1>1. Dead(k)' = Dead(k) /\ \A n : Spends(k, n)' <=> Spends(k, n)
  BY DEF Dead, Spends
<1>2. \A b : Walks(k, b)' = Walks(k, b)
  BY <1>1 DEF Walks
<1>3. LacksFile(k) => LacksFile(k)'
  BY DEF LacksFile
<1>4. QED
  BY <1>1, <1>2, <1>3 DEF Spent, Spends

LEMMA SpentOthers ==
    ASSUME TypeOK, NEW h \in Readers, AsksHost(h), Get(h) \/ Reader(h) \/ Interrupt(h),
           NEW k \in Readers, k # h, Spent(k)
    PROVE  Spent(k)'
<1> USE DEF spoilt
<1>a. DOMAIN fds = Readers /\ k \in Hosts
  BY DEF TypeOK
<1>1. CASE Get(h)
  BY <1>a, <1>1, SpentKept, Domains DEF Get, Goto, lookup
<1>2. CASE ReadBlock(h)
  <2>1. /\ bad'[k] = bad[k] /\ missing'[k] = missing[k]
        /\ \A a \in Hosts \ Readers : missing[a] \subseteq missing'[a]
    <3>1. UNCHANGED spoilt \/ Forget(h)
      BY <1>2 DEF ReadBlock
    <3>2. CASE UNCHANGED spoilt
      BY <3>2
    <3>3. CASE Forget(h)
      <4>1. \A a \in Hosts : a # h => bad'[a] = bad[a] /\ missing'[a] = missing[a]
        BY <3>3, Domains DEF Forget
      <4>2. QED
        BY <1>a, <4>1
    <3>4. QED
      BY <3>1, <3>2, <3>3
  <2>2. QED
    BY <1>a, <1>2, <2>1, SpentKept, Domains DEF ReadBlock, End, Goto, lookup
<1>3. CASE Connect(h)
  BY <1>a, <1>3, SpentKept, Domains DEF Connect, End, Goto
<1>4. CASE Answer(h)
  <2>1. \A a \in Hosts : /\ missing[a] \subseteq missing'[a]
                         /\ bad'[a] \cup missing'[a] = bad[a] \cup missing[a]
    BY <1>4, AnswerEffect DEF Answer, AsksHost
  <2>2. QED
    BY <1>a, <1>4, <2>1, SpentKept, Domains DEF Answer, Goto
<1>5. CASE Lost(h)
  BY <1>a, <1>5, SpentKept, Domains DEF Lost, End, Goto, lookup
<1>6. CASE ReceivePeer(h)
  BY <1>a, <1>6, SpentKept, Domains DEF ReceivePeer
<1>7. CASE EndPeers(h) \/ EndWalk(h) \/ Check(h)
  BY <1>a, <1>7, SpentKept, Domains DEF EndPeers, EndWalk, Check, End, Goto, lookup
<1>8. CASE Interrupt(h)
  BY <1>a, <1>8, SpentKept, Domains DEF Interrupt, End, Goto, lookup
<1>9. QED
  BY <1>1, <1>2, <1>3, <1>4, <1>5, <1>6, <1>7, <1>8 DEF Reader

\* A step in which h learns no address, and the costs that it leaves.
LEMMA SameDead ==
    ASSUME NEW h, peers'[h] = peers[h]
    PROVE  Dead(h)' = Dead(h) /\ \A b : Walks(h, b)' = Walks(h, b)
<1>1. Dead(h)' = Dead(h)
  BY DEF Dead
<1>2. QED
  BY <1>1 DEF Walks

LEMMA SpentGet ==
    ASSUME TypeOK, NEW h \in Readers, Get(h), Spent(h)
    PROVE  Spent(h)'
<1>1. /\ pc'[h] = "read" /\ block'[h] = 1 /\ fds'[h] = Descriptors /\ outcome'[h] = None
      /\ UNCHANGED <<peers, held, coming>>
  BY Domains DEF Get, Goto, lookup, TypeOK
<1>2. Walks(h, 0) \in Nat /\ Walks(h, 1) \in Nat /\ \A b : Walks(h, b)' = Walks(h, b)
  BY <1>1, WalksType, SameDead
<1>3. Spends(h, Walks(h, block[h] - 1))' /\ Spends(h, Walks(h, block[h]))'
  BY <1>1, <1>2 DEF Spends
<1>4. QED
  BY <1>1, <1>3 DEF Spent, None, Walking

LEMMA SpentRead ==
    ASSUME TypeOK, Calm, NEW h \in Readers, ReadBlock(h), Spent(h)
    PROVE  Spent(h)'
<1>a. /\ pc[h] = "read" /\ UNCHANGED <<peers, held, running, fds, coming>>
      /\ outcome[h] # "interrupted"
  BY DEF ReadBlock, lookup, Spent
<1>b. /\ Dead(h)' = Dead(h) /\ \A b : Walks(h, b)' = Walks(h, b)
      /\ \A n : Spends(h, n)' <=> Spends(h, n)
  BY <1>a, SameDead DEF Spends
<1>1. CASE block[h] \in held[h] /\ block[h] < Blocks
  <2>1. block'[h] = block[h] + 1 /\ UNCHANGED <<pc, outcome>>
    BY <1>1, Domains DEF ReadBlock, TypeOK
  <2>2. Spends(h, Walks(h, block[h])) /\ Spends(h, Walks(h, block[h] + 1))
    <3>1. Spends(h, Walks(h, block[h]))
      BY <1>a, <1>1 DEF Spent
    <3>2. Walks(h, block[h]) <= Walks(h, block[h] + 1) /\ Walks(h, block[h]) \in Nat /\ Walks(h, block[h] + 1) \in Nat
      BY WalksType
    <3>3. fds[h] \in Nat
      BY WalksType
    <3>4. QED
      BY <3>1, <3>2, <3>3 DEF Spends
  <2>3. block'[h] - 1 = block[h]
    BY <2>1, WalksType
  <2>4. Spends(h, Walks(h, block[h] - 1))' /\ Spends(h, Walks(h, block[h]))'
    BY <1>a, <1>b, <2>1, <2>2, <2>3 DEF Spends
  <2>5. QED
    BY <1>a, <1>b, <2>1, <2>4 DEF Spent, Walking
<1>2. CASE block[h] \in held[h] /\ ~(block[h] < Blocks)
  <2>1. pc'[h] = "idle" /\ outcome'[h] = "found"
    BY <1>2, Domains DEF ReadBlock, End, Goto
  <2>2. QED
    BY <1>a, <2>1 DEF Spent, Walking
<1>3. CASE block[h] \notin held[h]
  <2>1. peers[h] \cap Malformed = {}
    BY GossipAssumption DEF Calm, Known
  <2>2. /\ pc'[h] = "walk" /\ todo'[h] = peers[h] /\ UNCHANGED <<block, outcome>>
        /\ block[h] \notin bad'[h] \cup missing'[h]
    BY <1>3, <2>1, Domains, ForgetEffect DEF ReadBlock, Goto
  <2>3. Spends(h, Walks(h, block[h] - 1))
    BY <1>a, <1>3 DEF Spent
  <2>4. Dead(h) \ peers[h] = {}
    BY DEF Dead
  <2>5. Walks(h, block[h] - 1) + Cardinality(Dead(h) \ peers[h]) = Walks(h, block[h] - 1)
    <3>1. block[h] - 1 \in Nat
      BY WalksType
    <3>2. Walks(h, block[h] - 1) \in Nat
      BY <3>1, WalksType
    <3>3. Cardinality(Dead(h) \ peers[h]) = 0
      BY <2>4, FS_EmptySet
    <3>4. QED
      BY <3>2, <3>3
  <2>6. Spends(h, Walks(h, block[h] - 1) + Cardinality(Dead(h) \ todo[h]))'
    BY <1>a, <1>b, <2>2, <2>3, <2>5 DEF Spends
  <2>7. QED
    BY <1>a, <1>b, <2>2, <2>6 DEF Spent, Walking
<1>4. QED
  BY <1>1, <1>2, <1>3

LEMMA SpentConnect ==
    ASSUME TypeOK, Calm, NEW h \in Readers, Connect(h), Spent(h)
    PROVE  Spent(h)'
<1>a. /\ pc[h] = "walk" /\ UNCHANGED <<peers, held, bad, missing, running, block, coming>>
      /\ outcome[h] # "interrupted"
  BY DEF Connect, spoilt, Spent
<1>b. Dead(h)' = Dead(h) /\ \A b : Walks(h, b)' = Walks(h, b)
  BY <1>a, SameDead
<1>c. /\ todo[h] \subseteq peers[h]
      /\ Spends(h, Walks(h, block[h] - 1) + Cardinality(Dead(h) \ todo[h]))
  BY <1>a DEF Spent, Walking
<1>d. /\ Walks(h, block[h] - 1) \in Nat /\ fds[h] \in Nat
      /\ Walks(h, block[h]) <= Walks(h, Blocks) /\ Walks(h, Blocks) \in Nat
      /\ Walks(h, block[h]) \in Nat
  <2>1. block[h] - 1 \in Nat /\ block[h] \in Nat /\ block[h] <= Blocks /\ fds[h] \in Nat
    BY WalksType
  <2>2. QED
    BY <2>1, WalksType
<1>1. PICK a \in todo[h] :
        IF fds[h] = 0
        THEN End(h, "no socket") /\ UNCHANGED <<todo, asked, fds>>
        ELSE /\ todo' = [todo EXCEPT ![h] = @ \ {a}]
             /\ asked' = [asked EXCEPT ![h] = a]
             /\ IF a \in running
                THEN Goto(h, "asked") /\ UNCHANGED fds
                ELSE fds' = [fds EXCEPT ![h] = @ - 1] /\ UNCHANGED pc
             /\ UNCHANGED outcome
  BY DEF Connect
<1>2. CASE fds[h] = 0
  <2>1. pc'[h] = "idle" /\ outcome'[h] = "no socket"
    BY <1>1, <1>2, Domains DEF End, Goto
  <2>2. Descriptors <= Walks(h, Blocks)
    BY <1>2, <1>c, <1>d, WalkEnds DEF Spends
  <2>3. QED
    BY <1>a, <1>b, <2>1, <2>2 DEF Spent, Walking
<1>3. CASE fds[h] # 0
  <2> DEFINE n == Cardinality(Dead(h) \ todo[h])
             m == Cardinality(Dead(h) \ (todo[h] \ {a}))
  <2>1. todo'[h] = todo[h] \ {a} /\ UNCHANGED outcome
    BY <1>1, <1>3, Domains
  <2>2. n \in Nat /\ m \in Nat /\ n <= m
    BY DeadFinite, DeadMore DEF Dead
  <2>3. CASE a \in running
    <3>1. pc'[h] = "asked" /\ UNCHANGED fds
      BY <1>1, <1>3, <2>3, Domains DEF Goto
    <3>2. Spends(h, Walks(h, block[h] - 1) + m)
      BY <1>c, <1>d, <2>2 DEF Spends
    <3>3. Spends(h, Walks(h, block[h] - 1) + Cardinality(Dead(h) \ todo[h]))'
      BY <1>a, <1>b, <2>1, <3>1, <3>2 DEF Spends
    <3>4. QED
      BY <1>a, <1>b, <1>c, <2>1, <3>1, <3>3 DEF Spent, Walking
  <2>4. CASE a \notin running
    <3>1. fds'[h] = fds[h] - 1 /\ UNCHANGED pc
      BY <1>1, <1>3, <2>4 DEF TypeOK
    <3>2. a \in Dead(h) /\ a \notin Dead(h) \ todo[h]
      BY <1>c, <2>4 DEF Calm, Known, Dead
    <3>3. Dead(h) \ (todo[h] \ {a}) = (Dead(h) \ todo[h]) \cup {a}
      BY <3>2
    <3>4. m = n + 1
      BY <3>2, <3>3, DeadFinite, FS_AddElement DEF Dead
    <3>5. Descriptors - (fds[h] - 1) <= Walks(h, block[h] - 1) + m
      BY <1>c, <1>d, <2>2, <3>4 DEF Spends
    <3>6. Spends(h, Walks(h, block[h] - 1) + Cardinality(Dead(h) \ todo[h]))'
      BY <1>a, <1>b, <2>1, <3>1, <3>5 DEF Spends
    <3>7. QED
      BY <1>a, <1>b, <1>c, <2>1, <3>1, <3>6 DEF Spent, Walking
  <2>5. QED
    BY <2>3, <2>4
<1>4. QED
  BY <1>2, <1>3

\* More addresses, more that a walk may cost.
LEMMA SpentReceive ==
    ASSUME TypeOK, Calm, NEW h \in Readers, AsksHost(h), ReceivePeer(h), Spent(h)
    PROVE  Spent(h)' /\ peers'[h] \subseteq Known
<1>1. /\ pc[h] = "peers" /\ asked[h] \in running
      /\ UNCHANGED <<held, bad, missing, running, pc, block, todo, asked, fds, outcome>>
  BY DEF ReceivePeer, AsksHost, Calm, spoilt
<1>2. PICK a \in coming[h] : /\ coming' = [coming EXCEPT ![h] = @ \ {a}]
                             /\ peers' = [peers EXCEPT ![h] = @ \cup {a}]
  BY <1>1 DEF ReceivePeer
<1>3. coming'[h] = coming[h] \ {a} /\ peers'[h] = peers[h] \cup {a} /\ a \in Known
  BY <1>2, Domains DEF Spent
<1>4. todo'[h] \subseteq peers'[h]
  BY <1>1, <1>3 DEF Spent, Walking
<1>5. /\ Cardinality(Dead(h)) <= Cardinality(Dead(h))' /\ Cardinality(Dead(h)) \in Nat
      /\ Cardinality(Dead(h))' \in Nat
      /\ Cardinality(Dead(h) \ todo[h]) <= Cardinality(Dead(h) \ todo[h])'
      /\ Cardinality(Dead(h) \ todo[h]) \in Nat /\ Cardinality(Dead(h) \ todo[h])' \in Nat
  BY <1>1, <1>3, DeadMore, DeadFinite DEF Dead
<1>6. \A b \in Nat : Walks(h, b) <= Walks(h, b)' /\ Walks(h, b) \in Nat /\ Walks(h, b)' \in Nat
  BY <1>5, TimesMore DEF Walks
<1>7. block[h] - 1 \in Nat /\ fds[h] \in Nat
  BY WalksType
<1>8. Spends(h, Walks(h, block[h] - 1) + Cardinality(Dead(h) \ todo[h]))'
  <2>1. Spends(h, Walks(h, block[h] - 1) + Cardinality(Dead(h) \ todo[h]))
    BY <1>1 DEF Spent, Walking
  <2>2. Walks(h, block[h] - 1) <= Walks(h, block[h] - 1)' /\ Walks(h, block[h] - 1) \in Nat
        /\ Walks(h, block[h] - 1)' \in Nat
    BY <1>1, <1>6, <1>7
  <2>3. QED
    BY <1>1, <1>5, <1>7, <2>1, <2>2 DEF Spends
<1>9. outcome[h] # "no socket" \/ Descriptors <= Walks(h, Blocks)'
  <2>1. Walks(h, Blocks) <= Walks(h, Blocks)' /\ Walks(h, Blocks) \in Nat /\ Walks(h, Blocks)' \in Nat
    BY <1>6
  <2>2. outcome[h] # "no socket" \/ Descriptors <= Walks(h, Blocks)
    BY DEF Spent
  <2>3. Descriptors \in Nat /\ \A i, j, k \in Nat : i <= j /\ j <= k => i <= k
    OBVIOUS
  <2>4. Descriptors <= Walks(h, Blocks) => Descriptors <= Walks(h, Blocks)'
    BY <2>1, <2>3
  <2>5. QED
    BY <2>2, <2>4
<1>10. Spent(h)'
  BY <1>1, <1>3, <1>4, <1>8, <1>9 DEF Spent, LacksFile
<1>11. peers'[h] \subseteq Known
  BY <1>3 DEF Calm
<1>12. QED
  BY <1>10, <1>11

LEMMA SpentReader ==
    ASSUME TypeOK, Calm, NEW h \in Readers, AsksHost(h), Get(h) \/ Reader(h) \/ Interrupt(h),
           Spent(h)
    PROVE  Spent(h)'
<1> USE DEF Walking, LacksFile, spoilt
<1>a. h \in Hosts
  OBVIOUS
<1>1. CASE Answer(h)
  <2>1. /\ pc[h] = "asked" /\ UNCHANGED <<peers, running, block, todo, asked, fds, outcome>>
        /\ asked[h] \in Hosts /\ outcome[h] # "interrupted"
    BY <1>1 DEF Answer, AsksHost, Spent
  <2>a. block[h] \notin bad'[h] \cup missing'[h]
    <3>1. block[h] \notin bad[h] \cup missing[h]
      BY <2>1 DEF Spent
    <3>2. bad'[h] \cup missing'[h] = bad[h] \cup missing[h]
      BY <1>1, <2>1, AnswerEffect
    <3>3. QED
      BY <3>1, <3>2
  <2>2. Dead(h)' = Dead(h) /\ \A b : Walks(h, b)' = Walks(h, b)
    BY <2>1, SameDead
  <2>3. coming'[h] \subseteq Known
    BY <1>1, <2>1, Domains DEF Answer, Calm, AsksHost, Spent
  <2>4. CASE pc'[h] = "check"
    <3>1. Spends(h, Walks(h, block[h]))
      BY <2>1, WalkEnds DEF Spent
    <3>2. Spends(h, Walks(h, block[h]))'
      BY <2>1, <2>2, <3>1 DEF Spends
    <3>3. QED
      BY <2>1, <2>2, <2>3, <2>4, <2>a, <3>2 DEF Spent
  <2>5. CASE pc'[h] = "peers"
    <3>1. Spends(h, Walks(h, block[h] - 1) + Cardinality(Dead(h) \ todo[h]))'
      BY <2>1, <2>2 DEF Spent, Spends
    <3>2. QED
      BY <2>1, <2>2, <2>3, <2>5, <2>a, <3>1 DEF Spent
  <2>6. CASE pc'[h] = "unanswered"
    <3>1. Spends(h, Walks(h, block[h] - 1) + Cardinality(Dead(h) \ todo[h]))'
      BY <2>1, <2>2 DEF Spent, Spends
    <3>2. block[h] \in missing'[asked[h]]
      BY <1>1, <2>1, <2>6, Domains DEF Answer, Goto
    <3>3. QED
      BY <2>1, <2>2, <2>3, <2>6, <2>a, <3>1, <3>2 DEF Spent
  <2>7. QED
    BY <1>1, <2>4, <2>5, <2>6, Domains DEF Answer, Goto
<1>2. CASE Lost(h)
  BY <1>2 DEF Lost, Calm, AsksHost
<1>3. CASE EndPeers(h)
  <2>1. /\ pc[h] = "peers" /\ pc'[h] = "walk"
        /\ UNCHANGED <<peers, held, bad, missing, block, todo, asked, coming, fds, outcome>>
    BY <1>3, Domains DEF EndPeers, Goto, lookup
  <2>2. Dead(h)' = Dead(h) /\ \A b : Walks(h, b)' = Walks(h, b)
    BY <2>1, SameDead
  <2>3. Spends(h, Walks(h, block[h] - 1) + Cardinality(Dead(h) \ todo[h]))'
    BY <2>1, <2>2 DEF Spent, Spends
  <2>4. QED
    BY <2>1, <2>2, <2>3 DEF Spent
<1>4. CASE EndWalk(h)
  <2>1. /\ pc[h] = "walk" /\ pc'[h] = "check"
        /\ UNCHANGED <<peers, held, bad, missing, block, todo, asked, coming, fds, outcome>>
    BY <1>4, Domains DEF EndWalk, Goto, lookup
  <2>2. Dead(h)' = Dead(h) /\ \A b : Walks(h, b)' = Walks(h, b)
    BY <2>1, SameDead
  <2>3. Spends(h, Walks(h, block[h]))
    BY <2>1, WalkEnds DEF Spent
  <2>4. Spends(h, Walks(h, block[h]))'
    BY <2>1, <2>2, <2>3 DEF Spends
  <2>5. QED
    BY <2>1, <2>2, <2>4 DEF Spent
<1>5. CASE Check(h)
  <2>1. /\ pc[h] = "check" /\ UNCHANGED <<peers, held, bad, missing, block, todo, asked, coming, fds>>
        /\ \/ pc'[h] = "read" /\ block[h] \in held[h] /\ outcome' = outcome
           \/ pc'[h] = "idle" /\ outcome'[h] = "not found"
    BY <1>5, Domains DEF Check, Goto, End, lookup, Registered, Spent
  <2>2. Dead(h)' = Dead(h) /\ \A b : Walks(h, b)' = Walks(h, b)
    BY <2>1, SameDead
  <2>3. Spends(h, Walks(h, block[h]))'
    BY <2>1, <2>2 DEF Spent, Spends
  <2>4. QED
    BY <2>1, <2>2, <2>3 DEF Spent
<1>6. CASE Interrupt(h)
  <2>1. /\ pc[h] = "unanswered" /\ pc'[h] = "idle" /\ outcome'[h] = "interrupted"
        /\ UNCHANGED <<peers, held, missing, block, todo, asked, coming, fds>>
    BY <1>6, Domains DEF Interrupt, Goto, End, lookup
  <2>2. QED
    BY <2>1 DEF Spent
<1>7. QED
  BY <1>1, <1>2, <1>3, <1>4, <1>5, <1>6, SpentGet, SpentRead, SpentConnect, SpentReceive DEF Reader

LEMMA FrugalInit == Init => Frugal
<1> SUFFICES ASSUME Init PROVE Calm /\ \A h \in Readers : Spent(h)
  BY DEF Frugal
<1>1. Calm
  BY DEF Init, Calm, Known
<1>2. \A h \in Readers : coming[h] = {} /\ pc[h] = "idle" /\ outcome[h] = None
  BY DEF Init
<1>3. QED
  BY <1>1, <1>2 DEF Spent, None, Walking

LEMMA StillFrugal ==
    ASSUME Owing, Frugal, [Next]_vars, upsets' = 0
    PROVE  Calm' /\ \A k \in Readers : Spent(k)'
<1>1. TypeOK /\ upsets \in Nat
  <2>1. TypeOK
    BY DEF Owing
  <2>2. upsets \in 0..MaxUpsets
    BY <2>1 DEF TypeOK
  <2>3. QED
    BY <2>1, <2>2
<1>2. ASSUME NEW h \in Readers, Get(h) \/ Reader(h) \/ Interrupt(h)
      PROVE  Calm' /\ \A k \in Readers : Spent(k)'
  <2>1. upsets' = upsets /\ UNCHANGED running
    BY <1>2 DEF Get, Reader, ReadBlock, Connect, Answer, Lost, ReceivePeer, EndPeers, EndWalk,
                Check, Interrupt
  <2>2. Calm /\ AsksHost(h) /\ \A k \in Readers : Spent(k)
    BY <2>1 DEF Frugal, Owing, Sound
  <2>3. ASSUME NEW k \in Readers PROVE Spent(k)'
    BY <1>1, <1>2, <2>2, SpentOthers, SpentReader
  <2>4. CASE ReceivePeer(h)
    <3>1. peers'[h] \subseteq Known /\ \A a \in Hosts \ {h} : peers'[a] = peers[a]
      BY <1>1, <2>2, <2>4, SpentReceive, Domains DEF ReceivePeer
    <3>2. QED
      BY <2>1, <2>2, <2>3, <3>1 DEF Calm
  <2>5. CASE ~ReceivePeer(h)
    <3>1. UNCHANGED peers
      BY <1>2, <2>5 DEF Get, Reader, ReadBlock, Connect, Answer, Lost, EndPeers, EndWalk,
                        Check, Interrupt
    <3>2. QED
      BY <2>1, <2>2, <2>3, <3>1 DEF Calm
  <2>6. QED
    BY <2>4, <2>5
<1>3. CASE \/ \E h \in Hosts : AddPeer(h) \/ RemovePeer(h) \/ StopServer(h) \/ Rot(h)
           \/ \E h \in Readers : NoChild(h)
  <2>1. Upset
    BY <1>3 DEF AddPeer, RemovePeer, StopServer, Rot, NoChild
  <2>2. QED
    BY <1>1, <2>1 DEF Upset
<1>4. CASE \E h \in Hosts : StartServer(h)
  BY <1>1, <1>4 DEF StartServer, Frugal, Calm, TypeOK
<1>5. CASE UNCHANGED vars
  BY <1>5, SpentKept DEF vars, lookup, Frugal, Calm
<1>6. QED
  BY <1>2, <1>3, <1>4, <1>5 DEF Next

LEMMA FrugalStep == Owing /\ Frugal /\ [Next]_vars => Frugal'
BY StillFrugal DEF Frugal

\* For any number of hosts, readers and blocks: as long as no server stops or
\* fails to fork, no file is damaged and nobody types an address, tnfs get fails
\* only if it runs out of sockets (network.c:157), and that takes as many dead
\* addresses among its peers as it may have sockets, over all the blocks of the
\* file; or if it was interrupted while it waited for a peer that has lost the
\* file of the block and kept its entry (tnfs-server.c:131), unless that peer
\* reads files itself (FailsForCause).
THEOREM FailsForCauseHolds == Spec => []FailsForCause
<1>1. Frugal => FailsForCause
  BY DEF Frugal, Spent, FailsForCause, Walks, Dead, LacksFile
<1>2. Init => Owing /\ Frugal
  BY OwingInit, FrugalInit
<1>3. Owing /\ Frugal /\ [Next]_vars => Owing' /\ Frugal'
  BY OwingStep, FrugalStep
<1>4. QED
  BY <1>1, <1>2, <1>3, PTL DEF Spec
=============================================================================
