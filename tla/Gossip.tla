------------------------------- MODULE Gossip -------------------------------
(***************************************************************************)
(* Several hosts that learn of each other.  A host that misses a block     *)
(* asks the peers it knows, one after the other (look_for_block); whoever  *)
(* does not have the block sends the addresses it knows, and these are     *)
(* asked the next time.  A peer may also never answer: its file of the     *)
(* block is gone, or it could not make a child.  The conversation with one *)
(* peer is the subject of Exchange; a block that arrives bad is one that   *)
(* did not arrive, as BlockStore shows.                                    *)
(***************************************************************************)
EXTENDS Integers, FiniteSets

CONSTANTS
    Hosts,        \* the address of each host stands for the host
    Readers,      \* hosts where tnfs get is run
    Nobody,       \* addresses where nobody ever listens
    Malformed,    \* addresses without a colon
    Empty,        \* the empty string, which is one of them
    Blocks,       \* the file has the blocks 1..Blocks
    Descriptors,  \* sockets a process may have open
    Typed,        \* what the user types after "peer add" and "peer remove"
    MaxUpsets     \* bound: servers stopped, forks failed, blocks gone bad,
                  \*        addresses added and removed

Addresses == Hosts \cup Nobody \cup Malformed

ASSUME GossipAssumption ==
    /\ Readers \subseteq Hosts /\ Typed \subseteq Addresses
    /\ Hosts \cap (Nobody \cup Malformed) = {} /\ Nobody \cap Malformed = {}
    /\ Empty \in Malformed /\ "block" \notin Addresses
    /\ IsFiniteSet(Nobody)
    /\ Blocks \in Nat \ {0} /\ Descriptors \in Nat \ {0} /\ MaxUpsets \in Nat

VARIABLES
    peers,    \* peers[h]: database 1 of Redis on host h
    held,     \* held[h]: the blocks that host h has, registered and whole
    bad,      \* bad[h]: registered, and the file is not the block
    missing,  \* missing[h]: registered, without a file
    running,  \* the hosts whose tnfs-server runs
    pc,       \* pc[h]: what tnfs get does on h
    block,    \* block[h]: the block it reads
    todo,     \* todo[h]: peers that the lookup has still to ask
    asked,    \* asked[h]: the peer that it talks to
    coming,   \* coming[h]: addresses it expects from that peer
    fds,      \* fds[h]: sockets it may still open
    outcome,  \* outcome[h]: how the last tnfs get on h ended
    owed,     \* history: what each peer had to tell when the lookup began
    upsets    \* upsets so far

vars == <<peers, held, bad, missing, running, pc, block, todo, asked, coming,
          fds, outcome, owed, upsets>>
lookup == <<todo, asked, coming, owed>>
spoilt == <<bad, missing>>

None == "none"

Init ==
    /\ peers \in [Hosts -> SUBSET (Hosts \cup Nobody)]
    /\ held \in [Hosts -> SUBSET (1..Blocks)]
    /\ bad \in [Hosts -> SUBSET (1..Blocks)]
    /\ missing \in [Hosts -> SUBSET (1..Blocks)]
    /\ \A h \in Hosts : /\ held[h] \cap (bad[h] \cup missing[h]) = {}
                         /\ bad[h] \cap missing[h] = {}
    /\ running = Hosts
    /\ pc = [h \in Readers |-> "idle"]
    /\ block = [h \in Readers |-> 1]
    /\ todo = [h \in Readers |-> {}]
    /\ asked = [h \in Readers |-> None]
    /\ coming = [h \in Readers |-> {}]
    /\ fds = [h \in Readers |-> Descriptors]
    /\ outcome = [h \in Readers |-> None]
    /\ owed = [h \in Readers |-> [a \in Hosts |-> {}]]
    /\ upsets = 0
-----------------------------------------------------------------------------
(* tnfs get: the blocks of a file are read in order.                       *)

Goto(h, l) == pc' = [pc EXCEPT ![h] = l]

\* The process ends; what it had open is closed.
End(h, o) ==
    /\ Goto(h, "idle")
    /\ outcome' = [outcome EXCEPT ![h] = o]

Get(h) ==
    /\ pc[h] = "idle"
    /\ Goto(h, "read")
    /\ block' = [block EXCEPT ![h] = 1]
    /\ fds' = [fds EXCEPT ![h] = Descriptors]
    /\ outcome' = [outcome EXCEPT ![h] = None]
    /\ UNCHANGED <<peers, held, spoilt, running, lookup, upsets>>

\* What peer a can be expected to tell h: the block, or the addresses it has,
\* or nothing at all, if it has registered the block and lost the file.
Tells(h, a) ==
    CASE block[h] \in held[a] -> {"block"}
      [] block[h] \in missing[a] \ held[a] -> {}
      [] OTHER -> peers[a]

\* read_block deletes the entry of a block that it cannot open or that is
\* bad, with its file.
Forget(h) ==
    /\ bad' = [bad EXCEPT ![h] = @ \ {block[h]}]
    /\ missing' = [missing EXCEPT ![h] = @ \ {block[h]}]

\* read_block, and the beginning of look_for_block: get_all_peers takes all
\* the addresses apart, and atoi(NULL) ends the process if one has no colon.
ReadBlock(h) ==
    /\ pc[h] = "read"
    /\ \/ /\ block[h] \in held[h]
          /\ IF block[h] < Blocks
             THEN block' = [block EXCEPT ![h] = @ + 1] /\ UNCHANGED <<pc, outcome>>
             ELSE End(h, "found") /\ UNCHANGED block
          /\ UNCHANGED <<lookup, spoilt>>
       \/ /\ block[h] \notin held[h] /\ peers[h] \cap Malformed # {}
          /\ Forget(h)
          /\ End(h, "malformed address")
          /\ UNCHANGED <<block, lookup>>
       \/ /\ block[h] \notin held[h] /\ peers[h] \cap Malformed = {}
          /\ Forget(h)
          /\ Goto(h, "walk")
          /\ todo' = [todo EXCEPT ![h] = peers[h]]
          /\ owed' = [owed EXCEPT ![h] = [a \in Hosts |->
                         IF a \in peers[h] \cap running THEN Tells(h, a) ELSE {}]]
          /\ UNCHANGED <<block, asked, coming, outcome>>
    /\ UNCHANGED <<peers, held, running, fds, upsets>>

\* Mutant of Connect: the loop is left when a peer does not answer.
ConnectOrStop(h) ==
    /\ pc[h] = "walk"
    /\ \E a \in todo[h] :
        /\ asked' = [asked EXCEPT ![h] = a]
        /\ IF a \in running
           THEN todo' = [todo EXCEPT ![h] = @ \ {a}] /\ Goto(h, "asked")
           ELSE todo' = [todo EXCEPT ![h] = {}] /\ UNCHANGED pc
    /\ UNCHANGED <<peers, held, spoilt, running, block, coming, fds, outcome, owed, upsets>>

\* Mutant of Connect: the result of socket is not tested.
ConnectUntested(h) ==
    /\ pc[h] = "walk"
    /\ \E a \in todo[h] :
        /\ todo' = [todo EXCEPT ![h] = @ \ {a}]
        /\ asked' = [asked EXCEPT ![h] = a]
        /\ IF a \in running
           THEN Goto(h, "asked") /\ UNCHANGED fds
           ELSE fds' = [fds EXCEPT ![h] = @ - 1] /\ UNCHANGED pc
    /\ UNCHANGED <<peers, held, spoilt, running, block, coming, outcome, owed, upsets>>

\* create_socket: a socket that cannot be connected is not closed.
Connect(h) ==
    /\ pc[h] = "walk"
    /\ \E a \in todo[h] :
        IF fds[h] = 0
        THEN End(h, "no socket") /\ UNCHANGED <<todo, asked, fds>>
        ELSE /\ todo' = [todo EXCEPT ![h] = @ \ {a}]
             /\ asked' = [asked EXCEPT ![h] = a]
             /\ IF a \in running
                THEN Goto(h, "asked") /\ UNCHANGED fds
                ELSE fds' = [fds EXCEPT ![h] = @ - 1] /\ UNCHANGED pc
             /\ UNCHANGED outcome
    /\ UNCHANGED <<peers, held, spoilt, running, block, coming, owed, upsets>>

\* Another child of the same peer has met the same bad block.
AnotherAsks(h) ==
    \E k \in Readers \ {h} :
        pc[k] = "asked" /\ asked[k] = asked[h] /\ block[k] = block[h]

\* The answer is Y and the block follows, or N and then the addresses that
\* the peer has at that moment.  The child removes the file of a bad block
\* and leaves the entry; if the entry has no file it ends without an answer,
\* and its parent keeps the socket.  Two children may find the block bad
\* before one of them removes it.
Answer(h) ==
    /\ pc[h] = "asked" /\ asked[h] \in running
    /\ LET a == asked[h]
           b == block[h]
       IN  \/ /\ b \in held[a]
              /\ held' = [held EXCEPT ![h] = @ \cup {b}]
              /\ Goto(h, "check")
              /\ UNCHANGED <<coming, spoilt>>
           \/ /\ b \in missing[a] \ held[a]
              /\ Goto(h, "unanswered")
              /\ UNCHANGED <<held, coming, spoilt>>
           \/ /\ b \notin held[a] \cup missing[a]
              /\ coming' = [coming EXCEPT ![h] = peers[a]]
              /\ Goto(h, "peers")
              /\ \/ /\ bad' = [bad EXCEPT ![a] = @ \ {b}]
                    /\ missing' = [missing EXCEPT ![a] = @ \cup ({b} \cap bad[a])]
                 \/ AnotherAsks(h) /\ UNCHANGED spoilt
              /\ UNCHANGED held
    /\ UNCHANGED <<peers, running, block, todo, asked, fds, outcome, owed, upsets>>

\* The server went away: the next peer is asked, or a file that was cut is
\* found to be bad and the lookup starts again, or the process ends.
Lost(h) ==
    /\ pc[h] \in {"asked", "unanswered"} /\ asked[h] \notin running
    /\ \/ Goto(h, "walk") /\ UNCHANGED outcome
       \/ pc[h] = "asked" /\ Goto(h, "read") /\ UNCHANGED outcome
       \/ End(h, "lost")
    /\ UNCHANGED <<peers, held, spoilt, running, block, lookup, fds, upsets>>

\* One turn of the loop of receive_peers.  If the server went away, what it
\* sent still arrives, and an empty string is stored for the others.
ReceivePeer(h) ==
    /\ pc[h] = "peers"
    /\ \E a \in coming[h] :
        /\ coming' = [coming EXCEPT ![h] = @ \ {a}]
        /\ \/ peers' = [peers EXCEPT ![h] = @ \cup {a}]
           \/ /\ asked[h] \notin running
              /\ peers' = [peers EXCEPT ![h] = @ \cup {Empty}]
    /\ UNCHANGED <<held, spoilt, running, pc, block, todo, asked, fds, outcome, owed, upsets>>

\* Mutant of EndPeers: the lookup ends once a peer has sent addresses.
EndLookup(h) ==
    /\ pc[h] = "peers" /\ coming[h] = {}
    /\ Goto(h, "check")
    /\ UNCHANGED <<peers, held, spoilt, running, block, lookup, fds, outcome, upsets>>

\* Mutant of EndPeers: the socket is closed only after a block.
EndPeersOpen(h) ==
    /\ pc[h] = "peers" /\ coming[h] = {}
    /\ Goto(h, "walk")
    /\ fds' = [fds EXCEPT ![h] = IF @ = 0 THEN 0 ELSE @ - 1]
    /\ UNCHANGED <<peers, held, spoilt, running, block, lookup, outcome, upsets>>

EndPeers(h) ==
    /\ pc[h] = "peers" /\ coming[h] = {}
    /\ Goto(h, "walk")
    /\ UNCHANGED <<peers, held, spoilt, running, block, lookup, fds, outcome, upsets>>

EndWalk(h) ==
    /\ pc[h] = "walk" /\ todo[h] = {}
    /\ Goto(h, "check")
    /\ UNCHANGED <<peers, held, spoilt, running, block, lookup, fds, outcome, upsets>>

Registered(h) == held[h] \cup bad[h] \cup missing[h]

\* read_block looks again, "Block not found on the network."
Check(h) ==
    /\ pc[h] = "check"
    /\ IF block[h] \in Registered(h) THEN Goto(h, "read") /\ UNCHANGED outcome
                                     ELSE End(h, "not found")
    /\ UNCHANGED <<peers, held, spoilt, running, block, lookup, fds, upsets>>

Reader(h) ==
    \/ ReadBlock(h) \/ Connect(h) \/ Answer(h) \/ Lost(h)
    \/ ReceivePeer(h) \/ EndPeers(h) \/ EndWalk(h) \/ Check(h)
-----------------------------------------------------------------------------
(* The users and the hosts.                                                *)

\* The user interrupts a command that waits for an answer that never comes.
Interrupt(h) ==
    /\ pc[h] = "unanswered"
    /\ End(h, "interrupted")
    /\ UNCHANGED <<peers, held, spoilt, running, block, lookup, fds, upsets>>

\* What a lookup can no longer count on when peer a stops or forgets p.
Forgive(a, tells) ==
    owed' = [h \in Readers |->
               IF a = h THEN [b \in Hosts |-> owed[h][b] \ tells]
                        ELSE [owed[h] EXCEPT ![a] = @ \ tells]]

Upset == upsets < MaxUpsets /\ upsets' = upsets + 1

\* tnfs peer add: the address is stored as it was typed.
AddPeer(h) ==
    /\ Upset
    /\ \E a \in Typed : peers' = [peers EXCEPT ![h] = @ \cup {a}]
    /\ UNCHANGED <<held, spoilt, running, pc, block, lookup, fds, outcome>>

RemovePeer(h) ==
    /\ Upset
    /\ \E a \in Typed \cap peers[h] :
        /\ peers' = [peers EXCEPT ![h] = @ \ {a}]
        /\ Forgive(h, {a})
    /\ UNCHANGED <<held, spoilt, running, pc, block, todo, asked, coming, fds, outcome>>

StopServer(h) ==
    /\ h \in running /\ Upset
    /\ running' = running \ {h}
    /\ Forgive(h, Addresses \cup {"block"})
    /\ UNCHANGED <<peers, held, spoilt, pc, block, todo, asked, coming, fds, outcome>>

\* A reader that waits in vain notices the stop before the server is back.
StartServer(h) ==
    /\ h \notin running
    /\ \A k \in Readers : ~(pc[k] = "unanswered" /\ asked[k] = h)
    /\ running' = running \cup {h}
    /\ UNCHANGED <<peers, held, spoilt, pc, block, lookup, fds, outcome, upsets>>

\* The server that h has asked cannot fork: nobody answers.
NoChild(h) ==
    /\ pc[h] = "asked" /\ asked[h] \in running /\ Upset
    /\ Goto(h, "unanswered")
    /\ UNCHANGED <<peers, held, spoilt, running, block, lookup, fds, outcome>>

\* The file of a block is damaged.
Rot(h) ==
    /\ Upset
    /\ \E b \in held[h] :
        /\ held' = [held EXCEPT ![h] = @ \ {b}]
        /\ bad' = [bad EXCEPT ![h] = @ \cup {b}]
        /\ owed' = [k \in Readers |->
                      IF block[k] = b THEN [owed[k] EXCEPT ![h] = @ \ {"block"}]
                                      ELSE owed[k]]
    /\ UNCHANGED <<peers, missing, running, pc, block, todo, asked, coming, fds, outcome>>

Next ==
    \/ \E h \in Readers : Get(h) \/ Reader(h) \/ Interrupt(h) \/ NoChild(h)
    \/ \E h \in Hosts : \/ AddPeer(h) \/ RemovePeer(h) \/ Rot(h)
                        \/ StopServer(h) \/ StartServer(h)

Spec == Init /\ [][Next]_vars

\* A command that was started goes on as long as a server or the disk lets it,
\* a user interrupts one that hangs, and starts it again as long as it has not
\* found the file.
Fairness ==
    \A h \in Readers :
        /\ WF_vars(Reader(h))
        /\ WF_vars(Interrupt(h))
        /\ WF_vars(Get(h) /\ outcome[h] # "found")

FairSpec == Spec /\ Fairness
-----------------------------------------------------------------------------
(* Properties.                                                             *)

\* Type invariant.
TypeOK ==
    /\ peers \in [Hosts -> SUBSET Addresses]
    /\ held \in [Hosts -> SUBSET (1..Blocks)]
    /\ bad \in [Hosts -> SUBSET (1..Blocks)]
    /\ missing \in [Hosts -> SUBSET (1..Blocks)]
    /\ running \subseteq Hosts
    /\ pc \in [Readers -> {"idle", "read", "walk", "asked", "unanswered", "peers",
                            "check"}]
    /\ block \in [Readers -> 1..Blocks]
    /\ todo \in [Readers -> SUBSET Addresses]
    /\ asked \in [Readers -> Addresses \cup {None}]
    /\ coming \in [Readers -> SUBSET Addresses]
    /\ fds \in [Readers -> 0..Descriptors]
    /\ outcome \in [Readers -> {None, "found", "not found", "malformed address",
                                "no socket", "lost", "interrupted"}]
    /\ owed \in [Readers -> [Hosts -> SUBSET (Addresses \cup {"block"})]]
    /\ upsets \in 0..MaxUpsets

\* A lookup that finds nothing was exhaustive, though the peers are read
\* only once (network.c:79): no peer that was known at its start, and ran
\* all the time, had the block, and the addresses that such a peer had are
\* now known, unless one of the two hosts removed them.
NotFoundIsExhaustive ==
    \A h \in Readers :
        outcome[h] = "not found" => UNION {owed[h][a] : a \in Hosts} \subseteq peers[h]

\* As long as no server stops or fails to fork, no file is damaged and nobody
\* types an address, a command ends without a result only if it runs out of
\* sockets (network.c:157), which takes as many dead peers as it may have
\* sockets, over all the blocks, or if it was interrupted waiting for a peer
\* that has the block in its registry and not on its disk (tnfs-server.c:131);
\* a peer that gets the file itself may have deleted the entry since.
FailsForCause ==
    \A h \in Readers :
        upsets = 0 =>
            \/ outcome[h] \in {None, "found", "not found"}
            \/ /\ outcome[h] = "no socket"
               /\ Descriptors <= Blocks * Cardinality(peers[h] \cap Nobody)
            \/ /\ outcome[h] = "interrupted"
               /\ asked[h] \in Readers \/ block[h] \in missing[asked[h]]

\* The hosts that h reaches through the peers of peers, in n steps.
Reach(h) ==
    LET within[n \in Nat] ==
          IF n = 0 THEN {h}
          ELSE within[n - 1] \cup
               (UNION {peers[a] : a \in within[n - 1]} \cap running)
    IN  within[Cardinality(Hosts)]

\* What it takes for h to get the file: every block is at a host it reaches,
\* no host on the way has lost the file of a block that h lacks, and none has
\* a malformed address, or dead ones enough to use up the sockets of a process.
Obtainable(h) ==
    /\ \A b \in 1..Blocks : \E a \in Reach(h) : b \in held[a]
    /\ \A a \in Reach(h) \ {h} : missing[a] \subseteq held[h]
    /\ UNION {peers[a] : a \in Reach(h)} \cap Malformed = {}
    /\ Cardinality(UNION {peers[a] : a \in Reach(h)} \ running) < Descriptors

\* A file that stays obtainable is found, if the user tries often enough:
\* each lookup brings the addresses of the next hosts, and the blocks that
\* were found are kept when a command fails.
FileFound ==
    \A h \in Readers : <>[]Obtainable(h) => <>(outcome[h] = "found")
=============================================================================
