------------------------------ MODULE MCGossip ------------------------------
(* Instances of Gossip for TLC: who knows whom, and who has what.          *)
EXTENDS Gossip

CONSTANTS Relay, Holder   \* hosts

At(h, blocks) == [k \in Hosts |-> IF k = h THEN blocks ELSE {}]

\* The readers miss the blocks; the relay has the first one and the holder
\* the others, or the holder has them all, and then the relay may have a bad
\* copy of the first.  At the start nobody knows itself or a reader.
MCInit ==
    /\ \/ /\ held = [At(Holder, 2..Blocks) EXCEPT ![Relay] = {1}]
          /\ bad = At(Relay, {})
       \/ /\ held = At(Holder, 1..Blocks)
          /\ bad \in {At(Relay, {}), At(Relay, {1})}
    /\ missing = At(Relay, {})
    /\ Init
    /\ \A h \in Hosts : peers[h] \cap ({h} \cup Readers) = {}
    /\ peers[Holder] \subseteq {Relay}

MCFairSpec == MCInit /\ [][Next]_vars /\ Fairness
=============================================================================
