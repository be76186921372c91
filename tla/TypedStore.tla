----------------------------- MODULE TypedStore -----------------------------
(***************************************************************************)
(* What the functions of redis.c promise to the rest of the program: each  *)
(* call acts once, at one instant between its start and its end, on the    *)
(* database of its own type, and returns what it found there.              *)
(***************************************************************************)
EXTENDS Registry, Sequences

CONSTANTS
    Procs,    \* the processes
    Scripts   \* Scripts[p]: the sequences of calls that p may make

VARIABLES
    db,       \* db[type][key]: the value stored, or Absent
    todo,     \* the calls a process has still to make, the current one first
    state,    \* "idle", "called" or "applied"
    answer    \* what the last call found

vars == <<db, todo, state, answer>>

Init ==
    /\ db \in [Types -> [Keys -> Values \cup {Absent}]]
    /\ todo \in [Procs -> UNION {Scripts[p] : p \in Procs}]
    /\ \A p \in Procs : todo[p] \in Scripts[p]
    /\ state = [p \in Procs |-> "idle"]
    /\ answer = [p \in Procs |-> Nothing]

Call(p) ==
    /\ state[p] = "idle" /\ todo[p] # <<>>
    /\ state' = [state EXCEPT ![p] = "called"]
    /\ UNCHANGED <<db, todo, answer>>

Apply(p) ==
    LET c == Head(todo[p]) IN
    /\ state[p] = "called"
    /\ state' = [state EXCEPT ![p] = "applied"]
    /\ db' = [db EXCEPT ![c.type] = Effect(Command(c), @)]
    /\ answer' = [answer EXCEPT
                    ![p] = Understood(c, Reply(Command(c), db[c.type]))]
    /\ UNCHANGED todo

Return(p) ==
    /\ state[p] = "applied"
    /\ state' = [state EXCEPT ![p] = "idle"]
    /\ todo' = [todo EXCEPT ![p] = Tail(@)]
    /\ UNCHANGED <<db, answer>>

Next == \E p \in Procs : Call(p) \/ Apply(p) \/ Return(p)

Spec == Init /\ [][Next]_vars
=============================================================================
