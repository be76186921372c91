-------------------------- MODULE RedisClientProof --------------------------
(***************************************************************************)
(* With a connection of its own, every process makes its calls as the      *)
(* registry promises: RedisClient implements TypedStore.                   *)
(***************************************************************************)
EXTENDS RedisClient, TLAPS

\* The one command of p that is under way, x, and the reply to it, if it
\* was served, somewhere between p and Redis.
Unserved(p, x) ==
    LET n == Via[p] IN
    /\ rep[n] = <<>> /\ reader[p] = <<>>
    /\ \/ obuf[p] = <<x>> /\ req[n] = <<>>
       \/ obuf[p] = <<>> /\ req[n] = <<x>>

Served(p) ==
    LET n == Via[p] IN
    /\ obuf[p] = <<>> /\ req[n] = <<>>
    /\ \/ \E r \in Replies : rep[n] = <<r>> /\ reader[p] = <<>>
       \/ \E r \in Replies : rep[n] = <<>> /\ reader[p] = <<r>>

Quiet(p) ==
    LET n == Via[p] IN
    obuf[p] = <<>> /\ req[n] = <<>> /\ rep[n] = <<>> /\ reader[p] = <<>>

\* A process never has more than one command under way, and its connection
\* has selected the type of its call before the command proper is sent.
Pipe(p) ==
    LET c == Head(todo[p])
        selected == sel[Via[p]] = c.type
    IN  \/ step[p] = "idle" /\ Quiet(p)
        \/ /\ step[p] = "select" /\ todo[p] # <<>>
           /\ Unserved(p, Select(c.type)) \/ (Served(p) /\ selected)
        \/ /\ step[p] = "command" /\ todo[p] # <<>>
           /\ (Unserved(p, Command(c)) /\ selected) \/ Served(p)

PipeInv ==
    /\ TypeOK
    /\ \A p \in Procs : Pipe(p)
    /\ \A n \in Conns : (\A p \in Procs : Via[p] # n) => req[n] = <<>>

USE KeysAssumption, ScriptsAssumption, ViaAssumption
-----------------------------------------------------------------------------
(* Commands and replies.                                                   *)

LEMMA CallFacts ==
    ASSUME NEW c \in Calls
    PROVE  /\ c.type \in Types
           /\ Command(c) \in Commands /\ Command(c).op = c.op
           /\ c.op # "SELECT"
BY DEF Calls, Types, Command, Commands

LEMMA CommandFacts ==
    ASSUME NEW cmd \in Commands
    PROVE  /\ cmd.op = "GET" => cmd.key \in Keys
           /\ cmd.op = "SET" => cmd.value \in Values
           /\ cmd.op = "SELECT" => cmd.key \in Types
<1>1. CASE cmd \in {Select(t) : t \in Types}
  BY <1>1 DEF Select
<1>2. CASE cmd \in {Command(c) : c \in Calls}
  <2>1. PICK c \in Calls : cmd = Command(c)
    BY <1>2
  <2>2. /\ cmd.op = c.op /\ cmd.key = c.key /\ cmd.value = c.value
    BY <2>1 DEF Command
  <2>3. QED
    BY <2>2 DEF Calls, Keys, Values
<1>3. QED
  BY <1>1, <1>2 DEF Commands

LEMMA SelectFacts ==
    ASSUME NEW t \in Types
    PROVE  Select(t) \in Commands /\ Select(t).op = "SELECT" /\ Select(t).key = t
BY DEF Select, Commands

LEMMA EffectType ==
    ASSUME NEW cmd \in Commands, NEW table \in [Keys -> Values \cup {Absent}]
    PROVE  Effect(cmd, table) \in [Keys -> Values \cup {Absent}]
BY CommandFacts DEF Effect

LEMMA ReplyType ==
    ASSUME NEW cmd \in Commands, NEW table \in [Keys -> Values \cup {Absent}]
    PROVE  Reply(cmd, table) \in Replies
<1>1. cmd.op = "GET" /\ table[cmd.key] # Absent => table[cmd.key] \in Values
  BY CommandFacts
<1>2. "null" \in Values
  BY DEF Values
<1>3. QED
  BY <1>1, <1>2 DEF Reply, Replies

LEMMA UnderstoodType ==
    ASSUME NEW c \in Calls, NEW r \in Replies
    PROVE  Understood(c, r) \in Replies
BY DEF Understood, Replies, Values

-----------------------------------------------------------------------------
(* The invariant.                                                          *)

LEMMA InitPipe == Init => PipeInv
<1> SUFFICES ASSUME Init PROVE PipeInv
  OBVIOUS
<1>1. todo \in [Procs -> Seq(Calls)]
  BY DEF Init
<1>2. Nothing \in Replies
  BY DEF Nothing, Replies, Values
<1>3. TypeOK
  BY <1>1, <1>2 DEF Init, TypeOK, Types
<1>4. \A p \in Procs : Pipe(p)
  BY DEF Init, Pipe, Quiet
<1>5. QED
  BY <1>3, <1>4 DEF PipeInv, Init

\* A step of p leaves the pipes of the others as they are.
LEMMA OtherPipes ==
    ASSUME OwnConnection, NEW p \in Procs, NEW q \in Procs \ {p}, Pipe(q),
           step'[q] = step[q], todo'[q] = todo[q], obuf'[q] = obuf[q],
           reader'[q] = reader[q],
           \A n \in Conns \ {Via[p]} :
               req'[n] = req[n] /\ rep'[n] = rep[n] /\ sel'[n] = sel[n]
    PROVE  Pipe(q)'
<1>1. Via[q] \in Conns \ {Via[p]}
  BY DEF OwnConnection
<1>2. /\ req'[Via[q]] = req[Via[q]] /\ rep'[Via[q]] = rep[Via[q]]
      /\ sel'[Via[q]] = sel[Via[q]]
  BY <1>1
<1>3. QED
  BY <1>2 DEF Pipe, Unserved, Served, Quiet

LEMMA RunPipe ==
    ASSUME OwnConnection, PipeInv, NEW p \in Procs, Run(p)
    PROVE  PipeInv'
<1>a. TypeOK /\ Pipe(p) /\ Via[p] \in Conns
  BY DEF PipeInv
<1>b. todo[p] \in Seq(Calls) /\ (todo[p] # <<>> => Head(todo[p]) \in Calls)
  BY <1>a DEF TypeOK
<1> DEFINE c == Head(todo[p])
<1> DEFINE n == Via[p]
<1>1. CASE Call(p)
  <2>1. Quiet(p) /\ todo[p] # <<>> /\ c \in Calls
    BY <1>a, <1>b, <1>1 DEF Call, Pipe
  <2>2. Select(c.type) \in Commands
    BY <2>1, CallFacts, SelectFacts
  <2>3. TypeOK'
    BY <1>a, <1>1, <2>1, <2>2 DEF Call, TypeOK, wire
  <2>4. Pipe(p)'
    <3>1. obuf'[p] = <<Select(c.type)>>
      BY <1>a, <1>1, <2>1, <2>2 DEF Call, Quiet, TypeOK
    <3>2. step'[p] = "select" /\ UNCHANGED <<todo, req, rep, reader, sel>>
      BY <1>a, <1>1 DEF Call, TypeOK, wire
    <3>3. QED
      BY <2>1, <3>1, <3>2 DEF Pipe, Unserved, Quiet
  <2>5. ASSUME NEW q \in Procs \ {p} PROVE Pipe(q)'
    BY <1>a, <1>1, OtherPipes DEF Call, wire, PipeInv, TypeOK
  <2>6. QED
    BY <1>1, <2>3, <2>4, <2>5 DEF PipeInv, Call, wire
<1>2. CASE Flush(p)
  <2>1. PICK x : /\ obuf[p] = <<x>> /\ Unserved(p, x)
                 /\ \/ step[p] = "select" /\ x = Select(c.type)
                    \/ step[p] = "command" /\ x = Command(c) /\ sel[n] = c.type
    BY <1>a, <1>2 DEF Flush, Pipe, Quiet, Unserved, Served
  <2>2. req[n] = <<>> /\ rep[n] = <<>> /\ reader[p] = <<>>
    BY <2>1 DEF Unserved
  <2>3. /\ req'[n] = <<x>> /\ obuf'[p] = <<>>
        /\ UNCHANGED <<db, sel, rep, todo, step, reader, answer>>
    <3>1. req'[n] = req[n] \o obuf[p]
      BY <1>a, <1>2 DEF Flush, TypeOK
    <3>2. QED
      BY <1>a, <1>2, <2>1, <2>2, <3>1 DEF Flush, TypeOK
  <2>4. TypeOK'
    BY <1>a, <1>2 DEF Flush, TypeOK
  <2>5. Pipe(p)'
    BY <1>a, <2>1, <2>2, <2>3 DEF Pipe, Unserved, TypeOK
  <2>6. ASSUME NEW q \in Procs \ {p} PROVE Pipe(q)'
    BY <1>a, <1>2, OtherPipes DEF Flush, PipeInv, TypeOK
  <2>7. QED
    BY <1>a, <1>2, <2>4, <2>5, <2>6 DEF PipeInv, Flush, TypeOK
<1>3. CASE Read(p)
  <2>1. Served(p) /\ step[p] # "idle"
    BY <1>3 DEF Read, Pipe, Unserved, Quiet, PipeInv
  <2>2. PICK r \in Replies : rep[n] = <<r>> /\ reader[p] = <<>>
    BY <1>3, <2>1 DEF Read, Served
  <2>3. /\ reader'[p] = <<r>> /\ rep'[n] = <<>>
        /\ UNCHANGED <<db, sel, req, todo, step, obuf, answer>>
    BY <1>a, <1>3, <2>2 DEF Read, TypeOK
  <2>4. TypeOK'
    BY <1>a, <1>3 DEF Read, TypeOK
  <2>5. Served(p)'
    BY <2>1, <2>3 DEF Served
  <2>6. Pipe(p)'
    BY <1>a, <1>3, <2>1, <2>3, <2>5 DEF Pipe, Unserved, Quiet, Read
  <2>7. ASSUME NEW q \in Procs \ {p} PROVE Pipe(q)'
    BY <1>a, <1>3, OtherPipes DEF Read, PipeInv, TypeOK
  <2>8. QED
    BY <2>3, <2>4, <2>6, <2>7 DEF PipeInv
<1>4. CASE Selected(p)
  <2>1. Served(p) /\ sel[n] = c.type /\ todo[p] # <<>> /\ c \in Calls
    BY <1>b, <1>4, <1>a DEF Selected, Pipe, Unserved
  <2>2. PICK r \in Replies : reader[p] = <<r>> /\ rep[n] = <<>>
    BY <1>4, <2>1 DEF Selected, Served
  <2>3. Command(c) \in Commands /\ obuf[p] = <<>> /\ req[n] = <<>>
    BY <2>1, CallFacts DEF Served
  <2>4. /\ step'[p] = "command" /\ obuf'[p] = <<Command(c)>>
        /\ reader'[p] = <<>> /\ UNCHANGED <<db, sel, req, rep, todo>>
    BY <1>a, <1>4, <2>2, <2>3 DEF Selected, TypeOK, wire
  <2>5. TypeOK'
    BY <1>a, <1>4, <2>1, <2>3 DEF Selected, TypeOK, wire
  <2>6. Pipe(p)'
    BY <2>1, <2>2, <2>3, <2>4 DEF Pipe, Unserved
  <2>7. ASSUME NEW q \in Procs \ {p} PROVE Pipe(q)'
    BY <1>a, <1>4, OtherPipes DEF Selected, PipeInv, TypeOK, wire
  <2>8. QED
    BY <2>4, <2>5, <2>6, <2>7 DEF PipeInv
<1>5. CASE Return(p)
  <2>1. Served(p) /\ todo[p] # <<>> /\ c \in Calls
    BY <1>b, <1>5, <1>a DEF Return, Pipe, Unserved
  <2>2. PICK r \in Replies : reader[p] = <<r>> /\ rep[n] = <<>>
    BY <1>5, <2>1 DEF Return, Served
  <2>3. Understood(c, Head(reader[p])) \in Replies
    BY <2>1, <2>2, UnderstoodType
  <2>4. /\ step'[p] = "idle" /\ reader'[p] = <<>>
        /\ UNCHANGED <<db, sel, req, rep, obuf>>
    BY <1>a, <1>5, <2>2 DEF Return, TypeOK, wire
  <2>5. Tail(todo[p]) \in Seq(Calls)
    BY <1>b, <2>1
  <2>6. TypeOK'
    BY <1>a, <1>5, <2>3, <2>5 DEF Return, TypeOK, wire
  <2>7. Pipe(p)'
    BY <2>1, <2>2, <2>4 DEF Pipe, Served, Quiet
  <2>8. ASSUME NEW q \in Procs \ {p} PROVE Pipe(q)'
    BY <1>a, <1>5, OtherPipes DEF Return, PipeInv, TypeOK, wire
  <2>9. QED
    BY <2>4, <2>6, <2>7, <2>8 DEF PipeInv
<1>6. QED
  BY <1>1, <1>2, <1>3, <1>4, <1>5 DEF Run

\* What Redis serves is the command of the one process of the connection.
LEMMA ServedCommand ==
    ASSUME OwnConnection, PipeInv, NEW n \in Conns, req[n] # <<>>
    PROVE  \E p \in Procs :
             LET c == Head(todo[p]) IN
             /\ Via[p] = n /\ c \in Calls /\ todo[p] # <<>>
             /\ rep[n] = <<>> /\ reader[p] = <<>> /\ obuf[p] = <<>>
             /\ \/ step[p] = "select" /\ req[n] = <<Select(c.type)>>
                \/ /\ step[p] = "command" /\ req[n] = <<Command(c)>>
                   /\ sel[n] = c.type
<1>1. PICK p \in Procs : Via[p] = n
  BY DEF PipeInv
<1>2. Pipe(p) /\ todo[p] \in Seq(Calls)
  BY DEF PipeInv, TypeOK
<1>3. todo[p] # <<>> => Head(todo[p]) \in Calls
  BY <1>2
<1>4. QED
  BY <1>1, <1>2, <1>3 DEF Pipe, Unserved, Served, Quiet

LEMMA ServePipe ==
    ASSUME OwnConnection, PipeInv, NEW n \in Conns, Serve(n)
    PROVE  PipeInv'
<1> DEFINE cmd == Head(req[n])
<1>a. TypeOK /\ req[n] # <<>>
  BY DEF PipeInv, Serve
<1>1. PICK p \in Procs :
         LET c == Head(todo[p]) IN
         /\ Via[p] = n /\ c \in Calls /\ todo[p] # <<>>
         /\ rep[n] = <<>> /\ reader[p] = <<>> /\ obuf[p] = <<>>
         /\ \/ step[p] = "select" /\ req[n] = <<Select(c.type)>>
            \/ /\ step[p] = "command" /\ req[n] = <<Command(c)>>
               /\ sel[n] = c.type
  BY <1>a, ServedCommand
<1> DEFINE c == Head(todo[p])
<1>2. c \in Calls /\ c.type \in Types /\ cmd \in Commands
  BY <1>1, CallFacts, SelectFacts
<1>3. db[sel[n]] \in [Keys -> Values \cup {Absent}] /\ sel[n] \in Types
  BY <1>a DEF TypeOK
<1>4. Reply(cmd, db[sel[n]]) \in Replies /\ Effect(cmd, db[sel[n]]) \in [Keys -> Values \cup {Absent}]
  BY <1>2, <1>3, ReplyType, EffectType
<1>5. /\ req' = [req EXCEPT ![n] = Tail(@)]
      /\ rep' = [rep EXCEPT ![n] = Append(@, Reply(cmd, db[sel[n]]))]
      /\ UNCHANGED <<todo, step, obuf, reader, answer>>
  BY DEF Serve
<1>6. req'[n] = <<>> /\ rep'[n] = <<Reply(cmd, db[sel[n]])>>
  <2>1. req[n] = <<cmd>> /\ rep[n] = <<>>
    BY <1>1
  <2>2. /\ req'[n] = Tail(req[n])
        /\ rep'[n] = Append(rep[n], Reply(cmd, db[sel[n]]))
    BY <1>a, <1>5 DEF TypeOK
  <2>3. req'[n] = <<>>
    <3>1. PICK x : req[n] = <<x>>
      BY <1>1
    <3>2. Tail(<<x>>) = <<>>
      OBVIOUS
    <3>3. QED
      BY <2>2, <3>1, <3>2
  <2>4. rep'[n] = <<Reply(cmd, db[sel[n]])>>
    BY <2>1, <2>2
  <2>5. QED
    BY <2>3, <2>4
<1>7. Served(p)'
  BY <1>1, <1>4, <1>5, <1>6 DEF Served
<1>8. CASE step[p] = "select"
  <2>1. cmd.op = "SELECT" /\ cmd.key = c.type
    BY <1>1, <1>2, <1>8, SelectFacts
  <2>2. sel' = [sel EXCEPT ![n] = c.type] /\ UNCHANGED db
    BY <2>1 DEF Serve
  <2>3. TypeOK'
    BY <1>a, <1>2, <1>4, <1>5, <2>2 DEF TypeOK
  <2>4. Pipe(p)'
    BY <1>a, <1>1, <1>5, <1>7, <1>8, <2>2 DEF Pipe, TypeOK
  <2>5. ASSUME NEW q \in Procs \ {p} PROVE Pipe(q)'
    BY <1>a, <1>1, <1>5, <2>2, OtherPipes DEF PipeInv, TypeOK
  <2>6. QED
    BY <1>a, <1>1, <1>5, <2>3, <2>4, <2>5 DEF PipeInv, TypeOK
<1>9. CASE step[p] = "command"
  <2>1. cmd.op # "SELECT"
    BY <1>1, <1>2, <1>9, CallFacts
  <2>2. db' = [db EXCEPT ![sel[n]] = Effect(cmd, @)] /\ UNCHANGED sel
    BY <2>1 DEF Serve
  <2>3. TypeOK'
    BY <1>a, <1>3, <1>4, <1>5, <2>2 DEF TypeOK
  <2>4. Pipe(p)'
    BY <1>a, <1>1, <1>5, <1>7, <1>9, <2>2 DEF Pipe, TypeOK
  <2>5. ASSUME NEW q \in Procs \ {p} PROVE Pipe(q)'
    BY <1>a, <1>1, <1>5, <2>2, OtherPipes DEF PipeInv, TypeOK
  <2>6. QED
    BY <1>a, <1>1, <1>5, <2>3, <2>4, <2>5 DEF PipeInv, TypeOK
<1>10. QED
  BY <1>1, <1>8, <1>9

LEMMA NextPipe == OwnConnection /\ PipeInv /\ [Next]_vars => PipeInv'
<1> SUFFICES ASSUME OwnConnection, PipeInv, [Next]_vars PROVE PipeInv'
  OBVIOUS
<1>1. CASE UNCHANGED vars
  BY <1>1 DEF vars, PipeInv, TypeOK, Pipe, Unserved, Served, Quiet
<1>2. QED
  BY <1>1, RunPipe, ServePipe DEF Next, Finished

\* Types, for every number of processes with connections of their own.
THEOREM RedisTypeCorrect == OwnConnection /\ Spec => []TypeOK
<1> SUFFICES ASSUME OwnConnection PROVE Spec => []TypeOK
  OBVIOUS
<1>1. PipeInv => TypeOK
  BY DEF PipeInv
<1>2. PipeInv /\ [Next]_vars => PipeInv'
  BY NextPipe
<1>3. QED
  BY InitPipe, <1>1, <1>2, PTL DEF Spec
-----------------------------------------------------------------------------
(* Refinement.                                                             *)

\* TypedStore, as instantiated, has the vocabulary of Registry.
LEMMA SameVocabulary ==
    /\ Store!Types = Types /\ Store!Keys = Keys /\ Store!Values = Values
    /\ Store!Absent = Absent /\ Store!Nothing = Nothing
    /\ \A c : Store!Command(c) = Command(c)
    /\ \A cmd, t : /\ Store!Effect(cmd, t) = Effect(cmd, t)
                   /\ Store!Reply(cmd, t) = Reply(cmd, t)
    /\ \A c, r : Store!Understood(c, r) = Understood(c, r)
<1>1. /\ Store!Types = Types /\ Store!Keys = Keys /\ Store!Values = Values
      /\ Store!Absent = Absent /\ Store!Nothing = Nothing
  BY DEF Store!Types, Types, Store!Keys, Keys, Store!Values, Values,
         Store!Absent, Absent, Store!Nothing, Nothing
<1>2. \A c : Store!Command(c) = Command(c)
  BY DEF Store!Command, Command
<1>3. \A cmd, t : Store!Effect(cmd, t) = Effect(cmd, t)
  BY <1>1 DEF Store!Effect, Effect
<1>4. \A cmd, t : Store!Reply(cmd, t) = Reply(cmd, t)
  BY <1>1 DEF Store!Reply, Reply
<1>5. \A c, r : Store!Understood(c, r) = Understood(c, r)
  BY DEF Store!Understood, Understood
<1>6. QED
  BY <1>1, <1>2, <1>3, <1>4, <1>5

LEMMA InitRefines == Init => Store!Init
<1> SUFFICES ASSUME Init PROVE Store!Init
  OBVIOUS
<1>1. \A p \in Procs : ~Acted(p) /\ step[p] = "idle"
  BY DEF Init, Acted
<1>2. AbsState = [p \in Procs |-> "idle"]
  BY <1>1 DEF AbsState
<1>3. AbsAnswer = [p \in Procs |-> Nothing]
  BY <1>1 DEF AbsAnswer, Init
<1>4. QED
  BY <1>2, <1>3, SameVocabulary DEF Init, Store!Init

\* The abstract state of the processes other than p.
LEMMA OthersAbstract ==
    ASSUME OwnConnection, NEW p \in Procs, NEW q \in Procs \ {p},
           step'[q] = step[q], todo'[q] = todo[q], answer'[q] = answer[q],
           reader'[q] = reader[q],
           \A n \in Conns \ {Via[p]} : rep'[n] = rep[n]
    PROVE  AbsState'[q] = AbsState[q] /\ AbsAnswer'[q] = AbsAnswer[q]
<1>1. rep'[Via[q]] = rep[Via[q]]
  BY DEF OwnConnection
<1>2. Acted(q)' <=> Acted(q)
  BY <1>1 DEF Acted
<1>3. QED
  BY <1>1, <1>2 DEF AbsState, AbsAnswer

LEMMA AbsFunctions ==
    /\ AbsState = [p \in Procs |-> AbsState[p]]
    /\ AbsAnswer = [p \in Procs |-> AbsAnswer[p]]
    /\ AbsState' = [p \in Procs |-> AbsState'[p]]
    /\ AbsAnswer' = [p \in Procs |-> AbsAnswer'[p]]
BY DEF AbsState, AbsAnswer

\* A step that changes nothing of what the registry shows.
LEMMA Stutters ==
    ASSUME UNCHANGED <<db, todo>>,
           \A q \in Procs : AbsState'[q] = AbsState[q] /\ AbsAnswer'[q] = AbsAnswer[q]
    PROVE  UNCHANGED Store!vars
<1>1. AbsState' = AbsState /\ AbsAnswer' = AbsAnswer
  BY AbsFunctions
<1>2. QED
  BY <1>1 DEF Store!vars

LEMMA RunRefines ==
    ASSUME OwnConnection, PipeInv, NEW p \in Procs, Run(p)
    PROVE  [Store!Next]_Store!vars
<1> DEFINE n == Via[p]
<1>a. TypeOK /\ Pipe(p) /\ n \in Conns
  BY DEF PipeInv
<1>1. CASE Call(p)
  <2>1. /\ step[p] = "idle" /\ todo[p] # <<>> /\ step'[p] = "select"
        /\ UNCHANGED <<db, todo, answer, rep, reader>>
    BY <1>a, <1>1 DEF Call, TypeOK, wire
  <2>2. ~Acted(p) /\ ~Acted(p)'
    BY <2>1 DEF Acted
  <2>3. /\ AbsState[p] = "idle" /\ AbsState'[p] = "called"
        /\ AbsAnswer'[p] = AbsAnswer[p]
    BY <2>1, <2>2 DEF AbsState, AbsAnswer
  <2>4. \A q \in Procs \ {p} : AbsState'[q] = AbsState[q] /\ AbsAnswer'[q] = AbsAnswer[q]
    BY <1>a, <1>1, <2>1, OthersAbstract DEF Call, TypeOK
  <2>5. AbsState' = [AbsState EXCEPT ![p] = "called"] /\ UNCHANGED AbsAnswer
    BY <2>3, <2>4, AbsFunctions
  <2>6. Store!Call(p)
    BY <2>1, <2>3, <2>5 DEF Store!Call
  <2>7. QED
    BY <2>6 DEF Store!Next
<1>2. CASE Flush(p)
  <2>1. UNCHANGED <<db, todo, answer, rep, reader, step>>
    BY <1>2 DEF Flush
  <2>2. Acted(p)' <=> Acted(p)
    BY <2>1 DEF Acted
  <2>3. AbsState'[p] = AbsState[p] /\ AbsAnswer'[p] = AbsAnswer[p]
    BY <2>1, <2>2 DEF AbsState, AbsAnswer
  <2>4. \A q \in Procs \ {p} : AbsState'[q] = AbsState[q] /\ AbsAnswer'[q] = AbsAnswer[q]
    BY <2>1, OthersAbstract
  <2>5. QED
    BY <2>1, <2>3, <2>4, Stutters
<1>3. CASE Read(p)
  <2>1. /\ UNCHANGED <<db, todo, answer, step>> /\ step[p] # "idle"
        /\ reader'[p] = rep[n] /\ rep'[n] = <<>> /\ reader[p] = <<>> /\ rep[n] # <<>>
    BY <1>a, <1>3 DEF Read, TypeOK
  <2>2. Acted(p)' <=> Acted(p)
    BY <2>1 DEF Acted
  <2>3. rep[n] \o reader[p] = rep[n] /\ rep'[n] \o reader'[p] = rep[n]
    BY <1>a, <2>1 DEF TypeOK
  <2>4. AbsState'[p] = AbsState[p] /\ AbsAnswer'[p] = AbsAnswer[p]
    BY <2>1, <2>2, <2>3 DEF AbsState, AbsAnswer
  <2>5. \A q \in Procs \ {p} : AbsState'[q] = AbsState[q] /\ AbsAnswer'[q] = AbsAnswer[q]
    BY <1>a, <1>3, <2>1, OthersAbstract DEF Read, TypeOK
  <2>6. QED
    BY <2>1, <2>4, <2>5, Stutters
<1>4. CASE Selected(p)
  <2>1. /\ step[p] = "select" /\ step'[p] = "command" /\ reader[p] # <<>>
        /\ reader'[p] = Tail(reader[p]) /\ UNCHANGED <<db, todo, answer, rep>>
    BY <1>a, <1>4 DEF Selected, TypeOK, wire
  <2>2. Served(p)
    BY <1>a, <2>1 DEF Pipe, Unserved
  <2>3. reader'[p] = <<>> /\ rep[n] = <<>>
    <3>1. PICK r \in Replies : reader[p] = <<r>> /\ rep[n] = <<>>
      BY <2>1, <2>2 DEF Served
    <3>2. QED
      BY <2>1, <3>1
  <2>4. ~Acted(p) /\ ~Acted(p)'
    BY <2>1, <2>3 DEF Acted
  <2>5. AbsState'[p] = AbsState[p] /\ AbsAnswer'[p] = AbsAnswer[p]
    BY <2>1, <2>4 DEF AbsState, AbsAnswer
  <2>6. \A q \in Procs \ {p} : AbsState'[q] = AbsState[q] /\ AbsAnswer'[q] = AbsAnswer[q]
    BY <1>a, <1>4, <2>1, OthersAbstract DEF Selected, TypeOK
  <2>7. QED
    BY <2>1, <2>5, <2>6, Stutters
<1>5. CASE Return(p)
  <2>1. /\ step[p] = "command" /\ step'[p] = "idle" /\ reader[p] # <<>>
        /\ reader'[p] = Tail(reader[p]) /\ UNCHANGED <<db, rep>>
        /\ answer'[p] = Understood(Head(todo[p]), Head(reader[p]))
        /\ todo' = [todo EXCEPT ![p] = Tail(@)]
    BY <1>a, <1>5 DEF Return, TypeOK, wire
  <2>2. Served(p)
    BY <1>a, <2>1 DEF Pipe, Unserved
  <2>3. PICK r \in Replies : reader[p] = <<r>> /\ rep[n] = <<>>
    BY <2>1, <2>2 DEF Served
  <2>4. Acted(p) /\ ~Acted(p)'
    BY <2>1 DEF Acted
  <2>5. AbsAnswer[p] = Understood(Head(todo[p]), r) /\ AbsAnswer'[p] = AbsAnswer[p]
    <3>1. Head(rep[n] \o reader[p]) = r /\ Head(reader[p]) = r
      BY <2>3
    <3>2. QED
      BY <2>1, <2>4, <3>1 DEF AbsAnswer
  <2>6. AbsState[p] = "applied" /\ AbsState'[p] = "idle"
    BY <2>1, <2>4 DEF AbsState
  <2>7. \A q \in Procs \ {p} : AbsState'[q] = AbsState[q] /\ AbsAnswer'[q] = AbsAnswer[q]
    BY <1>a, <1>5, <2>1, OthersAbstract DEF Return, TypeOK
  <2>8. AbsState' = [AbsState EXCEPT ![p] = "idle"] /\ UNCHANGED AbsAnswer
    BY <2>5, <2>6, <2>7, AbsFunctions
  <2>9. Store!Return(p)
    BY <2>1, <2>6, <2>8 DEF Store!Return
  <2>10. QED
    BY <2>9 DEF Store!Next
<1>6. QED
  BY <1>1, <1>2, <1>3, <1>4, <1>5 DEF Run

LEMMA ServeRefines ==
    ASSUME OwnConnection, PipeInv, NEW n \in Conns, Serve(n)
    PROVE  [Store!Next]_Store!vars
<1> DEFINE cmd == Head(req[n])
<1>a. TypeOK /\ req[n] # <<>>
  BY DEF PipeInv, Serve
<1>1. PICK p \in Procs :
         LET c == Head(todo[p]) IN
         /\ Via[p] = n /\ c \in Calls /\ todo[p] # <<>>
         /\ rep[n] = <<>> /\ reader[p] = <<>> /\ obuf[p] = <<>>
         /\ \/ step[p] = "select" /\ req[n] = <<Select(c.type)>>
            \/ /\ step[p] = "command" /\ req[n] = <<Command(c)>>
               /\ sel[n] = c.type
  BY <1>a, ServedCommand
<1> DEFINE c == Head(todo[p])
<1> DEFINE r == Reply(cmd, db[sel[n]])
<1>2. /\ rep' = [rep EXCEPT ![n] = Append(@, r)]
      /\ UNCHANGED <<todo, step, obuf, reader, answer>>
  BY DEF Serve
<1>3. rep'[n] = <<r>>
  <2>1. rep'[n] = Append(rep[n], r) /\ rep[n] = <<>>
    BY <1>a, <1>1, <1>2 DEF TypeOK
  <2>2. QED
    BY <2>1
<1>4. \A q \in Procs \ {p} : AbsState'[q] = AbsState[q] /\ AbsAnswer'[q] = AbsAnswer[q]
  BY <1>a, <1>1, <1>2, OthersAbstract DEF TypeOK
<1>5. ~Acted(p)
  BY <1>1 DEF Acted
<1>6. CASE step[p] = "select"
  <2>1. cmd.op = "SELECT"
    BY <1>1, <1>6, CallFacts, SelectFacts
  <2>2. UNCHANGED db
    BY <2>1 DEF Serve
  <2>3. ~Acted(p)'
    BY <1>2, <1>6 DEF Acted
  <2>4. AbsState'[p] = AbsState[p] /\ AbsAnswer'[p] = AbsAnswer[p]
    BY <1>2, <1>5, <2>3 DEF AbsState, AbsAnswer
  <2>5. QED
    BY <1>2, <1>4, <2>2, <2>4, Stutters
<1>7. CASE step[p] = "command"
  <2>1. cmd = Command(c) /\ sel[n] = c.type /\ cmd.op # "SELECT"
    BY <1>1, <1>7, CallFacts
  <2>2. db' = [db EXCEPT ![c.type] = Effect(Command(c), @)]
    BY <2>1 DEF Serve
  <2>3. Acted(p)'
    BY <1>1, <1>2, <1>3, <1>7 DEF Acted
  <2>4. AbsState[p] = "called" /\ AbsState'[p] = "applied"
    BY <1>2, <1>5, <1>7, <2>3 DEF AbsState
  <2>5. AbsAnswer'[p] = Understood(c, Reply(Command(c), db[c.type]))
    <3>1. Head(rep'[n] \o reader'[p]) = r
      <4>1. reader'[p] = <<>>
        BY <1>1, <1>2
      <4>2. rep'[n] \o reader'[p] = <<r>>
        BY <1>3, <4>1
      <4>3. QED
        BY <4>2
    <3>2. QED
      BY <1>1, <1>2, <2>1, <2>3, <3>1 DEF AbsAnswer
  <2>6. /\ AbsState' = [AbsState EXCEPT ![p] = "applied"]
        /\ AbsAnswer' = [AbsAnswer EXCEPT
                           ![p] = Understood(c, Reply(Command(c), db[c.type]))]
    BY <1>4, <2>4, <2>5, AbsFunctions
  <2>7. Store!Apply(p)
    BY <1>2, <2>2, <2>4, <2>6, SameVocabulary DEF Store!Apply
  <2>8. QED
    BY <2>7 DEF Store!Next
<1>8. QED
  BY <1>1, <1>6, <1>7

LEMMA NextRefines ==
    OwnConnection /\ PipeInv /\ [Next]_vars => [Store!Next]_Store!vars
<1> SUFFICES ASSUME OwnConnection, PipeInv, [Next]_vars
             PROVE  [Store!Next]_Store!vars
  OBVIOUS
<1>1. CASE UNCHANGED vars
  <2>1. UNCHANGED <<db, todo, step, rep, reader, answer>>
    BY <1>1 DEF vars
  <2>2. \A p \in Procs : Acted(p)' <=> Acted(p)
    BY <2>1 DEF Acted
  <2>3. \A p \in Procs : AbsState'[p] = AbsState[p] /\ AbsAnswer'[p] = AbsAnswer[p]
    BY <2>1, <2>2 DEF AbsState, AbsAnswer
  <2>4. QED
    BY <2>1, <2>3, Stutters
<1>2. QED
  BY <1>1, RunRefines, ServeRefines DEF Next, Finished

\* redis.c implements the registry it promises to the rest of the program,
\* for every number of processes, as long as no two share a connection.
THEOREM RedisRefines == OwnConnection /\ Spec => StoreSpec
<1> SUFFICES ASSUME OwnConnection PROVE Spec => Store!Spec
  BY DEF StoreSpec
<1>1. PipeInv /\ [Next]_vars => PipeInv'
  BY NextPipe
<1>2. PipeInv /\ [Next]_vars => [Store!Next]_Store!vars
  BY NextRefines
<1>3. QED
  BY InitPipe, InitRefines, <1>1, <1>2, PTL DEF Spec, Store!Spec
-----------------------------------------------------------------------------
(* PeersArePeers: only peers are ever stored in, and listed from, the       *)
(* database of peers, because KEYS is only served where PEER is selected.   *)

PeersInv ==
    /\ \A k \in Keys : db["PEER"][k] # Absent => k \in Peers
    /\ \A n \in Conns : rep[n] # <<>> => Head(rep[n]).keys \subseteq Peers
    /\ \A p \in Procs : reader[p] # <<>> => Head(reader[p]).keys \subseteq Peers
    /\ PeersArePeers

LEMMA InitPeers == Init => PeersInv
BY DEF Init, PeersInv, PeersArePeers, Nothing

LEMMA RunPeers ==
    ASSUME OwnConnection, PipeInv, PeersInv, NEW p \in Procs, Run(p)
    PROVE  PeersInv'
<1> DEFINE n == Via[p]
<1>a. TypeOK /\ Pipe(p) /\ n \in Conns
  BY DEF PipeInv
<1>1. UNCHANGED db
  BY DEF Run, Call, Flush, Read, Selected, Return, wire
<1>2. CASE Call(p) \/ Flush(p)
  BY <1>1, <1>2 DEF Call, Flush, wire, PeersInv, PeersArePeers
<1>3. CASE Read(p)
  <2>1. /\ rep' = [rep EXCEPT ![n] = <<>>] /\ reader' = [reader EXCEPT ![p] = rep[n]]
        /\ UNCHANGED answer
    BY <1>3 DEF Read
  <2>2. \A m \in Conns : rep'[m] # <<>> => Head(rep'[m]).keys \subseteq Peers
    BY <1>a, <2>1 DEF PeersInv, TypeOK
  <2>3. \A q \in Procs : reader'[q] # <<>> => Head(reader'[q]).keys \subseteq Peers
    BY <1>a, <2>1 DEF PeersInv, TypeOK
  <2>4. QED
    BY <1>1, <2>1, <2>2, <2>3 DEF PeersInv, PeersArePeers
<1>4. CASE Selected(p) \/ Return(p)
  <2>1. Served(p) /\ reader[p] # <<>> /\ UNCHANGED rep
    BY <1>a, <1>4 DEF Selected, Return, Pipe, Unserved, wire
  <2>2. PICK r \in Replies : reader[p] = <<r>>
    BY <2>1 DEF Served
  <2>3. reader' = [reader EXCEPT ![p] = <<>>]
    <3>1. reader' = [reader EXCEPT ![p] = Tail(@)]
      BY <1>4 DEF Selected, Return
    <3>2. Tail(<<r>>) = <<>>
      OBVIOUS
    <3>3. QED
      BY <2>2, <3>1, <3>2
  <2>4. \A q \in Procs : reader'[q] # <<>> => Head(reader'[q]).keys \subseteq Peers
    BY <1>a, <2>3 DEF PeersInv, TypeOK
  <2>5. PeersArePeers'
    <3>1. CASE Selected(p)
      BY <3>1 DEF Selected, PeersInv, PeersArePeers
    <3>2. CASE Return(p)
      <4>1. answer' = [answer EXCEPT ![p] = Understood(Head(todo[p]), r)]
        BY <2>2, <3>2 DEF Return
      <4>2. r.keys \subseteq Peers
        BY <2>1, <2>2 DEF PeersInv
      <4>3. Understood(Head(todo[p]), r).keys \subseteq Peers
        BY <4>2 DEF Understood
      <4>4. QED
        BY <1>a, <4>1, <4>3 DEF PeersInv, PeersArePeers, TypeOK
    <3>3. QED
      BY <1>4, <3>1, <3>2
  <2>6. QED
    BY <1>1, <2>1, <2>4, <2>5 DEF PeersInv
<1>5. QED
  BY <1>2, <1>3, <1>4 DEF Run

LEMMA ServePeers ==
    ASSUME OwnConnection, PipeInv, PeersInv, NEW n \in Conns, Serve(n)
    PROVE  PeersInv'
<1> DEFINE cmd == Head(req[n])
<1> DEFINE r == Reply(cmd, db[sel[n]])
<1>a. TypeOK /\ req[n] # <<>>
  BY DEF PipeInv, Serve
<1>1. PICK p \in Procs :
         LET c == Head(todo[p]) IN
         /\ Via[p] = n /\ c \in Calls /\ todo[p] # <<>>
         /\ rep[n] = <<>> /\ reader[p] = <<>> /\ obuf[p] = <<>>
         /\ \/ step[p] = "select" /\ req[n] = <<Select(c.type)>>
            \/ /\ step[p] = "command" /\ req[n] = <<Command(c)>>
               /\ sel[n] = c.type
  BY <1>a, ServedCommand
<1> DEFINE c == Head(todo[p])
<1>2. /\ rep' = [rep EXCEPT ![n] = Append(@, r)] /\ UNCHANGED <<reader, answer>>
  BY DEF Serve
<1>3. \/ cmd.op = "SELECT"
      \/ cmd.op # "SELECT" /\ cmd = Command(c) /\ sel[n] = c.type
  BY <1>1, CallFacts, SelectFacts
<1>4. cmd.op = "KEYS" => sel[n] = "PEER"
  <2>1. c \in Calls /\ Command(c).op = c.op
    BY <1>1, CallFacts
  <2>2. c.op = "KEYS" => c.type = "PEER"
    BY <2>1 DEF Calls
  <2>3. QED
    BY <1>3, <2>1, <2>2
<1>5. r.keys \subseteq Peers
  BY <1>4 DEF Reply, PeersInv
<1>6. \A m \in Conns : rep'[m] # <<>> => Head(rep'[m]).keys \subseteq Peers
  <2>1. rep'[n] = Append(rep[n], r) /\ rep[n] = <<>>
    BY <1>a, <1>1, <1>2 DEF TypeOK
  <2>2. rep'[n] = <<r>>
    BY <2>1
  <2>3. Head(rep'[n]).keys \subseteq Peers
    BY <1>5, <2>2
  <2>4. QED
    BY <1>a, <1>2, <2>3 DEF PeersInv, TypeOK
<1>7. \A k \in Keys : db'["PEER"][k] # Absent => k \in Peers
  <2>1. CASE cmd.op = "SELECT" \/ sel[n] # "PEER"
    BY <1>a, <2>1 DEF Serve, PeersInv, TypeOK, Types
  <2>2. CASE cmd.op # "SELECT" /\ sel[n] = "PEER"
    <3>1. c.type = "PEER" /\ cmd = Command(c)
      BY <1>3, <2>2
    <3>2. cmd.op \in {"KEYS", "SET", "DEL"} /\ (cmd.op # "KEYS" => cmd.key \in Peers)
      <4>1. c \in Calls /\ cmd.op = c.op /\ cmd.key = c.key
        BY <1>1, <3>1 DEF Command
      <4>2. c.op \in {"KEYS", "SET", "DEL"} /\ (c.op # "KEYS" => c.key \in Peers)
        BY <3>1, <4>1 DEF Calls
      <4>3. QED
        BY <4>1, <4>2
    <3>3. db'["PEER"] = Effect(cmd, db["PEER"])
      BY <1>a, <2>2 DEF Serve, TypeOK, Types
    <3>4. db["PEER"] \in [Keys -> Values \cup {Absent}]
      BY <1>a DEF TypeOK, Types
    <3>5. CASE cmd.op = "SET"
      <4>1. db'["PEER"] = [db["PEER"] EXCEPT ![cmd.key] = cmd.value]
        BY <3>3, <3>5 DEF Effect
      <4>2. QED
        BY <3>2, <3>4, <3>5, <4>1 DEF PeersInv
    <3>6. CASE cmd.op = "DEL"
      <4>1. db'["PEER"] = [k \in Keys |-> IF k = cmd.key THEN Absent ELSE db["PEER"][k]]
        BY <3>3, <3>6 DEF Effect
      <4>2. QED
        BY <4>1 DEF PeersInv
    <3>7. CASE cmd.op = "KEYS"
      <4>1. db'["PEER"] = db["PEER"]
        BY <3>3, <3>7 DEF Effect
      <4>2. QED
        BY <4>1 DEF PeersInv
    <3>8. QED
      BY <3>2, <3>5, <3>6, <3>7
  <2>3. QED
    BY <2>1, <2>2
<1>8. QED
  BY <1>2, <1>6, <1>7 DEF PeersInv, PeersArePeers

\* With connections of their own, a host only ever lists, and passes on,
\* addresses of peers.
THEOREM PeersArePeersHolds == OwnConnection /\ Spec => []PeersArePeers
<1> SUFFICES ASSUME OwnConnection PROVE Spec => []PeersArePeers
  OBVIOUS
<1>1. Init => PipeInv /\ PeersInv
  BY InitPipe, InitPeers
<1>2. PipeInv /\ PeersInv /\ [Next]_vars => PipeInv' /\ PeersInv'
  <2> SUFFICES ASSUME PipeInv, PeersInv, [Next]_vars PROVE PipeInv' /\ PeersInv'
    OBVIOUS
  <2>1. CASE UNCHANGED vars
    BY <2>1, NextPipe DEF vars, PeersInv, PeersArePeers
  <2>2. QED
    BY <2>1, NextPipe, RunPeers, ServePeers DEF Next, Finished
<1>3. PeersInv => PeersArePeers
  BY DEF PeersInv
<1>4. QED
  BY <1>1, <1>2, <1>3, PTL DEF Spec
=============================================================================
