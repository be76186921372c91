---------------------------- MODULE MCBlockStore ----------------------------
(* Instances of BlockStore for TLC: the files, and how often each process  *)
(* is started.                                                             *)
EXTENDS BlockStore, FiniteSets

\* Every file is made of all the chunks, each once.
MCLinks == [f \in Parents |-> CHOOSE q \in [1..Cardinality(Chunks) -> Chunks] :
               {q[i] : i \in DOMAIN q} = Chunks]

\* Every adder adds the same file.
MCAddFile == [a \in Adders |-> CHOOSE f \in Parents : TRUE]

\* Every command is run once.
OnceEach == [p \in Procs |-> 1]
=============================================================================
