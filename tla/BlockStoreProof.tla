--------------------------- MODULE BlockStoreProof ---------------------------
(***************************************************************************)
(* Proofs about BlockStore.                                                *)
(***************************************************************************)
EXTENDS BlockStore, TLAPS

\* Where the processes are in their commands, whatever they interleave with.
AtBlock(a) == pc[a] # "idle" =>
    /\ name[a] = "hash"
    /\ pos[a] \in 1..Len(Blocks(a))
    /\ cid[a] = Blocks(a)[pos[a]]

HasFile(p) ==
    /\ pc[p] \in {"fwrite", "fclose", "recv", "recv_tail"} => fh[p] # NoInode
    /\ pc[p] \in {"fwrite", "fclose", "recv", "recv_tail", "fopen", "verify",
                 "del_missing", "del_bad", "remove", "s_verify", "s_del", "s_remove"} =>
        name[p] # "null"

AtLink(g) == pc[g] # "idle" =>
    \/ pos[g] = 1 /\ cid[g] = target[g]
    \/ /\ pos[g] > 1
       /\ target[g] \in Parents
       /\ pos[g] - 1 \in 1..Len(Links[target[g]])
       /\ cid[g] = Links[target[g]][pos[g] - 1]

Control ==
    /\ \A a \in Adders : AtBlock(a)
    /\ \A p \in Procs : HasFile(p)
    /\ \A g \in Getters : AtLink(g)

TypeInv == TypeOK /\ Control

USE CidsAssumption, ProcsAssumption, BoundsAssumption

LEMMA WithPartType ==
    ASSUME NEW s \in Contents, NEW part
    PROVE  WithPart(s, part) \in Contents
BY DEF WithPart, Contents

LEMMA BlocksType ==
    ASSUME NEW a \in Adders
    PROVE  /\ Len(Blocks(a)) \in Nat \ {0}
           /\ \A i \in 1..Len(Blocks(a)) : Blocks(a)[i] \in Cids
<1>1. AddFile[a] \in Parents /\ Links[AddFile[a]] \in Seq(Chunks)
  OBVIOUS
<1>2. Links[AddFile[a]] \in Seq(Cids) /\ AddFile[a] \in Cids
  BY <1>1 DEF Cids
<1>3. QED
  BY <1>2 DEF Blocks

LEMMA WrittenType ==
    ASSUME TypeOK, NEW p \in Procs, NEW part, HasFile(p),
           pc[p] \in {"fwrite", "fclose", "recv", "recv_tail"}
    PROVE  Written(p, part) \in [Paths -> [Inodes -> Contents]]
BY WithPartType DEF Written, TypeOK, HasFile, Path, Paths

LEMMA ReclaimType ==
    ASSUME NEW f, NEW d \in [Paths -> [Inodes -> Contents]], Reclaim(f, d)
    PROVE  data' \in [Paths -> [Inodes -> Contents]]
BY DEF Reclaim, Contents, Empty

LEMMA OpenCreateType ==
    ASSUME TypeOK, NEW p \in Procs, NEW f \in Paths, OpenCreate(p, f)
    PROVE  \E i \in Inodes : /\ fh' = [fh EXCEPT ![p] = i]
                             /\ dir' = [dir EXCEPT ![f] = i]
BY DEF OpenCreate

LEMMA PathType ==
    ASSUME TypeOK, NEW p \in Procs, name[p] # "null"
    PROVE  Path(p) \in Paths
BY DEF TypeOK, Path, Paths

LEMMA InitType == Init => TypeInv
<1> SUFFICES ASSUME Init PROVE TypeInv
  OBVIOUS
<1>1. (CHOOSE c \in Cids : TRUE) \in Cids
  BY DEF Cids
<1>2. redis \in [Cids -> {"null", "hash", "cid"}] /\ dir \in [Paths -> Inodes \cup {NoInode}]
  BY DEF Init, Inodes, NoInode
<1>3. data \in [Paths -> [Inodes -> Contents]]
  BY DEF Init, Contents, Empty, Intact
<1>4. /\ pc \in [Procs -> Labels] /\ result \in [Procs -> Results]
      /\ name \in [Procs -> {"null", "hash", "cid"}]
      /\ fh \in [Procs -> Inodes \cup {NoInode}]
      /\ runs \in [Procs -> Nat] /\ pos \in [Procs -> Nat \ {0}]
  BY DEF Init, NoInode, Labels, Results
<1>5. /\ cid \in [Procs -> Cids] /\ target \in [Getters \cup Children -> Cids]
      /\ out \in [Getters -> Seq(Chunks \cup {Garbage})]
  BY <1>1 DEF Init
<1>9. /\ upsets \in Nat /\ crossed \in BOOLEAN
      /\ told \subseteq Cids \X {"null", "hash", "cid"}
  BY DEF Init
<1>6. TypeOK
  BY <1>2, <1>3, <1>4, <1>5, <1>9 DEF TypeOK
<1>7. Control
  BY DEF Init, Control, Procs, AtBlock, HasFile, AtLink
<1>8. QED
  BY <1>6, <1>7 DEF TypeInv

\* A process that exits is nowhere in its command.
LEMMA ExitControl ==
    ASSUME TypeOK, Control, NEW p \in Procs, NEW r, Exit(p, r),
           \A q \in Procs \ {p} : pos'[q] = pos[q], UNCHANGED <<cid, target>>
    PROVE  Control'
<1>1. pc'[p] = "idle"
  BY DEF Exit, Goto, TypeOK
<1>2. \A q \in Procs \ {p} : /\ pc'[q] = pc[q] /\ name'[q] = name[q]
                             /\ fh'[q] = fh[q] /\ cid'[q] = cid[q]
  BY DEF Exit, Goto, TypeOK
<1>3. \A a \in Adders : AtBlock(a)'
  BY <1>1, <1>2 DEF Control, AtBlock, Procs
<1>4. \A q \in Procs : HasFile(q)'
  BY <1>1, <1>2 DEF Control, HasFile
<1>5. \A g \in Getters : AtLink(g)'
  BY <1>1, <1>2 DEF Control, AtLink, Procs
<1>6. QED
  BY <1>3, <1>4, <1>5 DEF Control

\* A process that exits: the files and the registry may change with it.
LEMMA ExitType ==
    ASSUME TypeInv, NEW p \in Procs, NEW r \in Results, Exit(p, r),
           redis' \in [Cids -> {"null", "hash", "cid"}],
           dir' \in [Paths -> Inodes \cup {NoInode}],
           data' \in [Paths -> [Inodes -> Contents]],
           pos' \in [Procs -> Nat \ {0}],
           \A q \in Procs \ {p} : pos'[q] = pos[q],
           out' \in [Getters -> Seq(Chunks \cup {Garbage})],
           UNCHANGED <<cid, target, runs>>, upsets' \in Nat,
           told' \subseteq Cids \X {"null", "hash", "cid"}, crossed' \in BOOLEAN
    PROVE  TypeInv'
<1> USE DEF TypeInv
<1>1. /\ pc' = [pc EXCEPT ![p] = "idle"]
      /\ result' = [result EXCEPT ![p] = r]
      /\ name' = [name EXCEPT ![p] = "null"]
      /\ fh' = [fh EXCEPT ![p] = NoInode]
  BY DEF Exit, Goto
<1>2. TypeOK'
  BY <1>1 DEF TypeOK, Labels, NoInode
<1>3. Control'
  BY ExitControl
<1>4. QED
  BY <1>2, <1>3

LEMMA NextBlockType ==
    ASSUME TypeInv, NEW a \in Adders, NEW r \in Results,
           pc[a] \in {"generate_cid", "set_redis"}, NextBlock(a, r),
           redis' \in [Cids -> {"null", "hash", "cid"}]
    PROVE  TypeInv'
<1> USE DEF TypeInv, Procs
<1>a. TypeOK /\ Control /\ AtBlock(a) /\ HasFile(a)
  BY DEF Control
<1>b. pos[a] \in 1..Len(Blocks(a)) /\ Len(Blocks(a)) \in Nat
  BY <1>a, BlocksType DEF AtBlock
<1>1. CASE pc'[a] = "fopen_wb"
  <2>1. /\ pos[a] + 1 \in 1..Len(Blocks(a))
        /\ cid' = [cid EXCEPT ![a] = Blocks(a)[pos[a] + 1]]
        /\ result' = [result EXCEPT ![a] = r]
        /\ pc' = [pc EXCEPT ![a] = "fopen_wb"]
        /\ pos' = [pos EXCEPT ![a] = @ + 1]
        /\ UNCHANGED <<dir, data, target, out, runs, upsets, name, fh, told, crossed>>
    BY <1>a, <1>b, <1>1 DEF NextBlock, Exit, Goto, TypeOK
  <2>2. Blocks(a)[pos[a] + 1] \in Cids
    BY <2>1, BlocksType
  <2>3. TypeOK'
    BY <1>a, <2>1, <2>2 DEF TypeOK, Labels
  <2>4. Control'
    BY <1>a, <2>1 DEF TypeOK, Control, AtBlock, HasFile, AtLink
  <2>5. QED
    BY <2>3, <2>4
<1>2. CASE pc'[a] # "fopen_wb"
  <2>1. PICK s \in {"wrong", "added"} :
           Exit(a, s) /\ UNCHANGED <<cid, dir, data, target, out, runs, upsets, told, crossed>>
    BY <1>a, <1>2 DEF NextBlock, Goto, TypeOK
  <2>2. pos' = [pos EXCEPT ![a] = @ + 1]
    BY DEF NextBlock
  <2>3. /\ dir' \in [Paths -> Inodes \cup {NoInode}]
        /\ data' \in [Paths -> [Inodes -> Contents]]
        /\ pos' \in [Procs -> Nat \ {0}]
        /\ out' \in [Getters -> Seq(Chunks \cup {Garbage})]
        /\ upsets' \in Nat
        /\ told' \subseteq Cids \X {"null", "hash", "cid"}
        /\ crossed' \in BOOLEAN
    BY <1>a, <2>1, <2>2 DEF TypeOK
  <2>4. \A q \in Procs \ {a} : pos'[q] = pos[q]
    BY <1>a, <2>2 DEF TypeOK
  <2>5. s \in Results
    BY DEF Results
  <2>6. QED
    BY <1>a, <2>1, <2>3, <2>4, <2>5, ExitType
<1>3. QED
  BY <1>1, <1>2

LEMMA AddType ==
    ASSUME TypeInv, NEW a \in Adders, AddStart(a) \/ Add(a)
    PROVE  TypeInv'
<1> USE DEF TypeInv, Procs
<1>a. TypeOK /\ Control /\ AtBlock(a) /\ HasFile(a)
  BY DEF Control
<1>1. CASE AddStart(a)
  <2>1. TypeOK'
    BY <1>a, <1>1, BlocksType DEF AddStart, Start, Goto, TypeOK, Labels, Results
  <2>2. Control'
    BY <1>a, <1>1, BlocksType DEF AddStart, Start, Goto, TypeOK, Control, AtBlock, HasFile, AtLink
  <2>3. QED
    BY <2>1, <2>2
<1>2. CASE CreateBlock(a)
  <2>1. PICK i \in Inodes : fh' = [fh EXCEPT ![a] = i] /\ dir' = [dir EXCEPT ![Path(a)] = i]
    <3>1. Path(a) \in Paths
      BY <1>a, <1>2, PathType DEF CreateBlock, AtBlock
    <3>2. QED
      BY <1>a, <1>2, <3>1, OpenCreateType DEF CreateBlock
  <2>2. data' \in [Paths -> [Inodes -> Contents]]
    BY <1>a, <1>2, <2>1, PathType DEF CreateBlock, AtBlock, TypeOK, Contents, Empty
  <2>3. TypeOK'
    BY <1>a, <1>2, <2>1, <2>2, PathType DEF CreateBlock, Goto, TypeOK, Labels, taskVars, AtBlock
  <2>4. Control'
    BY <1>a, <1>2, <2>1 DEF CreateBlock, Goto, TypeOK, Control, AtBlock, HasFile, AtLink, taskVars, Inodes, NoInode
  <2>5. QED
    BY <2>3, <2>4
<1>3. CASE WriteBlock(a)
  <2>1. TypeOK'
    BY <1>a, <1>3, WrittenType DEF WriteBlock, Goto, TypeOK, Labels, taskVars
  <2>2. Control'
    BY <1>a, <1>3 DEF WriteBlock, Goto, TypeOK, Control, AtBlock, HasFile, AtLink, taskVars
  <2>3. QED
    BY <2>1, <2>2
<1>4. CASE CloseBlock(a)
  <2>1. data' \in [Paths -> [Inodes -> Contents]]
    BY <1>a, <1>4, WrittenType, ReclaimType DEF CloseBlock
  <2>2. TypeOK'
    BY <1>a, <1>4, <2>1 DEF CloseBlock, Goto, TypeOK, Labels, taskVars, NoInode
  <2>3. Control'
    BY <1>a, <1>4 DEF CloseBlock, Goto, TypeOK, Control, AtBlock, HasFile, AtLink, taskVars
  <2>4. QED
    BY <2>2, <2>3
<1>5. CASE GenerateCid(a)
  <2>1. CASE NextBlock(a, "wrong") /\ pc[a] = "generate_cid" /\ UNCHANGED redis
    BY <1>a, <2>1, NextBlockType DEF TypeOK, Results
  <2>2. CASE Exit(a, "failed") /\ UNCHANGED <<redis, dir, data, cid, taskVars, upsets>>
    BY <1>a, <2>2, ExitType DEF TypeOK, Results, taskVars
  <2>3. CASE Goto(a, "set_redis") /\ UNCHANGED <<redis, fsVars, cid, name, result, taskVars, upsets>>
    <3>1. TypeOK'
      BY <1>a, <2>3 DEF Goto, TypeOK, Labels, fsVars, taskVars
    <3>2. Control'
      BY <1>a, <1>5, <2>3 DEF GenerateCid, Goto, TypeOK, Control, AtBlock, HasFile, AtLink, fsVars, taskVars
    <3>3. QED
      BY <3>1, <3>2
  <2>4. QED
    BY <1>5, <2>1, <2>2, <2>3 DEF GenerateCid, fsVars
<1>6. CASE RegisterBlock(a)
  BY <1>a, <1>6, NextBlockType DEF RegisterBlock, TypeOK
<1>7. QED
  BY <1>1, <1>2, <1>3, <1>4, <1>5, <1>6 DEF Add

LEMMA LinksType ==
    ASSUME NEW f \in Parents
    PROVE  /\ Len(Links[f]) \in Nat
           /\ \A i \in 1..Len(Links[f]) : Links[f][i] \in Chunks
OBVIOUS

LEMMA GetStartType ==
    ASSUME TypeInv, NEW g \in Getters, NEW c \in Cids, GetStart(g, c)
    PROVE  TypeInv'
<1> USE DEF TypeInv, Procs
<1>1. TypeOK'
  BY DEF GetStart, Start, Goto, TypeOK, Labels, Results
<1>2. Control'
  BY DEF GetStart, Start, Goto, TypeOK, Control, AtBlock, HasFile, AtLink
<1>3. QED
  BY <1>1, <1>2

\* read_block for the parent or for a link, up to the opening of the file.
LEMMA FindType ==
    ASSUME TypeInv, NEW g \in Getters,
           \/ Lookup(g) \/ NobodyHasIt(g) \/ StartDownload(g)
           \/ ReceiveHead(g) \/ ReceiveTail(g) \/ CutTransfer(g)
           \/ RegisterDownload(g) \/ LookupAgain(g)
    PROVE  TypeInv'
<1> USE DEF TypeInv, Procs
<1>a. TypeOK /\ Control /\ AtLink(g) /\ HasFile(g)
  BY DEF Control
<1>1. CASE Lookup(g)
  <2>1. TypeOK'
    BY <1>a, <1>1 DEF Lookup, Goto, TypeOK, Labels, Results, fsVars, taskVars
  <2>2. Control'
    BY <1>a, <1>1 DEF Lookup, Goto, TypeOK, Control, AtBlock, HasFile, AtLink, fsVars, taskVars
  <2>3. QED
    BY <2>1, <2>2
<1>2. CASE NobodyHasIt(g)
  <2>1. TypeOK'
    BY <1>a, <1>2 DEF NobodyHasIt, Goto, TypeOK, Labels, Results, fsVars, taskVars
  <2>2. Control'
    BY <1>a, <1>2 DEF NobodyHasIt, Goto, TypeOK, Control, AtBlock, HasFile, AtLink, fsVars, taskVars
  <2>3. QED
    BY <2>1, <2>2
<1>3. CASE StartDownload(g)
  <2>1. <<cid[g], "cid">> \in Paths
    BY <1>a DEF TypeOK, Paths
  <2>2. PICK i \in Inodes : /\ fh' = [fh EXCEPT ![g] = i]
                            /\ dir' = [dir EXCEPT ![<<cid[g], "cid">>] = i]
    BY <1>a, <1>3, <2>1, OpenCreateType DEF StartDownload
  <2>3. TypeOK'
    BY <1>a, <1>3, <2>1, <2>2 DEF StartDownload, Goto, TypeOK, Labels, taskVars
  <2>4. Control'
    BY <1>a, <1>3, <2>2 DEF StartDownload, Goto, TypeOK, Control, AtBlock, HasFile, AtLink, taskVars, Inodes, NoInode
  <2>5. QED
    BY <2>3, <2>4
<1>4. CASE ReceiveHead(g)
  <2>1. TypeOK'
    BY <1>a, <1>4, WrittenType DEF ReceiveHead, Goto, TypeOK, Labels, Results, fsVars, taskVars
  <2>2. Control'
    BY <1>a, <1>4, WrittenType DEF ReceiveHead, Goto, TypeOK, Control, AtBlock, HasFile, AtLink, fsVars, taskVars
  <2>3. QED
    BY <2>1, <2>2
<1>5. CASE ReceiveTail(g)
  <2>1. TypeOK'
    BY <1>a, <1>5, WrittenType DEF ReceiveTail, Goto, TypeOK, Labels, Results, fsVars, taskVars
  <2>2. Control'
    BY <1>a, <1>5, WrittenType DEF ReceiveTail, Goto, TypeOK, Control, AtBlock, HasFile, AtLink, fsVars, taskVars
  <2>3. QED
    BY <2>1, <2>2
<1>6. CASE CutTransfer(g)
  <2>1. TypeOK'
    BY <1>a, <1>6 DEF CutTransfer, Goto, TypeOK, Labels, Results, fsVars, taskVars, Upset
  <2>2. Control'
    BY <1>a, <1>6 DEF CutTransfer, Goto, TypeOK, Control, AtBlock, HasFile, AtLink, fsVars, taskVars, Upset
  <2>3. QED
    BY <2>1, <2>2
<1>7. CASE RegisterDownload(g)
  <2>1. data' \in [Paths -> [Inodes -> Contents]]
    BY <1>a, <1>7, ReclaimType DEF RegisterDownload, TypeOK
  <2>2. TypeOK'
    BY <1>a, <1>7, <2>1 DEF RegisterDownload, Goto, TypeOK, Labels, taskVars, NoInode
  <2>3. Control'
    BY <1>a, <1>7 DEF RegisterDownload, Goto, TypeOK, Control, AtBlock, HasFile, AtLink, taskVars
  <2>4. QED
    BY <2>2, <2>3
<1>8. CASE LookupAgain(g)
  <2>1. CASE redis[cid[g]] = "null"
    BY <1>a, <1>8, <2>1, ExitType DEF LookupAgain, TypeOK, Results, taskVars
  <2>2. CASE redis[cid[g]] # "null"
    <3>1. TypeOK'
      <4>1. /\ name' = [name EXCEPT ![g] = redis[cid[g]]]
            /\ pc' = [pc EXCEPT ![g] = "fopen"]
            /\ UNCHANGED <<redis, dir, data, cid, fh, result, taskVars, upsets>>
        BY <1>8, <2>2 DEF LookupAgain, Goto
      <4>2. cid[g] \in Cids /\ redis[cid[g]] \in {"null", "hash", "cid"}
        BY <1>a DEF TypeOK
      <4>3. QED
        BY <1>a, <4>1, <4>2 DEF TypeOK, Labels, taskVars
    <3>2. Control'
      <4>1. /\ name' = [name EXCEPT ![g] = redis[cid[g]]]
            /\ pc' = [pc EXCEPT ![g] = "fopen"] /\ pc[g] = "get_again"
            /\ UNCHANGED <<cid, fh, pos, target>>
        BY <1>8, <2>2 DEF LookupAgain, Goto, taskVars
      <4>2. \A a \in Adders : AtBlock(a)'
        BY <1>a, <4>1 DEF TypeOK, Control, AtBlock
      <4>3. \A p \in Procs : HasFile(p)'
        BY <1>a, <2>2, <4>1 DEF TypeOK, Control, HasFile
      <4>4. \A h \in Getters : AtLink(h)'
        BY <1>a, <4>1 DEF TypeOK, Control, AtLink
      <4>5. QED
        BY <4>2, <4>3, <4>4 DEF Control
    <3>3. QED
      BY <3>1, <3>2
  <2>3. QED
    BY <2>1, <2>2
<1>9. QED
  BY <1>1, <1>2, <1>3, <1>4, <1>5, <1>6, <1>7, <1>8

LEMMA GetNextType ==
    ASSUME TypeInv, NEW g \in Getters, target[g] \in Parents,
           NEW i \in Nat \ {0}, NEW o \in Seq(Chunks \cup {Garbage}),
           pc[g] = "fread", GetNext(g, i, o)
    PROVE  TypeInv'
<1> USE DEF TypeInv
<1>1. g \in Procs
  BY DEF Procs
<1>2. data' \in [Paths -> [Inodes -> Contents]]
  BY ReclaimType DEF GetNext, TypeOK
<1>3. /\ out' = [out EXCEPT ![g] = o] /\ pos' = [pos EXCEPT ![g] = i + 1]
      /\ UNCHANGED <<redis, dir, target, runs, upsets, told, crossed>>
  BY DEF GetNext
<1>4. out' \in [Getters -> Seq(Chunks \cup {Garbage})] /\ pos' \in [Procs -> Nat \ {0}]
  BY <1>1, <1>3 DEF TypeOK
<1>5. CASE i > Len(Links[target[g]])
  <2>1. Exit(g, "ok") /\ UNCHANGED cid
    BY <1>5, LinksType DEF GetNext
  <2>2. \A q \in Procs \ {g} : pos'[q] = pos[q]
    BY <1>3 DEF TypeOK
  <2>3. QED
    BY <1>1, <1>2, <1>3, <1>4, <2>1, <2>2, ExitType DEF TypeOK, Results
<1>6. CASE i <= Len(Links[target[g]])
  <2>1. /\ pc' = [pc EXCEPT ![g] = "get_redis"]
        /\ cid' = [cid EXCEPT ![g] = Links[target[g]][i]]
        /\ name' = [name EXCEPT ![g] = "null"]
        /\ fh' = [fh EXCEPT ![g] = NoInode]
        /\ UNCHANGED result
    BY <1>6 DEF GetNext, Goto
  <2>2. Links[target[g]][i] \in Cids
    BY <1>6, LinksType DEF Cids
  <2>3. TypeOK'
    BY <1>1, <1>2, <1>3, <1>4, <2>1, <2>2 DEF TypeOK, Labels, NoInode
  <2>4. Control'
    BY <1>1, <1>3, <1>6, <2>1 DEF Procs, TypeOK, Control, AtBlock, HasFile, AtLink
  <2>5. QED
    BY <2>3, <2>4
<1>7. QED
  BY <1>5, <1>6, LinksType

\* read_block from there on: verify, forget and remove, or read.
LEMMA ReadType ==
    ASSUME TypeInv, NEW g \in Getters,
           \/ OpenBlock(g) \/ ForgetMissing(g) \/ VerifyBlock(g)
           \/ ForgetBad(g) \/ RemoveBad(g) \/ ReadParent(g)
           \/ StopAtTarget(g) \/ ReadChunk(g)
    PROVE  TypeInv'
<1> USE DEF TypeInv, Procs
<1>a. TypeOK /\ Control /\ AtLink(g) /\ HasFile(g)
  BY DEF Control
<1>b. data \in [Paths -> [Inodes -> Contents]]
  BY <1>a DEF TypeOK
<1>1. CASE OpenBlock(g)
  <2>1. TypeOK'
    BY <1>a, <1>1, PathType DEF OpenBlock, HasFile, Goto, TypeOK, Labels, Results, fsVars, taskVars
  <2>2. Control'
    BY <1>a, <1>1, PathType DEF OpenBlock, Goto, TypeOK, Control, AtBlock, HasFile, AtLink, fsVars, taskVars
  <2>3. QED
    BY <2>1, <2>2
<1>2. CASE ForgetMissing(g)
  <2>1. TypeOK'
    BY <1>a, <1>2 DEF ForgetMissing, Goto, TypeOK, Labels, Results, fsVars, taskVars
  <2>2. Control'
    BY <1>a, <1>2 DEF ForgetMissing, Goto, TypeOK, Control, AtBlock, HasFile, AtLink, fsVars, taskVars
  <2>3. QED
    BY <2>1, <2>2
<1>3. CASE VerifyBlock(g)
  <2>1. CASE dir[Path(g)] = NoInode
    <3>1. data' \in [Paths -> [Inodes -> Contents]]
      BY <1>b, <1>3, <2>1, ReclaimType DEF VerifyBlock
    <3>2. QED
      BY <1>a, <1>3, <2>1, <3>1, ExitType DEF VerifyBlock, TypeOK, Results, taskVars
  <2>2. CASE dir[Path(g)] # NoInode
    <3>1. TypeOK'
      BY <1>a, <1>3, <2>2 DEF VerifyBlock, Goto, TypeOK, Labels, taskVars
    <3>2. Control'
      BY <1>a, <1>3, <2>2 DEF VerifyBlock, Goto, TypeOK, Control, AtBlock, HasFile, AtLink, taskVars
    <3>3. QED
      BY <3>1, <3>2
  <2>3. QED
    BY <2>1, <2>2
<1>4. CASE ForgetBad(g)
  <2>1. TypeOK'
    BY <1>a, <1>4 DEF ForgetBad, Goto, TypeOK, Labels, Results, fsVars, taskVars
  <2>2. Control'
    BY <1>a, <1>4 DEF ForgetBad, Goto, TypeOK, Control, AtBlock, HasFile, AtLink, fsVars, taskVars
  <2>3. QED
    BY <2>1, <2>2
<1>5. CASE RemoveBad(g)
  <2>1. data' \in [Paths -> [Inodes -> Contents]]
    BY <1>b, <1>5, ReclaimType DEF RemoveBad
  <2>2. TypeOK'
    BY <1>a, <1>5, <2>1 DEF RemoveBad, Goto, TypeOK, Labels, Results, fsVars, taskVars, NoInode
  <2>3. Control'
    BY <1>a, <1>5 DEF RemoveBad, Goto, TypeOK, Control, AtBlock, HasFile, AtLink, fsVars, taskVars, NoInode
  <2>4. QED
    BY <2>2, <2>3
<1>6. CASE ReadParent(g)
  <2>1. target[g] \in Parents /\ <<>> \in Seq(Chunks \cup {Garbage})
    BY <1>6 DEF ReadParent, IsFile
  <2>2. QED
    <3>1. pc[g] = "fread" /\ GetNext(g, 1, <<>>)
      BY <1>6 DEF ReadParent
    <3>2. 1 \in Nat \ {0}
      OBVIOUS
    <3>3. QED
      BY <2>1, <3>1, <3>2, GetNextType, Zenon
<1>7. CASE StopAtTarget(g)
  <2>1. data' \in [Paths -> [Inodes -> Contents]]
    BY <1>b, <1>7, ReclaimType DEF StopAtTarget
  <2>2. PICK r \in {"notfile", "shown"} : Exit(g, r)
    BY <1>7 DEF StopAtTarget
  <2>3. UNCHANGED <<redis, dir, cid, taskVars, upsets>>
    BY <1>7 DEF StopAtTarget
  <2>4. QED
    <3>1. r \in Results
      BY DEF Results
    <3>2. QED
      BY <1>a, <2>1, <2>2, <2>3, <3>1, ExitType DEF TypeOK, taskVars
<1>8. CASE ReadChunk(g)
  <2>1. PICK o : /\ GetNext(g, pos[g], o)
                 /\ o \in {out[g], Append(out[g], cid[g]), Append(out[g], Garbage)}
    BY <1>8 DEF ReadChunk
  <2>2. /\ target[g] \in Parents /\ pos[g] > 1 /\ pos[g] \in Nat \ {0}
        /\ cid[g] \in Chunks /\ out[g] \in Seq(Chunks \cup {Garbage})
    BY <1>a, <1>8, LinksType DEF ReadChunk, AtLink, TypeOK
  <2>3. o \in Seq(Chunks \cup {Garbage})
    <3>1. cid[g] \in Chunks \cup {Garbage} /\ Garbage \in Chunks \cup {Garbage}
      BY <2>2
    <3>2. /\ Append(out[g], cid[g]) \in Seq(Chunks \cup {Garbage})
          /\ Append(out[g], Garbage) \in Seq(Chunks \cup {Garbage})
      BY <2>2, <3>1
    <3>3. QED
      BY <2>1, <2>2, <3>2
  <2>4. pc[g] = "fread"
    BY <1>8 DEF ReadChunk
  <2>5. QED
    BY <2>1, <2>2, <2>3, <2>4, GetNextType
<1>9. QED
  BY <1>1, <1>2, <1>3, <1>4, <1>5, <1>6, <1>7, <1>8

LEMMA ServeType ==
    ASSUME TypeInv, NEW s \in Children, Serve(s) \/ \E c \in Cids : Accept(s, c)
    PROVE  TypeInv'
<1> USE DEF TypeInv, Procs
<1>a. TypeOK /\ Control /\ HasFile(s)
  BY DEF Control
<1>b. data \in [Paths -> [Inodes -> Contents]]
  BY <1>a DEF TypeOK
<1>1. CASE \E c \in Cids : Accept(s, c)
  <2>1. PICK c \in Cids : Accept(s, c)
    BY <1>1
  <2>2. TypeOK'
    BY <1>a, <2>1 DEF Accept, Start, Goto, TypeOK, Labels, Results
  <2>3. Control'
    BY <1>a, <2>1 DEF Accept, Start, Goto, TypeOK, Control, AtBlock, HasFile, AtLink
  <2>4. QED
    BY <2>2, <2>3
<1>2. CASE ChildAsks(s)
  <2>1. told' \subseteq Cids \X {"null", "hash", "cid"}
    BY <1>a, <1>2 DEF ChildAsks, TypeOK
  <2>2. TypeOK'
    BY <1>a, <1>2, <2>1 DEF ChildAsks, Goto, TypeOK, Labels, fsVars
  <2>3. Control'
    BY <1>a, <1>2 DEF ChildAsks, Goto, TypeOK, Control, AtBlock, HasFile, AtLink, fsVars
  <2>4. QED
    BY <2>2, <2>3
<1>8. CASE ChildHears(s)
  <2>1. /\ pc[s] = "s_reply"
        /\ UNCHANGED <<redis, dir, data, pos, target, out, runs, upsets, crossed>>
        /\ told' \subseteq told
    BY <1>8 DEF ChildHears
  <2>2. told' \subseteq Cids \X {"null", "hash", "cid"}
    BY <1>a, <2>1 DEF TypeOK
  <2>3. CASE Exit(s, "dead") /\ UNCHANGED cid
    BY <1>a, <2>1, <2>2, <2>3, ExitType DEF TypeOK, Results
  <2>4. CASE Goto(s, "s_peers") /\ UNCHANGED <<cid, name, fh, result>>
    <3>1. TypeOK'
      BY <1>a, <2>1, <2>2, <2>4 DEF Goto, TypeOK, Labels
    <3>2. Control'
      BY <1>a, <2>1, <2>4 DEF Goto, TypeOK, Control, AtBlock, HasFile, AtLink
    <3>3. QED
      BY <3>1, <3>2
  <2>5. ASSUME NEW r \in told, r[2] # "null",
               cid' = [cid EXCEPT ![s] = r[1]], name' = [name EXCEPT ![s] = r[2]],
               Goto(s, "s_verify"), UNCHANGED <<fh, result>>
        PROVE  TypeInv'
    <3>1. r[1] \in Cids /\ r[2] \in {"null", "hash", "cid"}
      BY <1>a DEF TypeOK
    <3>2. TypeOK'
      BY <1>a, <2>1, <2>2, <2>5, <3>1 DEF Goto, TypeOK, Labels
    <3>3. Control'
      BY <1>a, <2>1, <2>5 DEF Goto, TypeOK, Control, AtBlock, HasFile, AtLink
    <3>4. QED
      BY <3>2, <3>3
  <2>6. QED
    BY <1>8, <2>3, <2>4, <2>5 DEF ChildHears
<1>3. CASE ChildVerify(s)
  <2>1. CASE dir[Path(s)] = NoInode
    BY <1>a, <1>3, <2>1, ExitType DEF ChildVerify, TypeOK, Results, taskVars
  <2>2. CASE dir[Path(s)] # NoInode
    <3>1. PICK l \in {"s_send", "s_del"} : pc' = [pc EXCEPT ![s] = l]
      BY <1>3, <2>2 DEF ChildVerify, Goto
    <3>2. PICK r \in {"Y", result[s]} : result' = [result EXCEPT ![s] = r]
      BY <1>a, <1>3, <2>2 DEF ChildVerify, TypeOK
    <3>3. UNCHANGED <<redis, dir, data, cid, name, fh, taskVars, upsets>>
      BY <1>3, <2>2 DEF ChildVerify
    <3>4. TypeOK'
      BY <1>a, <3>1, <3>2, <3>3 DEF TypeOK, Labels, Results, taskVars
    <3>5. Control'
      BY <1>a, <1>3, <3>1, <3>3 DEF ChildVerify, TypeOK, Control, AtBlock, HasFile, AtLink, taskVars
    <3>6. QED
      BY <3>4, <3>5
  <2>3. QED
    BY <2>1, <2>2
<1>4. CASE ChildForget(s)
  <2>1. TypeOK'
    BY <1>a, <1>4 DEF ChildForget, Goto, TypeOK, Labels, fsVars, taskVars
  <2>2. Control'
    BY <1>a, <1>4 DEF ChildForget, Goto, TypeOK, Control, AtBlock, HasFile, AtLink, fsVars, taskVars
  <2>3. QED
    BY <2>1, <2>2
<1>5. CASE ChildRemove(s)
  <2>1. data' \in [Paths -> [Inodes -> Contents]]
    BY <1>b, <1>5, ReclaimType DEF ChildRemove
  <2>2. TypeOK'
    BY <1>a, <1>5, <2>1 DEF ChildRemove, Goto, TypeOK, Labels, taskVars, NoInode
  <2>3. Control'
    BY <1>a, <1>5 DEF ChildRemove, Goto, TypeOK, Control, AtBlock, HasFile, AtLink, taskVars
  <2>4. QED
    BY <2>2, <2>3
<1>9. CASE ChildPeers(s)
  <2>1. Exit(s, "N") /\ UNCHANGED <<redis, dir, data, cid, taskVars, upsets>>
    BY <1>9 DEF ChildPeers
  <2>2. QED
    BY <1>a, <2>1, ExitType DEF TypeOK, Results, taskVars
<1>6. CASE ChildSend(s)
  <2>1. PICK r \in {"dead", "sent", "sent_bad"} : Exit(s, r)
    BY <1>6 DEF ChildSend
  <2>2. UNCHANGED <<redis, dir, data, cid, taskVars, upsets>>
    BY <1>6 DEF ChildSend
  <2>3. r \in Results
    BY DEF Results
  <2>4. QED
    BY <1>a, <2>1, <2>2, <2>3, ExitType DEF TypeOK, taskVars
<1>7. QED
  BY <1>1, <1>2, <1>3, <1>4, <1>5, <1>6, <1>8, <1>9 DEF Serve

LEMMA UpsetType ==
    ASSUME TypeInv, Clean \/ \E p \in Procs : Kill(p)
    PROVE  TypeInv'
<1> USE DEF TypeInv
<1>1. CASE Clean
  <2>1. TypeOK'
    BY <1>1 DEF Clean, Upset, TypeOK, fsVars, taskVars
  <2>2. Control'
    BY <1>1 DEF Clean, Control, AtBlock, HasFile, AtLink, fsVars, taskVars
  <2>3. QED
    BY <2>1, <2>2
<1>2. ASSUME NEW p \in Procs, Kill(p) PROVE TypeInv'
  <2>1. data' \in [Paths -> [Inodes -> Contents]]
    BY <1>2, ReclaimType DEF Kill, TypeOK
  <2>2. /\ redis' \in [Cids -> {"null", "hash", "cid"}]
        /\ dir' \in [Paths -> Inodes \cup {NoInode}]
        /\ pos' \in [Procs -> Nat \ {0}]
        /\ out' \in [Getters -> Seq(Chunks \cup {Garbage})]
        /\ upsets' \in Nat
        /\ told' \subseteq Cids \X {"null", "hash", "cid"}
        /\ crossed' \in BOOLEAN
    BY <1>2 DEF Kill, Upset, TypeOK
  <2>3. /\ Exit(p, "killed") /\ UNCHANGED <<cid, target, runs>>
        /\ \A q \in Procs \ {p} : pos'[q] = pos[q]
    BY <1>2 DEF Kill
  <2>4. "killed" \in Results
    BY DEF Results
  <2>5. QED
    BY <2>1, <2>2, <2>3, <2>4, ExitType
<1>3. QED
  BY <1>1, <1>2

\* Every step keeps the types and the control state.
LEMMA NextType == TypeInv /\ [Next]_vars => TypeInv'
<1> SUFFICES ASSUME TypeInv, [Next]_vars PROVE TypeInv'
  OBVIOUS
<1>1. ASSUME NEW a \in Adders, AddStart(a) \/ Add(a) PROVE TypeInv'
  BY <1>1, AddType
<1>2. ASSUME NEW g \in Getters, NEW c \in Cids, GetStart(g, c) PROVE TypeInv'
  BY <1>2, GetStartType
<1>3. ASSUME NEW g \in Getters, Get(g) \/ CutTransfer(g) PROVE TypeInv'
  BY <1>3, FindType, ReadType DEF Get
<1>4. ASSUME NEW s \in Children, Serve(s) \/ \E c \in Cids : Accept(s, c)
      PROVE  TypeInv'
  BY <1>4, ServeType
<1>5. CASE Clean \/ \E p \in Procs : Kill(p)
  BY <1>5, UpsetType
<1>6. CASE UNCHANGED vars
  <2>1. TypeOK'
    BY <1>6 DEF TypeInv, TypeOK, vars
  <2>2. Control'
    BY <1>6 DEF TypeInv, Control, AtBlock, HasFile, AtLink, vars
  <2>3. QED
    BY <2>1, <2>2 DEF TypeInv
<1>7. QED
  BY <1>1, <1>2, <1>3, <1>4, <1>5, <1>6 DEF Next, Finished

\* The block store keeps its types, whatever the numbers of processes and
\* blocks, and whatever processes are killed (BlockStore, all of it).
THEOREM TypeCorrect == Spec => []TypeOK
<1>1. Spec => []TypeInv
  BY InitType, NextType, PTL DEF Spec
<1>2. TypeInv => TypeOK
  BY DEF TypeInv
<1>3. QED
  BY <1>1, <1>2, PTL
-----------------------------------------------------------------------------
(* AddedIntact.  The blocks an adder is done with are whole; a reader only  *)
(* knows those under the name an adder gives; and a reader writes to, or    *)
(* removes, a file it downloaded, never one that was added.  What is said   *)
(* of the removals holds as long as the children's replies are not crossed. *)

Readers == Getters \cup Children

\* Some adder has registered c and gone on to its next block.
Stored(c) == \E a \in Adders : \E i \in 1..Len(Blocks(a)) :
                 i < pos[a] /\ Blocks(a)[i] = c

\* How far the file of the block that a is working on has come.
Progress(a) ==
    /\ pc[a] # "idle" => runs[a] # 0
    /\ runs[a] = 0 => pos[a] = 1
    /\ pc[a] = "fwrite" => dir[Path(a)] = fh[a] /\ data[Path(a)][fh[a]] = Empty
    /\ pc[a] = "fclose" =>
         dir[Path(a)] = fh[a] /\ data[Path(a)][fh[a]] = WithPart(Empty, "head")
    /\ pc[a] \in {"generate_cid", "set_redis"} => Whole(Path(a))

\* A getter that downloads writes to, and registers, a file of its own kind.
Downloads(g) == pc[g] \in {"recv", "recv_tail", "set_redis"} => name[g] = "cid"

HarmsNone(p) ==
    pc[p] \in {"del_missing", "del_bad", "remove", "s_del", "s_remove"} =>
        name[p] # "hash"

\* KnownAsAdded, or about to be: a child was told so and has not read it.
Known(c) == KnownAsAdded(c) \/ <<c, "hash">> \in told

AddInv ==
    /\ \A c \in Cids : Known(c) => Stored(c)
    /\ \A a \in Adders : Progress(a)
    /\ \A g \in Getters : Downloads(g)
    /\ ~crossed => \A c \in Cids : Stored(c) => Whole(<<c, "hash">>)
    /\ ~crossed => \A p \in Readers : HarmsNone(p)

\* The file linked at f, if any, stays there with the same contents.
SameFile(f) ==
    /\ dir'[f] = dir[f]
    /\ dir[f] # NoInode => data'[f][dir[f]] = data[f][dir[f]]

\* Only p takes a step.
OnlyMoves(p) == \A q \in Procs \ {p} :
    /\ pc'[q] = pc[q] /\ cid'[q] = cid[q] /\ name'[q] = name[q]
    /\ fh'[q] = fh[q] /\ pos'[q] = pos[q] /\ runs'[q] = runs[q]

LEMMA ReclaimKeeps ==
    ASSUME TypeOK, NEW f, NEW d, Reclaim(f, d),
           NEW e \in Paths, dir'[e] \in Inodes
    PROVE  data'[e][dir'[e]] = d[e][dir'[e]]
BY DEF Reclaim

LEMMA SameFileWhole ==
    ASSUME NEW f, SameFile(f), Whole(f)
    PROVE  Whole(f)'
BY DEF SameFile, Whole

\* The block an adder is working on: nobody else writes it, and it is not
\* yet stored.
LEMMA OwnBlock ==
    ASSUME OncePerBlock, TypeInv, NEW a \in Adders, pc[a] # "idle"
    PROVE  /\ Path(a) = <<cid[a], "hash">> /\ cid[a] \in Cids
           /\ Path(a) \in Paths
           /\ ~Stored(cid[a])
           /\ \A b \in Adders \ {a} : pc[b] # "idle" => Path(b) # Path(a)
<1> USE DEF Procs
<1>1. AtBlock(a) /\ TypeOK /\ \A b \in Adders : AtBlock(b)
  BY DEF TypeInv, Control
<1>2. /\ name[a] = "hash" /\ pos[a] \in 1..Len(Blocks(a))
      /\ cid[a] = Blocks(a)[pos[a]]
  BY <1>1 DEF AtBlock
<1>3. Path(a) = <<cid[a], "hash">> /\ cid[a] \in Cids /\ Path(a) \in Paths
  BY <1>1, <1>2 DEF TypeOK, Path, Paths
<1>4. ~Stored(cid[a])
  <2> SUFFICES ASSUME NEW b \in Adders, NEW i \in 1..Len(Blocks(b)),
                      i < pos[b], Blocks(b)[i] = cid[a]
               PROVE  FALSE
    BY DEF Stored
  <2>1. b = a /\ i = pos[a]
    BY <1>2 DEF OncePerBlock
  <2>2. QED
    BY <2>1, <1>2, BlocksType
<1>5. ASSUME NEW b \in Adders \ {a}, pc[b] # "idle", Path(b) = Path(a)
      PROVE  FALSE
  <2>1. /\ pos[b] \in 1..Len(Blocks(b)) /\ cid[b] = Blocks(b)[pos[b]]
    BY <1>1, <1>5 DEF AtBlock
  <2>2. cid[b] = cid[a]
    BY <1>5 DEF Path
  <2>3. Blocks(a)[pos[a]] = Blocks(b)[pos[b]] /\ a # b /\ b \in Adders
    BY <1>2, <2>1, <2>2
  <2>4. \A i \in 1..Len(Blocks(a)), j \in 1..Len(Blocks(b)) :
           Blocks(a)[i] = Blocks(b)[j] => a = b
    BY <2>3 DEF OncePerBlock
  <2>5. QED
    BY <1>2, <2>1, <2>3, <2>4
<1>6. QED
  BY <1>3, <1>4, <1>5

\* A step of an adder that changes at most its own file, and registers and
\* stores nothing, keeps AddInv.
LEMMA AdderWorks ==
    ASSUME OncePerBlock, TypeInv, AddInv, NEW a \in Adders, OnlyMoves(a),
           pc[a] # "idle",
           \A f \in Paths \ {Path(a)} : SameFile(f),
           UNCHANGED <<redis, told, crossed>>, pos'[a] = pos[a], Progress(a)'
    PROVE  AddInv'
<1> USE DEF Procs, Readers
<1>1. \A c \in Cids : Stored(c)' <=> Stored(c)
  BY DEF Stored, OnlyMoves
<1>2. \A c \in Cids : Known(c)' <=> Known(c)
  BY DEF Known, KnownAsAdded, OnlyMoves
<1>3. ~crossed => \A c \in Cids : Stored(c)' => Whole(<<c, "hash">>)'
  <2> SUFFICES ASSUME ~crossed, NEW c \in Cids, Stored(c) PROVE Whole(<<c, "hash">>)'
    BY <1>1
  <2>1. <<c, "hash">> \in Paths /\ <<c, "hash">> # Path(a)
    BY OwnBlock DEF Paths
  <2>2. QED
    BY <2>1, SameFileWhole DEF AddInv
<1>4. ASSUME NEW b \in Adders PROVE Progress(b)'
  <2>1. CASE b = a
    BY <2>1
  <2>2. CASE b # a
    <3>1. /\ pc'[b] = pc[b] /\ fh'[b] = fh[b] /\ pos'[b] = pos[b]
          /\ runs'[b] = runs[b] /\ Path(b)' = Path(b)
      BY <2>2 DEF OnlyMoves, Path
    <3>2. CASE pc[b] = "idle"
      BY <3>1, <3>2 DEF Progress, AddInv
    <3>3. CASE pc[b] # "idle"
      <4>1. SameFile(Path(b))
        BY <2>2, <3>3, OwnBlock
      <4>2. pc[b] \in {"fwrite", "fclose"} => fh[b] # NoInode
        BY DEF TypeInv, Control, HasFile
      <4>3. Whole(Path(b)) => Whole(Path(b))'
        BY <3>1, <4>1 DEF SameFile, Whole
      <4>4. QED
        BY <3>1, <4>1, <4>2, <4>3 DEF Progress, AddInv, SameFile
    <3>4. QED
      BY <3>2, <3>3
  <2>3. QED
    BY <2>1, <2>2
<1>5. ~crossed => \A p \in Readers : HarmsNone(p)'
  BY DEF AddInv, HarmsNone, OnlyMoves
<1>6. \A g \in Getters : Downloads(g)'
  BY DEF AddInv, Downloads, OnlyMoves
<1>7. QED
  BY <1>1, <1>2, <1>3, <1>4, <1>5, <1>6 DEF AddInv

LEMMA SameProgress ==
    ASSUME NEW b \in Adders, Progress(b), UNCHANGED <<dir, data>>,
           pc'[b] = pc[b], cid'[b] = cid[b], name'[b] = name[b],
           fh'[b] = fh[b], pos'[b] = pos[b], runs'[b] = runs[b]
    PROVE  Progress(b)'
<1>1. Path(b)' = Path(b)
  BY DEF Path
<1>2. Whole(Path(b))' <=> Whole(Path(b))
  BY <1>1 DEF Whole
<1>3. QED
  BY <1>1, <1>2 DEF Progress

\* An adder that registers its block, which is whole, and goes on.
LEMMA AdderRegisters ==
    ASSUME OncePerBlock, TypeInv, AddInv, NEW a \in Adders, RegisterBlock(a)
    PROVE  AddInv'
<1> USE DEF Procs, Readers
<1>1. /\ pc[a] = "set_redis" /\ redis' = [redis EXCEPT ![cid[a]] = "hash"]
      /\ NextBlock(a, result[a])
  BY DEF RegisterBlock
<1>2. /\ pos[a] \in 1..Len(Blocks(a)) /\ cid[a] = Blocks(a)[pos[a]]
      /\ TypeOK /\ Len(Blocks(a)) \in Nat
  BY <1>1, BlocksType DEF TypeInv, Control, AtBlock
<1>3. pos' = [pos EXCEPT ![a] = @ + 1] /\ UNCHANGED <<dir, data, runs, told, crossed>>
  BY <1>1 DEF NextBlock
<1>4. OnlyMoves(a) /\ pc'[a] \in {"fopen_wb", "idle"}
  BY <1>1, <1>2, <1>3 DEF OnlyMoves, NextBlock, Exit, Goto, TypeOK
<1>5. \A c \in Cids : Stored(c)' => Stored(c) \/ c = cid[a]
  BY <1>2, <1>3 DEF Stored, TypeOK
<1>6. \A c \in Cids : c = cid[a] \/ Stored(c) => Stored(c)'
  <2>1. /\ pos'[a] = pos[a] + 1 /\ pos[a] \in Nat
        /\ \A b \in Adders \ {a} : pos'[b] = pos[b]
    BY <1>2, <1>3 DEF TypeOK
  <2>2. ASSUME NEW c \in Cids, c = cid[a] PROVE Stored(c)'
    <3>1. pos[a] < pos'[a] /\ Blocks(a)[pos[a]] = c
      BY <1>2, <2>1, <2>2
    <3>2. QED
      BY <1>2, <3>1 DEF Stored
  <2>3. ASSUME NEW c \in Cids, Stored(c) PROVE Stored(c)'
    <3>1. PICK b \in Adders : \E i \in 1..Len(Blocks(b)) : i < pos[b] /\ Blocks(b)[i] = c
      BY <2>3 DEF Stored
    <3>2. PICK i \in 1..Len(Blocks(b)) : i < pos[b] /\ Blocks(b)[i] = c
      BY <3>1
    <3>3. pos[b] \in Nat /\ i \in Nat /\ Len(Blocks(b)) \in Nat
      BY <1>2, BlocksType DEF TypeOK
    <3>4. pos'[b] = pos[b] \/ pos'[b] = pos[b] + 1
      BY <2>1
    <3>5. i < pos'[b]
      BY <3>2, <3>3, <3>4
    <3>6. QED
      BY <3>2, <3>5 DEF Stored
  <2>4. QED
    BY <2>2, <2>3
<1>7. ASSUME NEW c \in Cids, Known(c)', c # cid[a] PROVE Known(c)
  <2>1. redis'[c] = redis[c]
    BY <1>1, <1>2, <1>7 DEF TypeOK
  <2>2. \A p \in Readers : cid'[p] = cid[p] /\ name'[p] = name[p]
    BY <1>4 DEF OnlyMoves
  <2>3. QED
    BY <1>3, <1>7, <2>1, <2>2 DEF Known, KnownAsAdded
<1>8. \A f \in Paths : Whole(f)' <=> Whole(f)
  BY <1>3 DEF Whole
<1>9. Whole(<<cid[a], "hash">>)
  BY <1>1, OwnBlock DEF AddInv, Progress
<1>10. ASSUME NEW b \in Adders PROVE Progress(b)'
  <2>1. CASE b = a
    BY <1>1, <1>2, <1>3, <1>4, <2>1 DEF Progress, AddInv, TypeOK
  <2>2. CASE b # a
    BY <1>3, <1>4, <2>2, SameProgress DEF AddInv, OnlyMoves
  <2>3. QED
    BY <2>1, <2>2
<1>11. /\ ~crossed' => \A p \in Readers : HarmsNone(p)'
       /\ \A g \in Getters : Downloads(g)'
  BY <1>3, <1>4 DEF AddInv, HarmsNone, Downloads, OnlyMoves
<1>12. ASSUME NEW c \in Cids, Known(c)' PROVE Stored(c)'
  <2>1. CASE c = cid[a]
    BY <1>6, <2>1
  <2>2. CASE c # cid[a]
    BY <1>6, <1>7, <1>12, <2>2 DEF AddInv
  <2>3. QED
    BY <2>1, <2>2
<1>13. ~crossed' => \A c \in Cids : Stored(c)' => Whole(<<c, "hash">>)'
  BY <1>3, <1>5, <1>8, <1>9 DEF AddInv, Paths
<1>14. QED
  BY <1>10, <1>11, <1>12, <1>13 DEF AddInv

LEMMA AddStepKeeps ==
    ASSUME OncePerBlock, TypeInv, AddInv, NEW a \in Adders,
           AddStart(a) \/ Add(a)
    PROVE  AddInv'
<1> USE DEF Procs
<1>a. TypeOK /\ HasFile(a) /\ Progress(a)
  BY DEF TypeInv, Control, AddInv
<1>b. pc[a] # "idle" => Path(a) \in Paths
  BY OwnBlock
<1>1. CASE AddStart(a)
  <2>1. /\ pc[a] = "idle" /\ runs[a] = 0 /\ pos[a] = 1
    BY <1>a, <1>1 DEF AddStart, Start, OncePerBlock, Progress, TypeOK
  <2>2. /\ UNCHANGED <<redis, dir, data, pos, told, crossed>> /\ OnlyMoves(a)
        /\ pc'[a] = "fopen_wb" /\ runs'[a] # 0
    BY <1>a, <1>1, <2>1 DEF AddStart, Start, Goto, OnlyMoves, TypeOK
  <2>3. \A c \in Cids : Stored(c)' <=> Stored(c)
    BY <2>2 DEF Stored
  <2>4. \A c \in Cids : Known(c)' <=> Known(c)
    BY <2>2 DEF Known, KnownAsAdded, OnlyMoves
  <2>5. ASSUME NEW b \in Adders PROVE Progress(b)'
    <3>1. CASE b = a
      BY <2>1, <2>2, <3>1 DEF Progress
    <3>2. CASE b # a
      BY <2>2, <3>2, SameProgress DEF AddInv, OnlyMoves
    <3>3. QED
      BY <3>1, <3>2
  <2>6. /\ ~crossed' => \A p \in Readers : HarmsNone(p)'
        /\ \A g \in Getters : Downloads(g)'
    BY <2>2 DEF AddInv, HarmsNone, Downloads, OnlyMoves, Readers
  <2>7. QED
    BY <2>2, <2>3, <2>4, <2>5, <2>6 DEF AddInv, Whole
<1>2. CASE CreateBlock(a)
  <2>1. PICK i \in Inodes : fh' = [fh EXCEPT ![a] = i] /\ dir' = [dir EXCEPT ![Path(a)] = i]
    <3>1. Path(a) \in Paths
      BY <1>b, <1>2 DEF CreateBlock
    <3>2. QED
      BY <1>a, <1>2, <3>1, OpenCreateType DEF CreateBlock
  <2>2. /\ data' = [data EXCEPT ![Path(a)][i] = Empty]
        /\ pc' = [pc EXCEPT ![a] = "fwrite"] /\ pc[a] = "fopen_wb"
        /\ UNCHANGED <<redis, cid, name, pos, runs, told, crossed>>
    BY <1>a, <1>2, <2>1 DEF CreateBlock, Goto, taskVars, TypeOK
  <2>3. OnlyMoves(a) /\ \A f \in Paths \ {Path(a)} : SameFile(f)
    BY <1>a, <1>b, <2>1, <2>2 DEF OnlyMoves, SameFile, TypeOK
  <2>4. Progress(a)'
    BY <1>a, <1>b, <2>1, <2>2 DEF Progress, Path, TypeOK
  <2>5. QED
    BY <2>2, <2>3, <2>4, AdderWorks
<1>3. CASE WriteBlock(a)
  <2>1. /\ data' = [data EXCEPT ![Path(a)][fh[a]] = WithPart(@, "head")]
        /\ pc' = [pc EXCEPT ![a] = "fclose"] /\ pc[a] = "fwrite"
        /\ UNCHANGED <<redis, dir, cid, name, fh, pos, runs, told, crossed>>
    BY <1>3 DEF WriteBlock, Written, Goto, taskVars
  <2>2. OnlyMoves(a) /\ \A f \in Paths \ {Path(a)} : SameFile(f)
    BY <1>a, <1>b, <2>1 DEF OnlyMoves, SameFile, TypeOK
  <2>3. fh[a] \in Inodes
    BY <1>a, <2>1 DEF HasFile, TypeOK
  <2>4. data'[Path(a)][fh[a]] = WithPart(Empty, "head")
    BY <1>a, <1>b, <2>1, <2>3 DEF Progress, TypeOK
  <2>5. Progress(a)'
    BY <1>a, <2>1, <2>4 DEF Progress, Path, TypeOK
  <2>6. QED
    BY <2>1, <2>2, <2>5, AdderWorks
<1>4. CASE CloseBlock(a)
  <2>1. /\ Reclaim(Path(a), Written(a, "tail"))
        /\ pc' = [pc EXCEPT ![a] = "generate_cid"] /\ pc[a] = "fclose"
        /\ fh' = [fh EXCEPT ![a] = NoInode]
        /\ UNCHANGED <<redis, dir, cid, name, pos, runs, told, crossed>>
    BY <1>4 DEF CloseBlock, Goto, taskVars
  <2>2. ASSUME NEW f \in Paths \ {Path(a)} PROVE SameFile(f)
    <3>1. dir[f] # NoInode => dir'[f] \in Inodes
      BY <1>a, <2>1 DEF TypeOK
    <3>2. Written(a, "tail")[f] = data[f]
      BY <1>a, <1>b, <2>1 DEF Written, TypeOK
    <3>3. QED
      BY <1>a, <2>1, <3>1, <3>2, ReclaimKeeps DEF SameFile
  <2>3. OnlyMoves(a)
    BY <1>a, <2>1 DEF OnlyMoves, TypeOK
  <2>4. fh[a] \in Inodes /\ dir[Path(a)] = fh[a] /\ Path(a) \in Paths
    BY <1>a, <1>b, <2>1 DEF HasFile, Progress, TypeOK
  <2>5. Written(a, "tail")[Path(a)][fh[a]] = Intact
    <3>1. Written(a, "tail")[Path(a)][fh[a]] = WithPart(data[Path(a)][fh[a]], "tail")
      BY <1>a, <2>4 DEF Written, TypeOK
    <3>2. data[Path(a)][fh[a]] = WithPart(Empty, "head")
      BY <1>a, <2>1 DEF Progress
    <3>3. QED
      BY <3>1, <3>2 DEF WithPart, Empty, Intact
  <2>6. Whole(Path(a))'
    <3>1. Path(a)' = Path(a) /\ dir'[Path(a)] = fh[a] /\ fh[a] # NoInode
      BY <2>1, <2>4 DEF Path, Inodes, NoInode
    <3>2. data'[Path(a)][dir'[Path(a)]] = Intact
      BY <1>a, <2>1, <2>4, <2>5, <3>1, ReclaimKeeps
    <3>3. QED
      BY <3>1, <3>2 DEF Whole
  <2>7. Progress(a)'
    BY <1>a, <2>1, <2>6 DEF Progress, TypeOK
  <2>8. QED
    BY <2>1, <2>2, <2>3, <2>7, AdderWorks
<1>5. CASE GenerateCid(a)
  <2>1. Whole(Path(a)) /\ pc[a] = "generate_cid"
    BY <1>a, <1>5 DEF GenerateCid, Progress
  <2>2. /\ pc' = [pc EXCEPT ![a] = "set_redis"]
        /\ UNCHANGED <<redis, dir, data, cid, name, fh, pos, runs, told, crossed>>
    BY <1>5, <2>1 DEF GenerateCid, Whole, Goto, taskVars
  <2>3. OnlyMoves(a) /\ \A f \in Paths \ {Path(a)} : SameFile(f)
    BY <1>a, <2>2 DEF OnlyMoves, SameFile, TypeOK
  <2>4. Progress(a)'
    BY <1>a, <2>1, <2>2 DEF Progress, Path, Whole, TypeOK
  <2>5. QED
    BY <2>1, <2>2, <2>3, <2>4, AdderWorks
<1>6. CASE RegisterBlock(a)
  BY <1>6, AdderRegisters
<1>7. QED
  BY <1>1, <1>2, <1>3, <1>4, <1>5, <1>6 DEF Add

\* The file of the block c, as it was added, is left alone; or the children's
\* replies are crossed and it was stored before.
Spares(c) == SameFile(<<c, "hash">>) \/ (crossed /\ Stored(c))

\* What every step of a reader comes to.
ReaderStep(p) ==
    /\ OnlyMoves(p)
    /\ crossed => crossed'
    /\ \A c \in Cids : redis'[c] = "hash" => redis[c] = "hash"
    /\ \A c \in Cids : <<c, "hash">> \in told' => Known(c)
    /\ name'[p] = "hash" => Known(cid'[p])
    /\ p \in Getters => Downloads(p)'
    /\ ~crossed => HarmsNone(p)'
    /\ \A c \in Cids : Spares(c)

LEMMA ReaderKeeps ==
    ASSUME OncePerBlock, TypeInv, AddInv, NEW p \in Readers, ReaderStep(p)
    PROVE  AddInv'
<1> USE DEF Procs, Readers
<1>1. OnlyMoves(p) /\ TypeOK /\ (crossed => crossed')
  BY DEF ReaderStep, TypeInv
<1>2. \A c \in Cids : Stored(c)' <=> Stored(c)
  BY <1>1 DEF Stored, OnlyMoves
<1>3. ASSUME NEW c \in Cids, Known(c)' PROVE Known(c)
  <2>1. CASE redis'[c] = "hash"
    BY <2>1 DEF ReaderStep, Known, KnownAsAdded
  <2>2. CASE <<c, "hash">> \in told'
    BY <2>2 DEF ReaderStep
  <2>3. ASSUME NEW q \in Readers, cid'[q] = c, name'[q] = "hash" PROVE Known(c)
    <3>1. CASE q = p
      BY <2>3, <3>1 DEF ReaderStep
    <3>2. CASE q # p
      BY <1>1, <2>3, <3>2 DEF OnlyMoves, Known, KnownAsAdded
    <3>3. QED
      BY <3>1, <3>2
  <2>4. QED
    BY <1>3, <2>1, <2>2, <2>3 DEF Known, KnownAsAdded
<1>4. ASSUME ~crossed', NEW c \in Cids, Stored(c)' PROVE Whole(<<c, "hash">>)'
  <2>1. ~crossed /\ Stored(c) /\ SameFile(<<c, "hash">>)
    BY <1>1, <1>2, <1>4 DEF ReaderStep, Spares
  <2>2. QED
    BY <2>1, SameFileWhole DEF AddInv
<1>5. ASSUME NEW b \in Adders PROVE Progress(b)'
  <2>1. /\ pc'[b] = pc[b] /\ cid'[b] = cid[b] /\ name'[b] = name[b]
        /\ fh'[b] = fh[b] /\ pos'[b] = pos[b] /\ runs'[b] = runs[b]
    BY <1>1 DEF OnlyMoves
  <2>2. CASE pc[b] = "idle"
    BY <2>1, <2>2 DEF Progress, AddInv
  <2>3. CASE pc[b] # "idle"
    <3>1. SameFile(Path(b)) /\ Path(b)' = Path(b)
      <4>1. Path(b) = <<cid[b], "hash">> /\ cid[b] \in Cids /\ ~Stored(cid[b])
        BY <2>3, OwnBlock
      <4>2. QED
        BY <2>1, <4>1 DEF ReaderStep, Spares, Path
    <3>2. Whole(Path(b)) => Whole(Path(b))'
      BY <3>1 DEF SameFile, Whole
    <3>3. pc[b] \in {"fwrite", "fclose"} => fh[b] # NoInode
      BY DEF TypeInv, Control, HasFile
    <3>4. QED
      BY <2>1, <3>1, <3>2, <3>3 DEF Progress, AddInv, SameFile
  <2>4. QED
    BY <2>2, <2>3
<1>6. ASSUME ~crossed', NEW q \in Readers PROVE HarmsNone(q)'
  <2>1. CASE q = p
    BY <1>1, <1>6, <2>1 DEF ReaderStep
  <2>2. CASE q # p
    BY <1>1, <1>6, <2>2 DEF AddInv, HarmsNone, OnlyMoves
  <2>3. QED
    BY <2>1, <2>2
<1>7. ASSUME NEW g \in Getters PROVE Downloads(g)'
  <2>1. CASE g = p
    BY <2>1 DEF ReaderStep
  <2>2. CASE g # p
    BY <1>1, <2>2 DEF AddInv, Downloads, OnlyMoves
  <2>3. QED
    BY <2>1, <2>2
<1>8. QED
  BY <1>2, <1>3, <1>4, <1>5, <1>6, <1>7 DEF AddInv

\* A reader that leaves the files alone, or only closes its own.
LEMMA ReaderFiles ==
    ASSUME TypeOK, UNCHANGED dir,
           \/ UNCHANGED data
           \/ \E f : Reclaim(f, data)
    PROVE  \A c \in Cids : SameFile(<<c, "hash">>)
<1> SUFFICES ASSUME NEW c \in Cids PROVE SameFile(<<c, "hash">>)
  OBVIOUS
<1> DEFINE e == <<c, "hash">>
<1>1. e \in Paths /\ dir[e] \in Inodes \cup {NoInode}
  BY DEF Paths, TypeOK
<1>2. CASE UNCHANGED data
  BY <1>2 DEF SameFile
<1>3. CASE \E f : Reclaim(f, data)
  <2>1. PICK f : Reclaim(f, data)
    BY <1>3
  <2>2. dir[e] # NoInode => data'[e][dir'[e]] = data[e][dir'[e]]
    BY <1>1, <2>1, ReclaimKeeps
  <2>3. QED
    BY <2>2 DEF SameFile
<1>4. QED
  BY <1>2, <1>3

\* A reader that removes a file at another path.
LEMMA ReaderRemoves ==
    ASSUME TypeOK, NEW f \in Paths, dir' = [dir EXCEPT ![f] = NoInode],
           Reclaim(f, data), NEW c \in Cids, f # <<c, "hash">>
    PROVE  SameFile(<<c, "hash">>)
<1> DEFINE e == <<c, "hash">>
<1>1. /\ e \in Paths /\ dir[e] \in Inodes \cup {NoInode}
      /\ e # f /\ dir'[e] = dir[e]
  BY DEF Paths, TypeOK
<1>2. dir[e] # NoInode => data'[e][dir'[e]] = data[e][dir'[e]]
  BY <1>1, ReclaimKeeps
<1>3. QED
  BY <1>1, <1>2 DEF SameFile

\* A reader that removes the file that it looked up: it is not one that was
\* added, or replies are crossed and the block was stored.
LEMMA RemovesLookedUp ==
    ASSUME TypeOK, AddInv, NEW p \in Readers, name[p] # "null",
           ~crossed => name[p] # "hash",
           dir' = [dir EXCEPT ![Path(p)] = NoInode], Reclaim(Path(p), data)
    PROVE  \A c \in Cids : Spares(c)
<1> SUFFICES ASSUME NEW c \in Cids PROVE Spares(c)
  OBVIOUS
<1>1. p \in Procs /\ Path(p) \in Paths
  BY PathType DEF Readers, Procs
<1>2. CASE Path(p) # <<c, "hash">>
  BY <1>1, <1>2, ReaderRemoves DEF Spares
<1>3. CASE Path(p) = <<c, "hash">>
  <2>1. cid[p] = c /\ name[p] = "hash"
    BY <1>3 DEF Path
  <2>2. Known(c)
    BY <2>1 DEF Known, KnownAsAdded, Readers
  <2>3. QED
    BY <2>1, <2>2 DEF Spares, AddInv
<1>4. QED
  BY <1>2, <1>3

\* A block known under the name an adder gives hashes to its CID.
LEMMA KnownWhole ==
    ASSUME TypeOK, AddInv, ~crossed, NEW p \in Readers, name[p] = "hash"
    PROVE  Whole(Path(p))
<1>1. cid[p] \in Cids /\ Known(cid[p])
  BY DEF TypeOK, Known, KnownAsAdded, Readers, Procs
<1>2. QED
  BY <1>1 DEF AddInv, Path

\* The children's replies, as long as they are not crossed: one child is at
\* work at most, and the reply that is unread, if any, is to its request.
Alone == \A s, t \in Children : pc[s] # "idle" /\ pc[t] # "idle" => s = t
Awaited(r) == \E s \in Children : pc[s] = "s_reply" /\ r[1] = target[s]
OwnName(s) == name[s] # "null" => cid[s] = target[s]

Replies == ~crossed =>
    /\ Alone
    /\ \A r \in told : Awaited(r)
    /\ \A q, r \in told : q = r
    /\ \A s \in Children : OwnName(s)

LEMMA RepliesKept ==
    ASSUME Replies, UNCHANGED <<told, crossed>>,
           \A s \in Children : /\ pc'[s] = pc[s] /\ cid'[s] = cid[s]
                               /\ name'[s] = name[s] /\ target'[s] = target[s]
    PROVE  Replies'
<1>1. Alone => Alone'
  BY DEF Alone
<1>2. \A r : Awaited(r) => Awaited(r)'
  BY DEF Awaited
<1>3. \A s \in Children : OwnName(s) => OwnName(s)'
  BY DEF OwnName
<1>4. QED
  BY <1>1, <1>2, <1>3 DEF Replies

\* A reader's step that sends no reply and reads none.
LEMMA ReaderQuiet ==
    ASSUME NEW p \in Readers, OnlyMoves(p), UNCHANGED <<told, crossed>>,
           \A c \in Cids : redis'[c] = "hash" => redis[c] = "hash",
           name'[p] = "hash" =>
               \/ redis[cid'[p]] = "hash"
               \/ name[p] = "hash" /\ cid'[p] = cid[p],
           p \in Getters => Downloads(p)', ~crossed => HarmsNone(p)',
           \A c \in Cids : Spares(c)
    PROVE  ReaderStep(p)
BY DEF ReaderStep, Known, KnownAsAdded, Readers

LEMMA FindKeeps ==
    ASSUME OncePerBlock, TypeInv, AddInv, NEW g \in Getters,
           \/ Lookup(g) \/ NobodyHasIt(g) \/ StartDownload(g)
           \/ ReceiveHead(g) \/ ReceiveTail(g) \/ CutTransfer(g)
           \/ RegisterDownload(g) \/ LookupAgain(g)
           \/ \E c \in Cids : GetStart(g, c)
    PROVE  ReaderStep(g)
<1> USE DEF Procs, Readers
<1>a. TypeOK /\ Downloads(g) /\ (~crossed => HarmsNone(g))
  BY DEF TypeInv, AddInv
<1>1. CASE Lookup(g)
  <2>1. OnlyMoves(g) /\ Downloads(g)' /\ (~crossed => HarmsNone(g)')
    BY <1>a, <1>1 DEF Lookup, Goto, TypeOK, fsVars, taskVars, OnlyMoves, HarmsNone, Downloads
  <2>2. \A c \in Cids : SameFile(<<c, "hash">>)
    BY <1>a, <1>1, ReaderFiles DEF Lookup, fsVars
  <2>3. QED
    BY <1>a, <1>1, <2>1, <2>2, ReaderQuiet DEF Spares, Lookup, Goto, TypeOK, fsVars, taskVars
<1>2. CASE NobodyHasIt(g)
  <2>1. OnlyMoves(g) /\ Downloads(g)' /\ (~crossed => HarmsNone(g)')
    BY <1>a, <1>2 DEF NobodyHasIt, Goto, TypeOK, fsVars, taskVars, OnlyMoves, HarmsNone, Downloads
  <2>2. \A c \in Cids : SameFile(<<c, "hash">>)
    BY <1>a, <1>2, ReaderFiles DEF NobodyHasIt, fsVars
  <2>3. QED
    BY <1>a, <1>2, <2>1, <2>2, ReaderQuiet DEF Spares, NobodyHasIt, Goto, TypeOK, fsVars, taskVars
<1>3. CASE StartDownload(g)
  <2>1. <<cid[g], "cid">> \in Paths
    BY <1>a DEF TypeOK, Paths
  <2>2. PICK i \in Inodes : /\ fh' = [fh EXCEPT ![g] = i]
                            /\ dir' = [dir EXCEPT ![<<cid[g], "cid">>] = i]
    BY <1>a, <1>3, <2>1, OpenCreateType DEF StartDownload
  <2>3. OnlyMoves(g) /\ Downloads(g)' /\ (~crossed => HarmsNone(g)')
    BY <1>a, <1>3, <2>2 DEF StartDownload, Goto, TypeOK, taskVars, OnlyMoves, HarmsNone, Downloads
  <2>4. \A c \in Cids : SameFile(<<c, "hash">>)
    BY <1>a, <1>3, <2>2 DEF StartDownload, SameFile, Paths, TypeOK
  <2>5. QED
    BY <1>a, <1>3, <2>3, <2>4, ReaderQuiet DEF Spares, StartDownload, TypeOK, taskVars
<1>4. CASE ReceiveHead(g)
  <2>1. OnlyMoves(g) /\ Downloads(g)' /\ (~crossed => HarmsNone(g)')
    BY <1>a, <1>4 DEF ReceiveHead, Goto, TypeOK, fsVars, taskVars, OnlyMoves, HarmsNone, Downloads
  <2>2. \A c \in Cids : SameFile(<<c, "hash">>)
    BY <1>a, <1>4 DEF ReceiveHead, Written, SameFile, Downloads, Path, TypeOK
  <2>3. QED
    BY <1>a, <1>4, <2>1, <2>2, ReaderQuiet DEF Spares, ReceiveHead, Goto, TypeOK, fsVars, taskVars
<1>5. CASE ReceiveTail(g)
  <2>1. OnlyMoves(g) /\ Downloads(g)' /\ (~crossed => HarmsNone(g)')
    BY <1>a, <1>5 DEF ReceiveTail, Goto, TypeOK, fsVars, taskVars, OnlyMoves, HarmsNone, Downloads
  <2>2. \A c \in Cids : SameFile(<<c, "hash">>)
    BY <1>a, <1>5 DEF ReceiveTail, Written, SameFile, Downloads, Path, TypeOK
  <2>3. QED
    BY <1>a, <1>5, <2>1, <2>2, ReaderQuiet DEF Spares, ReceiveTail, Goto, TypeOK, fsVars, taskVars
<1>6. CASE CutTransfer(g)
  <2>1. OnlyMoves(g) /\ Downloads(g)' /\ (~crossed => HarmsNone(g)')
    BY <1>a, <1>6 DEF CutTransfer, Goto, TypeOK, fsVars, taskVars, OnlyMoves, HarmsNone, Downloads
  <2>2. \A c \in Cids : SameFile(<<c, "hash">>)
    BY <1>a, <1>6, ReaderFiles DEF CutTransfer, fsVars
  <2>3. QED
    BY <1>a, <1>6, <2>1, <2>2, ReaderQuiet DEF Spares, CutTransfer, Goto, TypeOK, fsVars, taskVars
<1>7. CASE RegisterDownload(g)
  <2>1. OnlyMoves(g) /\ Downloads(g)' /\ (~crossed => HarmsNone(g)')
    BY <1>a, <1>7 DEF RegisterDownload, Goto, TypeOK, fsVars, taskVars, OnlyMoves, HarmsNone, Downloads
  <2>2. \A c \in Cids : SameFile(<<c, "hash">>)
    BY <1>a, <1>7, ReaderFiles DEF RegisterDownload, fsVars
  <2>3. QED
    BY <1>a, <1>7, <2>1, <2>2, ReaderQuiet DEF Spares, RegisterDownload, Goto, TypeOK, fsVars, taskVars
<1>8. CASE LookupAgain(g)
  <2>1. OnlyMoves(g) /\ Downloads(g)' /\ (~crossed => HarmsNone(g)')
    BY <1>a, <1>8 DEF LookupAgain, Goto, TypeOK, fsVars, taskVars, OnlyMoves, HarmsNone, Downloads, Exit
  <2>2. \A c \in Cids : SameFile(<<c, "hash">>)
    BY <1>a, <1>8, ReaderFiles DEF LookupAgain, fsVars
  <2>3. QED
    BY <1>a, <1>8, <2>1, <2>2, ReaderQuiet DEF Spares, LookupAgain, Goto, TypeOK, fsVars, taskVars, Exit
<1>9. CASE \E c \in Cids : GetStart(g, c)
  <2>1. OnlyMoves(g) /\ Downloads(g)' /\ (~crossed => HarmsNone(g)')
    BY <1>a, <1>9 DEF GetStart, Start, Goto, TypeOK, OnlyMoves, HarmsNone, Downloads
  <2>2. \A c \in Cids : SameFile(<<c, "hash">>)
    BY <1>a, <1>9, ReaderFiles DEF GetStart, Start
  <2>3. QED
    BY <1>a, <1>9, <2>1, <2>2, ReaderQuiet DEF Spares, GetStart, Start, TypeOK
<1>10. QED
  BY <1>1, <1>2, <1>3, <1>4, <1>5, <1>6, <1>7, <1>8, <1>9

LEMMA ReadKeeps ==
    ASSUME OncePerBlock, TypeInv, AddInv, NEW g \in Getters,
           \/ OpenBlock(g) \/ ForgetMissing(g) \/ VerifyBlock(g)
           \/ ForgetBad(g) \/ RemoveBad(g) \/ ReadParent(g)
           \/ StopAtTarget(g) \/ ReadChunk(g)
    PROVE  ReaderStep(g)
<1> USE DEF Procs, Readers
<1>a. TypeOK /\ Downloads(g) /\ (~crossed => HarmsNone(g)) /\ HasFile(g)
  BY DEF TypeInv, Control, AddInv
<1>1. CASE OpenBlock(g)
  <2>1. OnlyMoves(g) /\ Downloads(g)' /\ (~crossed => HarmsNone(g)')
    <3>1. ~crossed /\ pc'[g] = "del_missing" => name[g] # "hash"
      BY <1>a, <1>1, KnownWhole DEF OpenBlock, Goto, TypeOK, Whole
    <3>2. OnlyMoves(g) /\ pc'[g] \in {"verify", "del_missing"} /\ name' = name
      BY <1>a, <1>1 DEF OpenBlock, Goto, TypeOK, taskVars, OnlyMoves
    <3>3. QED
      BY <3>1, <3>2 DEF HarmsNone, Downloads
  <2>2. \A c \in Cids : SameFile(<<c, "hash">>)
    BY <1>a, <1>1, ReaderFiles DEF OpenBlock, fsVars
  <2>3. QED
    BY <1>a, <1>1, <2>1, <2>2, ReaderQuiet DEF Spares, OpenBlock, Goto, TypeOK, fsVars, taskVars
<1>2. CASE ForgetMissing(g)
  <2>1. OnlyMoves(g) /\ Downloads(g)' /\ (~crossed => HarmsNone(g)')
    BY <1>a, <1>2 DEF ForgetMissing, Goto, TypeOK, fsVars, taskVars, OnlyMoves, HarmsNone, Downloads
  <2>2. \A c \in Cids : SameFile(<<c, "hash">>)
    BY <1>a, <1>2, ReaderFiles DEF ForgetMissing, fsVars
  <2>3. QED
    BY <1>a, <1>2, <2>1, <2>2, ReaderQuiet DEF Spares, ForgetMissing, Goto, TypeOK, fsVars, taskVars
<1>3. CASE VerifyBlock(g)
  <2>1. ~crossed /\ pc'[g] = "del_bad" => name[g] # "hash"
    BY <1>a, <1>3, KnownWhole DEF VerifyBlock, Goto, Exit, TypeOK
  <2>2. OnlyMoves(g) /\ pc'[g] \in {"idle", "fread", "del_bad"}
    BY <1>a, <1>3 DEF VerifyBlock, Goto, Exit, TypeOK, taskVars, OnlyMoves
  <2>3. name'[g] \in {name[g], "null"} /\ UNCHANGED <<redis, cid, told, crossed>>
    BY <1>a, <1>3 DEF VerifyBlock, Exit, TypeOK, taskVars
  <2>4. \A c \in Cids : SameFile(<<c, "hash">>)
    BY <1>a, <1>3, ReaderFiles DEF VerifyBlock
  <2>5. QED
    BY <2>1, <2>2, <2>3, <2>4, ReaderQuiet DEF Spares, HarmsNone, Downloads
<1>4. CASE ForgetBad(g)
  <2>1. OnlyMoves(g) /\ Downloads(g)' /\ (~crossed => HarmsNone(g)')
    BY <1>a, <1>4 DEF ForgetBad, Goto, TypeOK, fsVars, taskVars, OnlyMoves, HarmsNone, Downloads
  <2>2. \A c \in Cids : SameFile(<<c, "hash">>)
    BY <1>a, <1>4, ReaderFiles DEF ForgetBad, fsVars
  <2>3. QED
    BY <1>a, <1>4, <2>1, <2>2, ReaderQuiet DEF Spares, ForgetBad, Goto, TypeOK, fsVars, taskVars
<1>5. CASE RemoveBad(g)
  <2>1. OnlyMoves(g) /\ Downloads(g)' /\ (~crossed => HarmsNone(g)')
    BY <1>a, <1>5 DEF RemoveBad, Goto, TypeOK, fsVars, taskVars, OnlyMoves, HarmsNone, Downloads
  <2>2. \A c \in Cids : Spares(c)
    <3>1. (~crossed => name[g] # "hash") /\ name[g] # "null"
      BY <1>a, <1>5 DEF RemoveBad, HarmsNone, HasFile
    <3>2. QED
      BY <1>a, <1>5, <3>1, RemovesLookedUp DEF RemoveBad
  <2>3. QED
    BY <1>a, <1>5, <2>1, <2>2, ReaderQuiet DEF RemoveBad, Goto, TypeOK, fsVars, taskVars
<1>6. CASE StopAtTarget(g)
  <2>1. OnlyMoves(g) /\ Downloads(g)' /\ (~crossed => HarmsNone(g)')
    BY <1>a, <1>6 DEF StopAtTarget, Goto, TypeOK, fsVars, taskVars, OnlyMoves, HarmsNone, Downloads, Exit
  <2>2. \A c \in Cids : SameFile(<<c, "hash">>)
    BY <1>a, <1>6, ReaderFiles DEF StopAtTarget, fsVars
  <2>3. QED
    BY <1>a, <1>6, <2>1, <2>2, ReaderQuiet DEF Spares, StopAtTarget, Goto, TypeOK, fsVars, taskVars, Exit
<1>7. ASSUME NEW i, NEW o, GetNext(g, i, o) PROVE ReaderStep(g)
  <2>1. OnlyMoves(g) /\ pc'[g] \in {"idle", "get_redis"}
    BY <1>a, <1>7 DEF GetNext, Goto, Exit, TypeOK, OnlyMoves
  <2>2. name'[g] = "null" /\ UNCHANGED <<redis, told, crossed>>
    BY <1>a, <1>7 DEF GetNext, Exit, TypeOK
  <2>3. \A c \in Cids : SameFile(<<c, "hash">>)
    BY <1>a, <1>7, ReaderFiles DEF GetNext
  <2>4. QED
    BY <2>1, <2>2, <2>3, ReaderQuiet DEF Spares, HarmsNone, Downloads
<1>8. QED
  BY <1>1, <1>2, <1>3, <1>4, <1>5, <1>6, <1>7 DEF ReadParent, ReadChunk

LEMMA ServeKeeps ==
    ASSUME OncePerBlock, TypeInv, AddInv, Replies, NEW s \in Children,
           Serve(s) \/ \E c \in Cids : Accept(s, c)
    PROVE  ReaderStep(s)
<1> USE DEF Procs, Readers
<1>a. /\ TypeOK /\ HasFile(s) /\ s \notin Getters
      /\ ~crossed => HarmsNone(s) /\ OwnName(s)
  BY DEF TypeInv, Control, AddInv, Replies
<1>1. CASE \E c \in Cids : Accept(s, c)
  <2>1. OnlyMoves(s) /\ HarmsNone(s)'
    BY <1>a, <1>1 DEF Accept, Start, Goto, TypeOK, OnlyMoves, HarmsNone
  <2>2. \A c \in Cids : SameFile(<<c, "hash">>)
    BY <1>a, <1>1, ReaderFiles DEF Accept, Start
  <2>3. UNCHANGED <<redis, told>> /\ (crossed => crossed') /\ name'[s] = "null"
    BY <1>a, <1>1 DEF Accept, Start, TypeOK
  <2>4. QED
    BY <1>a, <2>1, <2>2, <2>3 DEF ReaderStep, Spares, Known
<1>2. CASE ChildAsks(s)
  <2>1. OnlyMoves(s) /\ HarmsNone(s)'
    BY <1>a, <1>2 DEF ChildAsks, Goto, TypeOK, fsVars, OnlyMoves, HarmsNone
  <2>2. \A c \in Cids : SameFile(<<c, "hash">>)
    BY <1>a, <1>2, ReaderFiles DEF ChildAsks, fsVars
  <2>3. /\ told' = told \cup {<<target[s], redis[target[s]]>>}
        /\ UNCHANGED <<redis, crossed, cid, name>>
    BY <1>2 DEF ChildAsks
  <2>4. \A c \in Cids : <<c, "hash">> \in told' => Known(c)
    BY <2>3 DEF Known, KnownAsAdded
  <2>5. name'[s] = "hash" => Known(cid'[s])
    BY <2>3 DEF Known, KnownAsAdded
  <2>6. QED
    BY <1>a, <2>1, <2>2, <2>3, <2>4, <2>5 DEF ReaderStep, Spares
<1>3. CASE ChildHears(s)
  <2>1. /\ OnlyMoves(s) /\ pc'[s] \in {"s_peers", "s_verify", "idle"}
        /\ UNCHANGED <<redis, dir, data, crossed>> /\ told' \subseteq told
    BY <1>a, <1>3 DEF ChildHears, Exit, Goto, TypeOK, OnlyMoves
  <2>2. \A c \in Cids : SameFile(<<c, "hash">>)
    BY <1>a, <2>1, ReaderFiles
  <2>3. name'[s] = "hash" => Known(cid'[s])
    <3>1. CASE UNCHANGED <<cid, name>>
      BY <3>1 DEF Known, KnownAsAdded
    <3>2. CASE Exit(s, "dead")
      BY <1>a, <3>2 DEF Exit, TypeOK
    <3>3. ASSUME NEW r \in told, cid' = [cid EXCEPT ![s] = r[1]],
                 name' = [name EXCEPT ![s] = r[2]]
          PROVE  name'[s] = "hash" => Known(cid'[s])
      <4>1. r = <<r[1], r[2]>> /\ cid'[s] = r[1] /\ name'[s] = r[2]
        BY <1>a, <3>3 DEF TypeOK
      <4>2. QED
        BY <4>1 DEF Known
    <3>4. QED
      BY <1>3, <3>1, <3>2, <3>3 DEF ChildHears
  <2>4. \A c \in Cids : <<c, "hash">> \in told' => Known(c)
    BY <2>1 DEF Known
  <2>5. QED
    BY <1>a, <2>1, <2>2, <2>3, <2>4 DEF ReaderStep, Spares, HarmsNone
<1>4. CASE ChildVerify(s)
  <2>1. ~crossed /\ pc'[s] = "s_del" => name[s] # "hash"
    <3>1. SUFFICES ASSUME ~crossed, pc'[s] = "s_del", name[s] = "hash" PROVE FALSE
      OBVIOUS
    <3>2. cid[s] = target[s] /\ Whole(Path(s))
      BY <1>a, <3>1, KnownWhole DEF OwnName
    <3>3. QED
      BY <1>a, <1>4, <3>1, <3>2 DEF ChildVerify, Verified, Goto, Exit, TypeOK
  <2>2. OnlyMoves(s) /\ pc'[s] \in {"idle", "s_send", "s_del"}
    BY <1>a, <1>4 DEF ChildVerify, Goto, Exit, TypeOK, taskVars, OnlyMoves
  <2>3. name'[s] \in {name[s], "null"} /\ UNCHANGED <<redis, cid, told, crossed>>
    BY <1>a, <1>4 DEF ChildVerify, Exit, TypeOK, taskVars
  <2>4. \A c \in Cids : SameFile(<<c, "hash">>)
    BY <1>a, <1>4, ReaderFiles DEF ChildVerify
  <2>5. QED
    BY <1>a, <2>1, <2>2, <2>3, <2>4, ReaderQuiet DEF Spares, HarmsNone
<1>5. CASE ChildForget(s)
  <2>1. OnlyMoves(s) /\ (~crossed => HarmsNone(s)')
    BY <1>a, <1>5 DEF ChildForget, Goto, TypeOK, fsVars, taskVars, OnlyMoves, HarmsNone
  <2>2. \A c \in Cids : SameFile(<<c, "hash">>)
    BY <1>a, <1>5, ReaderFiles DEF ChildForget, fsVars
  <2>3. QED
    BY <1>a, <1>5, <2>1, <2>2, ReaderQuiet DEF ChildForget, Spares, taskVars
<1>6. CASE ChildRemove(s)
  <2>1. /\ OnlyMoves(s) /\ pc'[s] = "s_peers"
        /\ UNCHANGED <<redis, cid, name, told, crossed>>
    BY <1>a, <1>6 DEF ChildRemove, Goto, TypeOK, taskVars, OnlyMoves
  <2>2. (~crossed => name[s] # "hash") /\ name[s] # "null"
    BY <1>a, <1>6 DEF ChildRemove, HarmsNone, HasFile
  <2>3. \A c \in Cids : Spares(c)
    BY <1>a, <1>6, <2>2, RemovesLookedUp DEF ChildRemove
  <2>4. QED
    BY <1>a, <2>1, <2>3, ReaderQuiet DEF HarmsNone
<1>7. CASE ChildPeers(s) \/ ChildSend(s)
  <2>1. PICK r : Exit(s, r) /\ UNCHANGED <<redis, dir, data, cid, taskVars, upsets>>
    BY <1>7 DEF ChildPeers, ChildSend
  <2>2. OnlyMoves(s) /\ pc'[s] = "idle" /\ name'[s] = "null"
    BY <1>a, <2>1 DEF Exit, Goto, TypeOK, taskVars, OnlyMoves
  <2>3. \A c \in Cids : SameFile(<<c, "hash">>)
    BY <1>a, <2>1, ReaderFiles
  <2>4. QED
    BY <1>a, <2>1, <2>2, <2>3, ReaderQuiet DEF HarmsNone, Spares, taskVars
<1>8. QED
  BY <1>1, <1>2, <1>3, <1>4, <1>5, <1>6, <1>7 DEF Serve

\* The children's own steps keep their replies apart, until two of them are
\* at work at once.
LEMMA ServeReplies ==
    ASSUME TypeInv, Replies, NEW s \in Children,
           Serve(s) \/ \E c \in Cids : Accept(s, c)
    PROVE  Replies'
<1> USE DEF Procs
<1> SUFFICES ASSUME ~crossed'
             PROVE  /\ Alone' /\ \A t \in Children : OwnName(t)'
                    /\ \A r \in told' : Awaited(r)'
                    /\ \A q, r \in told' : q = r
  BY DEF Replies
<1>a. TypeOK
  BY DEF TypeInv
<1>b. /\ \A q \in Procs \ {s} : pc'[q] = pc[q] /\ cid'[q] = cid[q] /\ name'[q] = name[q]
      /\ \A q \in (Getters \cup Children) \ {s} : target'[q] = target[q]
  <2>1. CASE \E c \in Cids : Accept(s, c)
    BY <1>a, <2>1 DEF Accept, Start, Goto, TypeOK
  <2>2. CASE ChildAsks(s) \/ ChildForget(s) \/ ChildRemove(s)
    BY <1>a, <2>2 DEF ChildAsks, ChildForget, ChildRemove, Goto, TypeOK, taskVars
  <2>3. CASE ChildHears(s)
    BY <1>a, <2>3 DEF ChildHears, Exit, Goto, TypeOK
  <2>4. CASE ChildVerify(s) \/ ChildPeers(s) \/ ChildSend(s)
    BY <1>a, <2>4 DEF ChildVerify, ChildPeers, ChildSend, Exit, Goto, TypeOK, taskVars
  <2>5. QED
    BY <2>1, <2>2, <2>3, <2>4 DEF Serve
<1>c. ~crossed
  BY <1>a DEF Serve, Accept, ChildAsks, ChildHears, ChildVerify, ChildForget, ChildRemove,
        ChildPeers, ChildSend, taskVars, TypeOK
<1>d. /\ Alone /\ \A t \in Children : OwnName(t)
      /\ \A r \in told : Awaited(r)
      /\ \A q, r \in told : q = r
  BY <1>c DEF Replies
<1>1. CASE \E c \in Cids : Accept(s, c)
  <2>1. PICK c \in Cids : Accept(s, c)
    BY <1>1
  <2>2. \A q \in Children : pc[q] = "idle"
    BY <2>1 DEF Accept
  <2>3. told' = {}
    <3>1. told = {}
      BY <1>d, <2>2 DEF Awaited
    <3>2. QED
      BY <2>1, <3>1 DEF Accept
  <2>4. Alone'
    BY <1>b, <2>2 DEF Alone
  <2>5. name'[s] = "null"
    BY <1>a, <2>1 DEF Accept, Start, TypeOK
  <2>6. \A t \in Children : OwnName(t)'
    BY <1>b, <1>d, <2>5 DEF OwnName
  <2>7. QED
    BY <2>3, <2>4, <2>6
<1>2. CASE Serve(s)
  <2>1. pc[s] # "idle" /\ UNCHANGED target
    BY <1>2 DEF Serve, ChildAsks, ChildHears, ChildVerify, ChildForget, ChildRemove,
          ChildPeers, ChildSend, taskVars
  <2>2. \A q \in Children \ {s} : pc[q] = "idle" /\ pc'[q] = "idle"
    BY <1>b, <1>d, <2>1 DEF Alone
  <2>3. Alone'
    BY <2>2 DEF Alone
  <2>4. ASSUME NEW r \in told PROVE pc[s] = "s_reply" /\ r[1] = target[s]
    BY <1>d, <2>2 DEF Awaited
  <2>5. CASE ChildAsks(s)
    <3>1. /\ told' = told \cup {<<target[s], redis[target[s]]>>} /\ pc'[s] = "s_reply"
          /\ pc[s] = "s_get_redis" /\ UNCHANGED <<cid, name>>
      BY <1>a, <2>5 DEF ChildAsks, Goto, TypeOK
    <3>2. \A r \in told' : Awaited(r)'
      BY <2>1, <2>4, <3>1 DEF Awaited
    <3>3. \A t \in Children : OwnName(t)'
      BY <1>d, <2>1, <3>1 DEF OwnName
    <3>4. \A q, r \in told' : q = r
      BY <2>4, <3>1
    <3>5. QED
      BY <2>3, <3>2, <3>3, <3>4
  <2>6. CASE ChildHears(s)
    <3>1. PICK r \in told :
             /\ told' = told \ {r}
             /\ \/ UNCHANGED <<cid, name>>
                \/ cid' = [cid EXCEPT ![s] = r[1]] /\ name' = [name EXCEPT ![s] = r[2]]
      BY <1>c, <2>6 DEF ChildHears
    <3>2. \A t \in Children : OwnName(t)'
      <4>1. OwnName(s)'
        BY <1>a, <1>d, <2>1, <2>4, <3>1 DEF OwnName, TypeOK
      <4>2. QED
        BY <1>b, <1>d, <2>1, <4>1 DEF OwnName
    <3>3. told' = {}
      BY <1>d, <3>1
    <3>4. QED
      BY <2>3, <3>2, <3>3
  <2>7. CASE ~ChildAsks(s) /\ ~ChildHears(s)
    <3>1. pc[s] # "s_reply" /\ told' = told /\ name'[s] \in {name[s], "null"} /\ cid' = cid
      BY <1>2, <1>a, <2>7 DEF Serve, ChildVerify, ChildForget, ChildRemove, ChildPeers,
         ChildSend, Exit, TypeOK, taskVars
    <3>2. told' = {}
      BY <2>4, <3>1
    <3>3. \A t \in Children : OwnName(t)'
      BY <1>b, <1>d, <2>1, <3>1 DEF OwnName
    <3>4. QED
      BY <2>3, <3>2, <3>3
  <2>8. QED
    BY <2>5, <2>6, <2>7
<1>3. QED
  BY <1>1, <1>2

LEMMA KillKeeps ==
    ASSUME OncePerBlock, TypeInv, AddInv, NEW p \in Procs, Kill(p)
    PROVE  AddInv'
<1> USE DEF Procs, Readers
<1>1. TypeOK
  BY DEF TypeInv
<1>2. /\ OnlyMoves(p) /\ pc'[p] = "idle" /\ name'[p] = "null"
      /\ UNCHANGED <<redis, pos, runs, told>> /\ pc[p] # "idle"
  BY <1>1 DEF Kill, Exit, Goto, TypeOK, OnlyMoves
<1>3. /\ UNCHANGED dir /\ Reclaim(Path(p), data)
      /\ crossed => crossed'
  BY <1>1 DEF Kill, TypeOK
<1>4. CASE p \in Readers
  <2>1. \A c \in Cids : SameFile(<<c, "hash">>)
    BY <1>1, <1>3, ReaderFiles
  <2>2. ReaderStep(p)
    BY <1>2, <1>3, <2>1 DEF ReaderStep, Spares, Known, Downloads, HarmsNone
  <2>3. QED
    BY <1>4, <2>2, ReaderKeeps
<1>5. CASE p \in Adders
  <2>1. ASSUME NEW f \in Paths PROVE SameFile(f)
    <3>1. dir[f] # NoInode => data'[f][dir'[f]] = data[f][dir'[f]]
      BY <1>1, <1>3, ReclaimKeeps DEF TypeOK
    <3>2. QED
      BY <1>3, <3>1 DEF SameFile
  <2>2. Progress(p)'
    BY <1>2, <1>5 DEF Progress, AddInv
  <2>3. crossed' = crossed
    BY <1>1, <1>5 DEF Kill, TypeOK
  <2>4. QED
    BY <1>2, <1>5, <2>1, <2>2, <2>3, AdderWorks
<1>6. QED
  BY <1>4, <1>5

LEMMA CleanKeeps ==
    ASSUME AddInv, Clean \/ UNCHANGED vars
    PROVE  AddInv'
<1>1. /\ UNCHANGED <<dir, data, fh, pc, cid, name, pos, runs, told, crossed>>
      /\ \A c \in Cids : redis'[c] = "hash" => redis[c] = "hash"
  BY DEF Clean, fsVars, taskVars, vars
<1>2. \A c \in Cids : Stored(c)' <=> Stored(c)
  BY <1>1 DEF Stored
<1>3. \A c \in Cids : Known(c)' => Known(c)
  BY <1>1 DEF Known, KnownAsAdded
<1>4. \A b \in Adders : Progress(b)'
  BY <1>1, SameProgress DEF AddInv
<1>5. /\ ~crossed' => \A p \in Readers : HarmsNone(p)'
      /\ \A g \in Getters : Downloads(g)'
  BY <1>1 DEF AddInv, HarmsNone, Downloads
<1>6. \A c \in Cids : Whole(<<c, "hash">>)' <=> Whole(<<c, "hash">>)
  BY <1>1 DEF Whole
<1>7. QED
  BY <1>1, <1>2, <1>3, <1>4, <1>5, <1>6 DEF AddInv

LEMMA InitAdd == Init => AddInv
<1> SUFFICES ASSUME Init PROVE AddInv
  OBVIOUS
<1> USE DEF Procs, Readers
<1>1. /\ \A a \in Adders : pos[a] = 1 /\ pc[a] = "idle" /\ runs[a] = 0
      /\ \A p \in Readers : pc[p] = "idle" /\ name[p] = "null"
      /\ \A c \in Cids : redis[c] # "hash"
      /\ told = {}
  BY DEF Init
<1>2. \A c \in Cids : ~Known(c)
  BY <1>1 DEF Known, KnownAsAdded
<1>3. \A c \in Cids : ~Stored(c)
  <2> SUFFICES ASSUME NEW a \in Adders, NEW i \in 1..Len(Blocks(a)), i < pos[a]
               PROVE  FALSE
    BY DEF Stored
  <2>1. QED
    BY <1>1, BlocksType
<1>4. QED
  BY <1>1, <1>2, <1>3 DEF AddInv, Progress, HarmsNone, Downloads

LEMMA InitReplies == Init => Replies
BY DEF Init, Replies, Alone, OwnName, Procs

LEMMA NextAdd == OncePerBlock /\ TypeInv /\ AddInv /\ Replies /\ [Next]_vars => AddInv'
<1> SUFFICES ASSUME OncePerBlock, TypeInv, AddInv, Replies, [Next]_vars PROVE AddInv'
  OBVIOUS
<1>1. ASSUME NEW a \in Adders, AddStart(a) \/ Add(a) PROVE AddInv'
  BY <1>1, AddStepKeeps
<1>2. ASSUME NEW g \in Getters,
             Get(g) \/ CutTransfer(g) \/ \E c \in Cids : GetStart(g, c)
      PROVE  AddInv'
  <2>1. ReaderStep(g)
    BY <1>2, FindKeeps, ReadKeeps DEF Get
  <2>2. QED
    BY <2>1, ReaderKeeps DEF Readers
<1>3. ASSUME NEW s \in Children, Serve(s) \/ \E c \in Cids : Accept(s, c)
      PROVE  AddInv'
  <2>1. ReaderStep(s)
    BY <1>3, ServeKeeps
  <2>2. QED
    BY <2>1, ReaderKeeps DEF Readers
<1>4. ASSUME NEW p \in Procs, Kill(p) PROVE AddInv'
  BY <1>4, KillKeeps
<1>5. CASE Clean \/ UNCHANGED vars
  BY <1>5, CleanKeeps
<1>6. QED
  BY <1>1, <1>2, <1>3, <1>4, <1>5 DEF Next, Finished

LEMMA NextReplies == TypeInv /\ Replies /\ [Next]_vars => Replies'
<1> SUFFICES ASSUME TypeInv, Replies, [Next]_vars PROVE Replies'
  OBVIOUS
<1> USE DEF Procs
<1>a. TypeOK
  BY DEF TypeInv
<1> DEFINE Aside(p) == /\ UNCHANGED <<told, crossed>>
                       /\ \A s \in Children : target'[s] = target[s]
                       /\ \A s \in Children \ {p} : /\ pc'[s] = pc[s] /\ cid'[s] = cid[s]
                                                   /\ name'[s] = name[s]
<1>b. ASSUME NEW p \in Adders \cup Getters, Aside(p) PROVE Replies'
  BY <1>b, RepliesKept
<1>1. ASSUME NEW a \in Adders, AddStart(a) \/ Add(a) PROVE Replies'
  <2>1. CASE AddStart(a)
    BY <1>a, <1>b, <2>1 DEF AddStart, Start, Goto, TypeOK
  <2>2. CASE CreateBlock(a) \/ WriteBlock(a) \/ CloseBlock(a)
    BY <1>a, <1>b, <2>2 DEF CreateBlock, WriteBlock, CloseBlock, Goto, TypeOK, taskVars
  <2>3. ASSUME NEW r, NextBlock(a, r) PROVE Replies'
    BY <1>a, <1>b, <2>3 DEF NextBlock, Exit, Goto, TypeOK
  <2>4. CASE GenerateCid(a)
    BY <1>a, <1>b, <2>3, <2>4 DEF GenerateCid, Exit, Goto, TypeOK, taskVars
  <2>5. CASE RegisterBlock(a)
    BY <2>3, <2>5 DEF RegisterBlock
  <2>6. QED
    BY <1>1, <2>1, <2>2, <2>4, <2>5 DEF Add
<1>2. ASSUME NEW g \in Getters,
             Get(g) \/ CutTransfer(g) \/ \E c \in Cids : GetStart(g, c)
      PROVE  Replies'
  <2>1. CASE \E c \in Cids : GetStart(g, c)
    BY <1>a, <1>b, <2>1 DEF GetStart, Start, Goto, TypeOK
  <2>2. CASE Lookup(g) \/ NobodyHasIt(g) \/ StartDownload(g) \/ ReceiveHead(g)
             \/ ReceiveTail(g) \/ CutTransfer(g) \/ RegisterDownload(g)
    BY <1>a, <1>b, <2>2 DEF Lookup, NobodyHasIt, StartDownload, ReceiveHead, ReceiveTail,
       CutTransfer, RegisterDownload, Goto, TypeOK, taskVars
  <2>3. CASE OpenBlock(g) \/ ForgetMissing(g) \/ ForgetBad(g) \/ RemoveBad(g)
    BY <1>a, <1>b, <2>3 DEF OpenBlock, ForgetMissing, ForgetBad, RemoveBad, Goto, TypeOK, taskVars
  <2>4. CASE LookupAgain(g) \/ VerifyBlock(g) \/ StopAtTarget(g)
    BY <1>a, <1>b, <2>4 DEF LookupAgain, VerifyBlock, StopAtTarget, Exit, Goto, TypeOK, taskVars
  <2>5. ASSUME NEW i, NEW o, GetNext(g, i, o) PROVE Replies'
    BY <1>a, <1>b, <2>5 DEF GetNext, Exit, Goto, TypeOK
  <2>6. QED
    BY <1>2, <2>1, <2>2, <2>3, <2>4, <2>5 DEF Get, ReadParent, ReadChunk
<1>3. ASSUME NEW s \in Children, Serve(s) \/ \E c \in Cids : Accept(s, c)
      PROVE  Replies'
  BY <1>3, ServeReplies
<1>4. ASSUME NEW p \in Procs, Kill(p) PROVE Replies'
  <2>1. CASE p \in Children
    BY <1>4, <2>1 DEF Kill, Replies
  <2>2. CASE p \in Adders \cup Getters
    BY <1>a, <1>b, <1>4, <2>2 DEF Kill, Exit, Goto, TypeOK
  <2>3. QED
    BY <2>1, <2>2
<1>5. CASE Clean \/ UNCHANGED vars
  BY <1>5, RepliesKept DEF Clean, taskVars, vars
<1>6. QED
  BY <1>1, <1>2, <1>3, <1>4, <1>5 DEF Next, Finished

\* If no block is stored twice, whoever is pointed to a block that this host
\* added finds a file that hashes to its CID, whatever the other processes
\* do meanwhile and whichever of them are killed, as long as no two server
\* children were at work at once and none was killed (AddedIntact).
THEOREM AddedIntactHolds == OncePerBlock /\ Spec => []AddedIntact
<1>1. TypeInv /\ AddInv => AddedIntact
  BY DEF AddInv, Known, AddedIntact
<1> SUFFICES ASSUME OncePerBlock PROVE Spec => []AddedIntact
  OBVIOUS
<1>2. Init => TypeInv /\ AddInv /\ Replies
  BY InitType, InitAdd, InitReplies
<1>3. TypeInv /\ AddInv /\ Replies /\ [Next]_vars => TypeInv' /\ AddInv' /\ Replies'
  BY NextType, NextAdd, NextReplies
<1>4. QED
  BY <1>1, <1>2, <1>3, PTL DEF Spec

\* Under the same conditions, the entry that an add made goes only by a clean,
\* or by a getter that looked the block up as a download or has downloaded it
\* (AddedForgotten).
THEOREM AddedForgottenHolds == OncePerBlock /\ Spec => AddedForgotten
<1> DEFINE Goes(c) == redis[c] = "hash" /\ redis'[c] # "hash"
           Excused(c) ==
              \/ crossed \/ upsets' # upsets
              \/ \E g \in Getters :
                    /\ cid[g] = c /\ name[g] = "cid" /\ pc'[g] # pc[g]
                    /\ \/ pc[g] \in {"del_missing", "del_bad"} /\ redis'[c] = "null"
                       \/ pc[g] = "set_redis" /\ redis'[c] = "cid"
<1>1. ASSUME TypeInv, AddInv, [Next]_vars, NEW c \in Cids, Goes(c)
      PROVE  Excused(c)
  <2>1. TypeOK /\ \A p \in Procs : HasFile(p)
    BY <1>1 DEF TypeInv, Control
  <2>2. CASE Clean
    BY <2>1, <2>2 DEF Clean, Upset, TypeOK
  <2>3. ASSUME NEW g \in Getters, ForgetMissing(g) \/ ForgetBad(g) PROVE Excused(c)
    <3>1. /\ pc[g] \in {"del_missing", "del_bad"} /\ g \in Procs
          /\ redis' = [redis EXCEPT ![cid[g]] = "null"]
          /\ pc'[g] \in {"get_redis", "remove"}
      BY <2>1, <2>3 DEF ForgetMissing, ForgetBad, Goto, TypeOK, Procs
    <3>2. cid[g] = c /\ redis'[c] = "null"
      BY <1>1, <2>1, <3>1 DEF TypeOK
    <3>3. ~crossed => name[g] = "cid"
      BY <1>1, <2>1, <3>1 DEF TypeOK, HasFile, AddInv, HarmsNone, Readers
    <3>4. QED
      BY <3>1, <3>2, <3>3
  <2>4. ASSUME NEW g \in Getters, RegisterDownload(g) PROVE Excused(c)
    <3>1. /\ pc[g] = "set_redis" /\ pc'[g] = "get_again" /\ g \in Procs
          /\ redis' = [redis EXCEPT ![cid[g]] = "cid"]
      BY <2>1, <2>4 DEF RegisterDownload, Goto, TypeOK, Procs
    <3>2. cid[g] = c /\ redis'[c] = "cid"
      BY <1>1, <2>1, <3>1 DEF TypeOK
    <3>3. name[g] = "cid"
      BY <1>1, <3>1 DEF AddInv, Downloads
    <3>4. QED
      BY <3>1, <3>2, <3>3
  <2>5. CASE UNCHANGED redis
    BY <1>1, <2>5
  <2>6. ASSUME NEW a \in Adders, AddStart(a) \/ Add(a) PROVE Excused(c)
    <3>1. UNCHANGED redis \/ redis' = [redis EXCEPT ![cid[a]] = "hash"]
      BY <2>6 DEF AddStart, Start, Add, CreateBlock, WriteBlock, CloseBlock, GenerateCid,
         RegisterBlock
    <3>2. QED
      BY <1>1, <2>1, <3>1 DEF TypeOK
  <2>7. ASSUME NEW g \in Getters,
               Get(g) \/ CutTransfer(g) \/ \E d \in Cids : GetStart(g, d)
        PROVE  Excused(c)
    <3>1. UNCHANGED redis \/ RegisterDownload(g) \/ ForgetMissing(g) \/ ForgetBad(g)
      BY <2>7 DEF Get, CutTransfer, GetStart, Start, Lookup, NobodyHasIt, StartDownload,
         ReceiveHead, ReceiveTail, LookupAgain, OpenBlock, VerifyBlock, RemoveBad,
         ReadParent, StopAtTarget, ReadChunk, GetNext
    <3>2. QED
      BY <2>3, <2>4, <2>5, <3>1
  <2>8. ASSUME NEW s \in Children, Serve(s) \/ \E d \in Cids : Accept(s, d)
        PROVE  Excused(c)
    <3>1. UNCHANGED redis
      BY <2>8 DEF Serve, Accept, Start, ChildAsks, ChildHears, ChildVerify, ChildForget,
         ChildRemove, ChildPeers, ChildSend
    <3>2. QED
      BY <2>5, <3>1
  <2>9. ASSUME NEW p \in Procs, Kill(p) PROVE Excused(c)
    BY <2>5, <2>9 DEF Kill
  <2>10. CASE UNCHANGED vars
    BY <2>5, <2>10 DEF vars
  <2>11. QED
    BY <1>1, <2>2, <2>6, <2>7, <2>8, <2>9, <2>10 DEF Next, Finished
<1> SUFFICES ASSUME OncePerBlock PROVE Spec => AddedForgotten
  OBVIOUS
<1>2. Init => TypeInv /\ AddInv /\ Replies
  BY InitType, InitAdd, InitReplies
<1>3. TypeInv /\ AddInv /\ Replies /\ [Next]_vars => TypeInv' /\ AddInv' /\ Replies'
  BY NextType, NextAdd, NextReplies
<1>4. TypeInv /\ AddInv /\ [Next]_vars =>
        [\A c \in Cids : Goes(c) => Excused(c)]_vars
  BY <1>1
<1>5. QED
  BY <1>2, <1>3, <1>4, PTL DEF Spec, AddedForgotten
-----------------------------------------------------------------------------
(* OutputIsPrefix.  verify_block looks at the path and fread reads the file *)
(* opened before: the two are one file when nobody but the getter links a   *)
(* file in the place of one that was downloaded.                            *)

\* No two getters run at a time, as two of them do in a run that finds the
\* output damaged.
OneGetter == \A g, h \in Getters : g = h

\* The file that g has open is the one at its path, if there is still one,
\* and once verify_block has seen it, it is the block.
HoldsBlock(g) ==
    /\ pc[g] = "verify" => fh[g] # NoInode /\ dir[Path(g)] \in {fh[g], NoInode}
    /\ pc[g] = "fread" => name[g] # "null" /\ fh[g] # NoInode /\ Opened(g) = Intact

\* The output is the first n chunks, where n is as far as g has come.
Wrote(g, n) ==
    /\ out[g] = SubSeq(Links[target[g]], 1, n)
    /\ pc[g] # "idle" => /\ result[g] # "ok"
                         /\ n = IF pos[g] = 1 THEN 0 ELSE pos[g] - 2
    /\ result[g] = "ok" => n = Len(Links[target[g]])

WritesPrefix(g) ==
    target[g] \in Parents => \E n \in 0..Len(Links[target[g]]) : Wrote(g, n)

GetInv == \A g \in Getters : HoldsBlock(g) /\ WritesPrefix(g)

\* What a step leaves to the getter g: its own state, and the file it reads.
Untouched(g) ==
    /\ pc'[g] = pc[g] /\ cid'[g] = cid[g] /\ name'[g] = name[g] /\ fh'[g] = fh[g]
    /\ pos'[g] = pos[g] /\ target'[g] = target[g]
    /\ out'[g] = out[g] /\ result'[g] = result[g]

Spared(g) == pc[g] \in {"verify", "fread"} =>
    /\ dir'[Path(g)] \in {dir[Path(g)], NoInode}
    /\ data'[Path(g)][fh[g]] = data[Path(g)][fh[g]]

LEMMA UntouchedKept ==
    ASSUME NEW g \in Getters, HoldsBlock(g), WritesPrefix(g), Untouched(g), Spared(g)
    PROVE  HoldsBlock(g)' /\ WritesPrefix(g)'
<1>1. Path(g)' = Path(g)
  BY DEF Untouched, Path
<1>2. HoldsBlock(g)'
  BY <1>1 DEF HoldsBlock, Untouched, Spared, Opened
<1>3. WritesPrefix(g)'
  <2>1. \A n : Wrote(g, n) => Wrote(g, n)'
    BY DEF Wrote, Untouched
  <2>2. QED
    BY <2>1 DEF WritesPrefix, Untouched
<1>4. QED
  BY <1>2, <1>3

\* The path of the file that a getter reads.
LEMMA ReadingPath ==
    ASSUME TypeInv, NEW g \in Getters, HoldsBlock(g), pc[g] \in {"verify", "fread"}
    PROVE  Path(g) \in Paths /\ fh[g] \in Inodes /\ name[g] \in {"hash", "cid"}
<1>1. TypeOK /\ HasFile(g) /\ g \in Procs
  BY DEF TypeInv, Control, Procs
<1>2. name[g] # "null" /\ fh[g] # NoInode
  BY <1>1 DEF HasFile, HoldsBlock
<1>3. QED
  BY <1>1, <1>2, PathType DEF TypeOK

LEMMA ReclaimSpares ==
    ASSUME TypeInv, NEW f, Reclaim(f, data), NEW g \in Getters, HoldsBlock(g),
           Untouched(g), pc[g] \in {"verify", "fread"}
    PROVE  data'[Path(g)][fh[g]] = data[Path(g)][fh[g]]
<1>1. Path(g) \in Paths /\ fh[g] \in Inodes /\ g \in Procs
  BY ReadingPath DEF Procs
<1>2. <<cid'[g], name'[g]>> = Path(g) /\ fh'[g] = fh[g]
  BY DEF Untouched, Path
<1> DEFINE kept == {dir'[f]} \cup
                {fh'[q] : q \in {p \in Procs : <<cid'[p], name'[p]>> = f}}
<1>3. data' = [e \in Paths |-> [i \in Inodes |->
                    IF e = f /\ i \notin kept THEN Empty ELSE data[e][i]]]
  BY DEF Reclaim
<1>4. Path(g) = f => fh[g] \in kept
  BY <1>1, <1>2
<1> HIDE DEF kept
<1>5. QED
  BY <1>1, <1>3, <1>4

\* An adder writes to the file of a block that nobody knows yet.
LEMMA AdderSpares ==
    ASSUME OncePerBlock, TypeInv, AddInv, NEW a \in Adders, AddStart(a) \/ Add(a),
           NEW g \in Getters, HoldsBlock(g)
    PROVE  Untouched(g) /\ Spared(g)
<1> USE DEF Procs
<1>a. TypeOK /\ HasFile(a) /\ g # a
  BY DEF TypeInv, Control
<1>1. Untouched(g)
  <2>1. CASE AddStart(a)
    BY <1>a, <2>1 DEF AddStart, Start, Goto, Untouched, TypeOK
  <2>2. CASE CreateBlock(a)
    BY <1>a, <2>2 DEF CreateBlock, OpenCreate, Goto, Untouched, TypeOK, taskVars
  <2>3. CASE WriteBlock(a)
    BY <1>a, <2>3 DEF WriteBlock, Goto, Untouched, TypeOK, taskVars
  <2>4. CASE CloseBlock(a)
    BY <1>a, <2>4 DEF CloseBlock, Goto, Untouched, TypeOK, taskVars
  <2>5. ASSUME NEW r, NextBlock(a, r) PROVE Untouched(g)
    BY <1>a, <2>5 DEF NextBlock, Exit, Goto, Untouched, TypeOK
  <2>6. CASE GenerateCid(a)
    BY <1>a, <2>5, <2>6 DEF GenerateCid, Exit, Goto, Untouched, TypeOK, taskVars
  <2>7. CASE RegisterBlock(a)
    BY <2>5, <2>7 DEF RegisterBlock
  <2>8. QED
    BY <2>1, <2>2, <2>3, <2>4, <2>6, <2>7 DEF Add
<1>2. ASSUME pc[g] \in {"verify", "fread"}
      PROVE  /\ dir'[Path(g)] = dir[Path(g)]
             /\ data'[Path(g)][fh[g]] = data[Path(g)][fh[g]]
  <2>1. Path(g) \in Paths /\ fh[g] \in Inodes /\ name[g] \in {"hash", "cid"}
    BY <1>2, ReadingPath
  <2>2. pc[a] # "idle" => Path(g) # Path(a) /\ Path(a) \in Paths
    <3>1. SUFFICES ASSUME pc[a] # "idle", Path(g) = Path(a) PROVE FALSE
      BY OwnBlock
    <3>2. Path(a) = <<cid[a], "hash">> /\ ~Stored(cid[a])
      BY <3>1, OwnBlock
    <3>3. name[g] = "hash" /\ cid[g] = cid[a]
      BY <3>1, <3>2 DEF Path
    <3>4. Known(cid[a]) /\ cid[a] \in Cids
      BY <1>a, <3>3 DEF Known, KnownAsAdded, TypeOK
    <3>5. QED
      BY <3>2, <3>4 DEF AddInv
  <2>3. CASE CreateBlock(a)
    <3>1. pc[a] # "idle"
      BY <2>3 DEF CreateBlock
    <3>2. PICK i \in Inodes : fh' = [fh EXCEPT ![a] = i] /\ dir' = [dir EXCEPT ![Path(a)] = i]
      BY <1>a, <2>2, <2>3, <3>1, OpenCreateType DEF CreateBlock
    <3>3. QED
      BY <1>a, <2>1, <2>2, <2>3, <3>1, <3>2 DEF CreateBlock, TypeOK
  <2>4. CASE WriteBlock(a)
    BY <1>a, <2>1, <2>2, <2>4 DEF WriteBlock, Written, TypeOK
  <2>5. CASE CloseBlock(a)
    <3>1. Written(a, "tail")[Path(g)] = data[Path(g)]
      BY <1>a, <2>1, <2>2, <2>5 DEF CloseBlock, Written, TypeOK
    <3>2. Path(g) # Path(a) /\ UNCHANGED dir /\ Reclaim(Path(a), Written(a, "tail"))
      BY <2>2, <2>5 DEF CloseBlock
    <3>3. data'[Path(g)][fh[g]] = Written(a, "tail")[Path(g)][fh[g]]
      BY <2>1, <3>2 DEF Reclaim
    <3>4. QED
      BY <3>1, <3>2, <3>3
  <2>6. CASE UNCHANGED <<dir, data>>
    BY <2>6
  <2>7. QED
    BY <2>3, <2>4, <2>5, <2>6 DEF AddStart, Start, Add, GenerateCid, RegisterBlock, NextBlock
<1>3. QED
  BY <1>1, <1>2 DEF Spared

\* A child, or a process that is killed, unlinks a file and never links one.
LEMMA OtherSpares ==
    ASSUME TypeInv, NEW g \in Getters, HoldsBlock(g),
           \/ \E s \in Children : Serve(s) \/ \E c \in Cids : Accept(s, c)
           \/ \E p \in Procs \ {g} : Kill(p)
           \/ Clean \/ UNCHANGED vars
    PROVE  Untouched(g) /\ Spared(g)
<1> USE DEF Procs
<1>a. TypeOK
  BY DEF TypeInv
<1>1. ASSUME NEW s \in Children, Serve(s) \/ \E c \in Cids : Accept(s, c)
      PROVE  Untouched(g) /\ Spared(g)
  <2>1. CASE \E c \in Cids : Accept(s, c)
    BY <1>a, <2>1 DEF Accept, Start, Goto, Untouched, Spared, TypeOK
  <2>2. CASE ChildAsks(s) \/ ChildPeers(s)
    BY <1>a, <2>2 DEF ChildAsks, ChildPeers, Exit, Goto, Untouched, Spared, TypeOK, fsVars, taskVars
  <2>8. CASE ChildHears(s)
    BY <1>a, <2>8 DEF ChildHears, Exit, Goto, Untouched, Spared, TypeOK
  <2>3. CASE ChildVerify(s)
    BY <1>a, <2>3 DEF ChildVerify, Exit, Goto, Untouched, Spared, TypeOK, taskVars
  <2>4. CASE ChildForget(s)
    BY <1>a, <2>4 DEF ChildForget, Goto, Untouched, Spared, TypeOK, taskVars, fsVars
  <2>5. CASE ChildRemove(s)
    <3>1. Untouched(g)
      BY <1>a, <2>5 DEF ChildRemove, Goto, Untouched, TypeOK, taskVars
    <3>2. dir' = [dir EXCEPT ![Path(s)] = NoInode] /\ Reclaim(Path(s), data)
      BY <2>5 DEF ChildRemove
    <3>3. QED
      BY <1>a, <3>1, <3>2, ReclaimSpares, ReadingPath DEF Spared, TypeOK
  <2>6. CASE ChildSend(s)
    BY <1>a, <2>6 DEF ChildSend, Exit, Goto, Untouched, Spared, TypeOK, taskVars
  <2>7. QED
    BY <1>1, <2>1, <2>2, <2>3, <2>4, <2>5, <2>6, <2>8 DEF Serve
<1>2. ASSUME NEW p \in Procs \ {g}, Kill(p)
      PROVE  Untouched(g) /\ Spared(g)
  <2>1. Untouched(g)
    BY <1>a, <1>2 DEF Kill, Exit, Goto, Untouched, TypeOK, taskVars
  <2>2. UNCHANGED dir /\ Reclaim(Path(p), data)
    BY <1>2 DEF Kill
  <2>3. QED
    BY <2>1, <2>2, ReclaimSpares DEF Spared
<1>3. CASE Clean \/ UNCHANGED vars
  BY <1>3 DEF Clean, Untouched, Spared, fsVars, taskVars, vars
<1>4. QED
  BY <1>1, <1>2, <1>3

\* The getter itself: it verifies the file that it has open.
LEMMA GetterHolds ==
    ASSUME TypeInv, NEW g \in Getters, HoldsBlock(g),
           \/ Get(g) \/ CutTransfer(g) \/ Kill(g) \/ \E c \in Cids : GetStart(g, c)
    PROVE  HoldsBlock(g)'
<1> USE DEF Procs
<1>a. TypeOK /\ HasFile(g)
  BY DEF TypeInv, Control
<1>1. CASE OpenBlock(g)
  <2>1. /\ fh' = [fh EXCEPT ![g] = dir[Path(g)]] /\ pc'[g] \in {"del_missing", "verify"}
        /\ pc'[g] = "verify" => dir[Path(g)] # NoInode
        /\ UNCHANGED <<dir, cid, name>>
    BY <1>a, <1>1 DEF OpenBlock, Goto, TypeOK
  <2>2. QED
    BY <1>a, <2>1 DEF HoldsBlock, Path, TypeOK
<1>2. CASE VerifyBlock(g)
  <2>1. CASE pc'[g] = "fread"
    <3>1. pc[g] = "verify" /\ Whole(Path(g)) /\ UNCHANGED <<dir, data, cid, name, fh>>
      BY <1>a, <1>2, <2>1 DEF VerifyBlock, Exit, Goto, TypeOK
    <3>2. fh[g] = dir[Path(g)] /\ Opened(g) = Intact /\ fh[g] # NoInode /\ name[g] # "null"
      BY <1>a, <3>1 DEF HoldsBlock, HasFile, Whole, Opened
    <3>3. Opened(g)' = Opened(g)
      BY <3>1 DEF Opened, Path
    <3>4. QED
      BY <2>1, <3>1, <3>2, <3>3 DEF HoldsBlock
  <2>2. CASE pc'[g] # "fread"
    <3>1. pc'[g] # "verify"
      BY <1>a, <1>2, <2>2 DEF VerifyBlock, Exit, Goto, TypeOK
    <3>2. QED
      BY <2>2, <3>1 DEF HoldsBlock
  <2>3. QED
    BY <2>1, <2>2
<1>3. CASE pc'[g] \notin {"verify", "fread"}
  BY <1>3 DEF HoldsBlock
<1>4. CASE Kill(g) \/ CutTransfer(g) \/ \E c \in Cids : GetStart(g, c)
  <2>1. pc'[g] \in {"idle", "set_redis", "get_redis"}
    BY <1>a, <1>4 DEF Kill, CutTransfer, GetStart, Start, Exit, Goto, TypeOK
  <2>2. QED
    BY <1>3, <2>1
<1>5. CASE Lookup(g) \/ NobodyHasIt(g) \/ StartDownload(g) \/ ReceiveHead(g) \/ ReceiveTail(g)
           \/ RegisterDownload(g) \/ LookupAgain(g)
  <2>1. pc'[g] \in {"look_for_block", "fopen", "get_again", "recv", "recv_tail", "set_redis", "idle"}
    BY <1>a, <1>5 DEF Lookup, NobodyHasIt, StartDownload, ReceiveHead, ReceiveTail,
       RegisterDownload, LookupAgain, Exit, Goto, TypeOK
  <2>2. QED
    BY <1>3, <2>1
<1>6. CASE ForgetMissing(g) \/ ForgetBad(g) \/ RemoveBad(g) \/ StopAtTarget(g)
  <2>1. pc'[g] \in {"get_redis", "remove", "idle"}
    BY <1>a, <1>6 DEF ForgetMissing, ForgetBad, RemoveBad, StopAtTarget, Exit, Goto, TypeOK
  <2>2. QED
    BY <1>3, <2>1
<1>7. CASE ReadParent(g) \/ ReadChunk(g)
  <2>1. pc'[g] \in {"get_redis", "idle"}
    BY <1>a, <1>7 DEF ReadParent, ReadChunk, GetNext, Exit, Goto, TypeOK
  <2>2. QED
    BY <1>3, <2>1
<1>8. QED
  BY <1>1, <1>2, <1>4, <1>5, <1>6, <1>7 DEF Get

\* A step of the getter that reads no block.
LEMMA WritesSame ==
    ASSUME NEW g \in Getters, WritesPrefix(g), pc[g] # "idle", result'[g] # "ok",
           target'[g] = target[g], out'[g] = out[g], pos'[g] = pos[g]
    PROVE  WritesPrefix(g)'
<1>1. \A n : Wrote(g, n) => Wrote(g, n)'
  BY DEF Wrote
<1>2. QED
  BY <1>1 DEF WritesPrefix

LEMMA PrefixAppend ==
    ASSUME NEW f \in Parents, NEW n \in Nat, n < Len(Links[f])
    PROVE  Append(SubSeq(Links[f], 1, n), Links[f][n + 1]) = SubSeq(Links[f], 1, n + 1)
OBVIOUS

\* fread: the parent, or a chunk that is appended to the output.
LEMMA GetNextWrites ==
    ASSUME TypeInv, NEW g \in Getters, HoldsBlock(g), WritesPrefix(g),
           ReadParent(g) \/ ReadChunk(g)
    PROVE  WritesPrefix(g)'
<1> USE DEF Procs
<1>a. TypeOK /\ AtLink(g) /\ pc[g] = "fread" /\ Opened(g) = Intact
  BY DEF TypeInv, Control, HoldsBlock, ReadParent, ReadChunk
<1> DEFINE f == target[g]
           L == Links[f]
<1>b. f \in Parents /\ UNCHANGED target
  BY <1>a DEF AtLink, ReadParent, ReadChunk, IsFile, GetNext
<1>c. L \in Seq(Chunks) /\ Len(L) \in Nat /\ L # << >> /\ Len(L) # 0
  BY <1>b
<1>1. PICK n \in 0..Len(L) : Wrote(g, n)
  BY <1>b DEF WritesPrefix
<1>2. pos[g] \in Nat \ {0} /\ result[g] # "ok"
  BY <1>a, <1>1 DEF Wrote, TypeOK
<1>3. CASE ReadParent(g)
  <2>1. pos[g] = 1 /\ GetNext(g, 1, << >>)
    BY <1>3 DEF ReadParent
  <2>2. 1 <= Len(L)
    BY <1>c
  <2>3. /\ out'[g] = << >> /\ pos'[g] = 2 /\ pc'[g] = "get_redis"
        /\ result' = result
    BY <1>a, <2>1, <2>2 DEF GetNext, Goto, TypeOK
  <2>4. Wrote(g, 0)'
    BY <1>b, <1>2, <2>3 DEF Wrote
  <2>5. QED
    BY <1>b, <1>c, <2>4 DEF WritesPrefix
<1>4. CASE ReadChunk(g)
  <2>1. pos[g] > 1 /\ GetNext(g, pos[g], Append(out[g], cid[g]))
    BY <1>a, <1>4 DEF ReadChunk, Intact
  <2>2. /\ n = pos[g] - 2 /\ n + 1 \in 1..Len(L) /\ n \in Nat /\ n < Len(L)
        /\ cid[g] = L[n + 1] /\ out[g] = SubSeq(L, 1, n)
    BY <1>a, <1>1, <1>2, <2>1 DEF Wrote, AtLink
  <2>3. out'[g] = SubSeq(L, 1, n + 1)
    <3>1. out'[g] = Append(out[g], cid[g])
      BY <1>a, <2>1 DEF GetNext, TypeOK
    <3>2. QED
      BY <1>b, <2>2, <3>1, PrefixAppend
  <2>4. pos'[g] = n + 3
    BY <1>a, <1>2, <2>1, <2>2 DEF GetNext, TypeOK
  <2>5. CASE pos[g] <= Len(L)
    <3>1. pc'[g] = "get_redis" /\ result' = result
      BY <1>a, <2>1, <2>5 DEF GetNext, Goto, TypeOK
    <3>2. pos'[g] # 1 /\ n + 1 = pos'[g] - 2
      BY <2>2, <2>4
    <3>3. Wrote(g, n + 1)'
      BY <1>b, <1>2, <2>3, <3>1, <3>2 DEF Wrote
    <3>4. QED
      BY <1>b, <2>2, <3>3 DEF WritesPrefix
  <2>6. CASE ~(pos[g] <= Len(L))
    <3>1. pc'[g] = "idle"
      BY <1>a, <2>1, <2>6 DEF GetNext, Exit, Goto, TypeOK
    <3>2. n + 1 = Len(L)
      <4> HIDE DEF L
      <4>1. QED
        BY <1>2, <1>c, <2>2, <2>6
    <3>3. Wrote(g, n + 1)'
      BY <1>b, <2>3, <3>1, <3>2 DEF Wrote
    <3>4. QED
      BY <1>b, <2>2, <3>3 DEF WritesPrefix
  <2>7. QED
    BY <2>5, <2>6
<1>5. QED
  BY <1>3, <1>4

LEMMA GetterWrites ==
    ASSUME TypeInv, NEW g \in Getters, HoldsBlock(g), WritesPrefix(g),
           \/ Get(g) \/ CutTransfer(g) \/ Kill(g) \/ \E c \in Cids : GetStart(g, c)
    PROVE  WritesPrefix(g)'
<1> USE DEF Procs
<1>a. TypeOK
  BY DEF TypeInv
<1>1. CASE \E c \in Cids : GetStart(g, c)
  <2>1. /\ out'[g] = << >> /\ pos'[g] = 1 /\ result'[g] = "none" /\ target'[g] \in Cids
    BY <1>a, <1>1 DEF GetStart, Start, TypeOK
  <2>2. target'[g] \in Parents => Wrote(g, 0)' /\ Len(Links[target'[g]]) \in Nat
    BY <2>1, LinksType DEF Wrote
  <2>3. QED
    BY <2>2 DEF WritesPrefix
<1>2. ASSUME pc[g] # "idle", result'[g] = result[g] \/ result'[g] # "ok",
             UNCHANGED <<target, out, pos>>
      PROVE  WritesPrefix(g)'
  <2>1. CASE target[g] \in Parents
    <3>1. result[g] # "ok"
      BY <1>2, <2>1 DEF WritesPrefix, Wrote
    <3>2. QED
      BY <1>2, <3>1, WritesSame
  <2>2. CASE target[g] \notin Parents
    BY <1>2, <2>2 DEF WritesPrefix
  <2>3. QED
    BY <2>1, <2>2
<1>3. CASE Kill(g)
  BY <1>2, <1>3, <1>a DEF Kill, Exit, Goto, TypeOK, taskVars
<1>4. CASE ReadParent(g) \/ ReadChunk(g)
  BY <1>4, GetNextWrites
<1>5. CASE CutTransfer(g) \/ Lookup(g) \/ NobodyHasIt(g) \/ StartDownload(g) \/ ReceiveHead(g)
           \/ ReceiveTail(g) \/ RegisterDownload(g) \/ OpenBlock(g) \/ ForgetMissing(g)
           \/ ForgetBad(g) \/ RemoveBad(g)
  BY <1>2, <1>5 DEF CutTransfer, Lookup, NobodyHasIt, StartDownload, ReceiveHead, ReceiveTail,
     RegisterDownload, OpenBlock, ForgetMissing, ForgetBad, RemoveBad, taskVars
<1>6. CASE LookupAgain(g) \/ VerifyBlock(g) \/ StopAtTarget(g)
  <2>1. /\ pc[g] # "idle" /\ UNCHANGED <<target, out, pos>>
        /\ result'[g] = result[g] \/ result'[g] # "ok"
    BY <1>a, <1>6 DEF LookupAgain, VerifyBlock, StopAtTarget, Exit, TypeOK, taskVars
  <2>2. QED
    BY <1>2, <2>1
<1>7. QED
  BY <1>1, <1>3, <1>4, <1>5, <1>6 DEF Get

LEMMA InitGet == Init => GetInv
<1> SUFFICES ASSUME Init, NEW g \in Getters PROVE HoldsBlock(g) /\ WritesPrefix(g)
  BY DEF GetInv
<1>1. pc[g] = "idle" /\ result[g] = "none" /\ out[g] = << >>
  BY DEF Init, Procs
<1>2. target[g] \in Parents => Wrote(g, 0) /\ Len(Links[target[g]]) \in Nat
  BY <1>1, LinksType DEF Wrote
<1>3. QED
  BY <1>1, <1>2 DEF HoldsBlock, WritesPrefix

LEMMA NextGet ==
    ASSUME OneGetter, OncePerBlock, TypeInv, AddInv, GetInv, [Next]_vars
    PROVE  GetInv'
<1> SUFFICES ASSUME NEW g \in Getters PROVE HoldsBlock(g)' /\ WritesPrefix(g)'
  BY DEF GetInv
<1>1. HoldsBlock(g) /\ WritesPrefix(g)
  BY DEF GetInv
<1>2. ASSUME NEW a \in Adders, AddStart(a) \/ Add(a) PROVE HoldsBlock(g)' /\ WritesPrefix(g)'
  BY <1>1, <1>2, AdderSpares, UntouchedKept
<1>3. ASSUME NEW h \in Getters, Get(h) \/ CutTransfer(h) \/ \E c \in Cids : GetStart(h, c)
      PROVE  HoldsBlock(g)' /\ WritesPrefix(g)'
  <2>1. h = g
    BY DEF OneGetter
  <2>2. QED
    BY <1>1, <1>3, <2>1, GetterHolds, GetterWrites
<1>4. ASSUME NEW s \in Children, Serve(s) \/ \E c \in Cids : Accept(s, c)
      PROVE  HoldsBlock(g)' /\ WritesPrefix(g)'
  BY <1>1, <1>4, OtherSpares, UntouchedKept
<1>5. ASSUME NEW p \in Procs, Kill(p) PROVE HoldsBlock(g)' /\ WritesPrefix(g)'
  <2>1. CASE p = g
    BY <1>1, <1>5, <2>1, GetterHolds, GetterWrites
  <2>2. CASE p # g
    BY <1>1, <1>5, <2>2, OtherSpares, UntouchedKept
  <2>3. QED
    BY <2>1, <2>2
<1>6. CASE Clean \/ UNCHANGED vars
  BY <1>1, <1>6, OtherSpares, UntouchedKept
<1>7. QED
  BY <1>2, <1>3, <1>4, <1>5, <1>6 DEF Next, Finished

\* If no block is stored twice and one `tnfs get` runs at a time, what it
\* has written is a beginning of the file, all of it at the end (OutputIsPrefix):
\* adders, server children, `tnfs clean`, kills and cut transfers never get a
\* damaged block past verify_block.
THEOREM OutputHolds == OneGetter /\ OncePerBlock /\ Spec => []OutputIsPrefix
<1>1. GetInv => OutputIsPrefix
  <2> SUFFICES ASSUME GetInv, NEW g \in Getters, target[g] \in Parents
               PROVE  /\ out[g] = SubSeq(Links[target[g]], 1, Len(out[g]))
                      /\ result[g] = "ok" => out[g] = Links[target[g]]
    BY DEF OutputIsPrefix
  <2>1. PICK n \in 0..Len(Links[target[g]]) : Wrote(g, n)
    BY DEF GetInv, WritesPrefix
  <2>2. Links[target[g]] \in Seq(Chunks)
    OBVIOUS
  <2>3. Len(out[g]) = n /\ SubSeq(Links[target[g]], 1, Len(Links[target[g]])) = Links[target[g]]
    BY <2>1, <2>2 DEF Wrote
  <2>4. QED
    BY <2>1, <2>3 DEF Wrote
<1> SUFFICES ASSUME OneGetter, OncePerBlock PROVE Spec => []OutputIsPrefix
  OBVIOUS
<1>2. Init => TypeInv /\ AddInv /\ Replies /\ GetInv
  BY InitType, InitAdd, InitReplies, InitGet
<1>3. TypeInv /\ AddInv /\ Replies /\ GetInv /\ [Next]_vars =>
        TypeInv' /\ AddInv' /\ Replies' /\ GetInv'
  BY NextType, NextAdd, NextReplies, NextGet
<1>4. QED
  BY <1>1, <1>2, <1>3, PTL DEF Spec
=============================================================================
