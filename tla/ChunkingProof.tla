--------------------------- MODULE ChunkingProof ----------------------------
(***************************************************************************)
(* Proofs about Chunking and Sha256: type correctness, that a file which   *)
(* was downloaded is the file which was added, and that its hash is that   *)
(* of its contents, for every block size, number of links and file.        *)
(*                                                                         *)
(* Chunk i (from 0) holds the bytes from Covered(i) + 1 to Covered(i + 1). *)
(* The invariant says that this is so of the chunks made, of the links of  *)
(* the parent, and of what was written.                                    *)
(***************************************************************************)
EXTENDS ContentHash, Induction, SequenceTheorems, TLAPS

\* How many bytes of the file come before chunk i.
Covered(i) == IF i * BLOCK_LIMIT < Len(file) THEN i * BLOCK_LIMIT ELSE Len(file)

ChunkAt(i) == Chunk(i, Covered(i + 1) - Covered(i))

\* The chunks made so far, and what is left of the file.
ChunksInv ==
    /\ pc = "add" => linksTab = <<>>
    /\ pc = "chunks" =>
         /\ Len(linksTab) <= get_number_of_blocks(Len(file))
         /\ data_size = Len(file) - Covered(Len(linksTab))
    /\ \A i \in 1..Len(linksTab) : linksTab[i] = ChunkAt(i - 1)

\* The parent, once it is made.
ParentInv ==
    IF pc \in {"add", "chunks"}
    THEN parent = NoParent
    ELSE pc = "get" =>
         /\ parent.nbLinks = get_number_of_blocks(Len(file))
         /\ Len(parent.links) = IF parent.nbLinks <= MAX_LINKS
                                THEN parent.nbLinks ELSE MAX_LINKS
         /\ \A i \in 1..Len(parent.links) : parent.links[i] = ChunkAt(i - 1)

\* What get has written.
OutputInv ==
    /\ pc \in {"add", "chunks"} => next = 0
    /\ pc = "get" => next <= parent.nbLinks
    /\ output = SubSeq(file, 1, Covered(next))
    /\ pc \in {"add", "chunks", "get"} => result = "none"
    /\ result = "downloaded" => Covered(next) = Len(file)

Inv == TypeOK /\ ChunksInv /\ ParentInv /\ OutputInv
-----------------------------------------------------------------------------
(* Arithmetic.                                                             *)

LEMMA Offsets ==
    ASSUME NEW i \in Nat
    PROVE  /\ i * BLOCK_LIMIT \in Nat
           /\ (i + 1) * BLOCK_LIMIT = i * BLOCK_LIMIT + BLOCK_LIMIT
           /\ 0 * BLOCK_LIMIT = 0
BY ChunkingAssumption, SMT

LEMMA Division ==
    ASSUME NEW n \in Nat
    PROVE  /\ n \div BLOCK_LIMIT \in Nat
           /\ (n \div BLOCK_LIMIT) * BLOCK_LIMIT <= n
           /\ n < (n \div BLOCK_LIMIT + 1) * BLOCK_LIMIT
BY ChunkingAssumption, SMT

LEMMA FileType ==
    ASSUME TypeOK
    PROVE  file \in Seq(Bytes) /\ Len(file) \in Nat
<1>1. file \in Files
  BY DEF TypeOK
<1>2. file \in Seq(Bytes)
  BY <1>1, ChunkingAssumption, Zenon
<1> QED
  BY <1>2

\* Chunk i begins where chunk i - 1 ends, and is no longer than a block.
LEMMA CoveredFacts ==
    ASSUME TypeOK, NEW i \in Nat
    PROVE  /\ Covered(i) \in 0..Len(file)
           /\ Covered(0) = 0
           /\ Covered(i + 1) - Covered(i) =
                IF Len(file) - Covered(i) < BLOCK_LIMIT
                THEN Len(file) - Covered(i) ELSE BLOCK_LIMIT
           /\ Covered(i + 1) > Covered(i) => Covered(i) = i * BLOCK_LIMIT
<1>1. BLOCK_LIMIT \in Nat \ {0} /\ Len(file) \in Nat
  BY FileType, ChunkingAssumption
<1>2. i * BLOCK_LIMIT \in Nat /\ 0 * BLOCK_LIMIT = 0
  BY Offsets
<1>3. (i + 1) * BLOCK_LIMIT = i * BLOCK_LIMIT + BLOCK_LIMIT
  BY Offsets
<1> DEFINE p == i * BLOCK_LIMIT
           q == (i + 1) * BLOCK_LIMIT
           z == 0 * BLOCK_LIMIT
           n == Len(file)
<1>4. /\ Covered(i) = IF p < n THEN p ELSE n
      /\ Covered(i + 1) = IF q < n THEN q ELSE n
      /\ Covered(0) = IF z < n THEN z ELSE n
  BY Zenon DEF Covered
<1>5. p \in Nat /\ q = p + BLOCK_LIMIT /\ z = 0 /\ n \in Nat /\ BLOCK_LIMIT \in Nat \ {0}
  BY <1>1, <1>2, <1>3, Zenon
<1>6. (Covered(i + 1) > Covered(i) => Covered(i) = p) /\ Covered(i) \in 0..n
  <2> HIDE DEF p, q, z, n
  <2> QED  BY <1>4, <1>5
<1>7. /\ Covered(0) = 0
      /\ Covered(i + 1) - Covered(i) =
           IF n - Covered(i) < BLOCK_LIMIT THEN n - Covered(i) ELSE BLOCK_LIMIT
  <2> HIDE DEF p, q, z, n
  <2> QED  BY <1>4, <1>5
<1> QED
  BY <1>6, <1>7, Zenon

LEMMA AllCovered ==
    ASSUME TypeOK
    PROVE  /\ get_number_of_blocks(Len(file)) \in Nat
           /\ Covered(get_number_of_blocks(Len(file))) = Len(file)
<1>1. Len(file) \in Nat
  BY FileType
<1>2. Len(file) < (Len(file) \div BLOCK_LIMIT + 1) * BLOCK_LIMIT
  BY <1>1, Division
<1>3. Len(file) \div BLOCK_LIMIT \in Nat
  BY <1>1, Division
<1> DEFINE k == get_number_of_blocks(Len(file))
<1>4. k \in Nat /\ k = Len(file) \div BLOCK_LIMIT + 1
  BY <1>3 DEF get_number_of_blocks
<1> HIDE DEF k
<1>5. k * BLOCK_LIMIT \in Nat /\ Len(file) < k * BLOCK_LIMIT
  BY <1>2, <1>4, Offsets, Zenon
<1>6. ~(k * BLOCK_LIMIT < Len(file))
  BY <1>1, <1>5
<1>7. Covered(k) = Len(file)
  BY <1>6, Zenon DEF Covered
<1> QED
  BY <1>4, <1>7 DEF k

LEMMA ChunkAtType ==
    ASSUME TypeOK, NEW i \in Nat
    PROVE  ChunkAt(i) \in ChunkType
<1> DEFINE s == Covered(i + 1) - Covered(i)
<1>1. BLOCK_LIMIT \in Nat \ {0} /\ 0 \in Bytes /\ file \in Seq(Bytes)
  BY FileType, ChunkingAssumption
<1>2. s \in 0..BLOCK_LIMIT /\ Covered(i) \in 0..Len(file)
  <2>1. /\ Covered(i) \in 0..Len(file) /\ Len(file) \in Nat
        /\ s = IF Len(file) - Covered(i) < BLOCK_LIMIT
               THEN Len(file) - Covered(i) ELSE BLOCK_LIMIT
    BY CoveredFacts, FileType, Zenon
  <2> HIDE DEF s
  <2> QED  BY <1>1, <2>1
<1>3. Covered(i) + s <= Len(file)
  <2>1. i + 1 \in Nat
    OBVIOUS
  <2>2. Covered(i) \in 0..Len(file) /\ Covered(i + 1) \in 0..Len(file)
    BY <2>1, CoveredFacts, Zenon
  <2>3. Len(file) \in Nat
    BY FileType
  <2> QED  BY <2>2, <2>3
<1>4. ASSUME NEW j \in 1..BLOCK_LIMIT, j <= s
      PROVE  file[i * BLOCK_LIMIT + j] \in Bytes
  <2>1. Covered(i) = i * BLOCK_LIMIT
    <3>1. Covered(i + 1) > Covered(i) => Covered(i) = i * BLOCK_LIMIT
      BY CoveredFacts, Zenon
    <3> DEFINE a == Covered(i)
               b == Covered(i + 1)
    <3>2. a \in Int /\ b \in Int
      <4>1. i + 1 \in Nat
        OBVIOUS
      <4>2. a \in 0..Len(file) /\ b \in 0..Len(file)
        BY <4>1, CoveredFacts, Zenon
      <4> HIDE DEF a, b
      <4>3. QED
        BY <4>2
    <3>3. j <= b - a
      BY <1>4
    <3> HIDE DEF a, b
    <3>4. b > a
      BY <3>2, <3>3
    <3>5. QED
      BY <3>1, <3>4 DEF a, b
  <2>2. i * BLOCK_LIMIT + j \in 1..Len(file)
    BY <1>1, <1>2, <1>3, <1>4, <2>1, FileType
  <2> QED
    BY <1>1, <2>2
<1>5. [j \in 1..BLOCK_LIMIT |->
         IF j <= s THEN file[i * BLOCK_LIMIT + j] ELSE 0] \in [1..BLOCK_LIMIT -> Bytes]
  BY <1>1, <1>4
<1> QED
  BY <1>2, <1>5 DEF ChunkAt, Chunk, ChunkType

\* Writing chunk i after the chunks before it.
LEMMA AppendChunk ==
    ASSUME TypeOK, NEW i \in Nat
    PROVE  SubSeq(file, 1, Covered(i)) \o SubSeq(ChunkAt(i).data, 1, ChunkAt(i).size)
             = SubSeq(file, 1, Covered(i + 1))
<1> DEFINE a == Covered(i)
           s == Covered(i + 1) - Covered(i)
           d == [j \in 1..BLOCK_LIMIT |->
                   IF j <= s THEN file[i * BLOCK_LIMIT + j] ELSE 0]
<1>1. BLOCK_LIMIT \in Nat \ {0} /\ file \in Seq(Bytes) /\ Len(file) \in Nat
  BY FileType, ChunkingAssumption
<1>2. /\ s \in 0..BLOCK_LIMIT /\ a \in 0..Len(file)
      /\ Covered(i + 1) = a + s /\ Covered(i + 1) \in 0..Len(file)
  <2>1. /\ a \in 0..Len(file)
        /\ s = IF Len(file) - a < BLOCK_LIMIT THEN Len(file) - a ELSE BLOCK_LIMIT
    BY CoveredFacts, Zenon
  <2>2. Covered(i + 1) \in 0..Len(file)
    <3>1. i + 1 \in Nat
      OBVIOUS
    <3> QED  BY <3>1, CoveredFacts, Zenon
  <2>3. Covered(i + 1) = a + s
    BY <1>1, <2>1, <2>2
  <2> HIDE DEF s, a
  <2> QED  BY <1>1, <2>1, <2>2, <2>3
<1>3. ChunkAt(i).data = d /\ ChunkAt(i).size = s
  BY DEF ChunkAt, Chunk
<1>4. i * BLOCK_LIMIT \in Nat /\ (s > 0 => a = i * BLOCK_LIMIT)
  BY <1>2, CoveredFacts, Offsets
<1>5. d \in [1..BLOCK_LIMIT -> Bytes]
  <2>1. ChunkAt(i).data \in [1..BLOCK_LIMIT -> Bytes]
    BY ChunkAtType DEF ChunkType
  <2> QED
    BY <1>3, <2>1
<1>6. \A j \in 1..s : d[j] = file[i * BLOCK_LIMIT + j]
  BY <1>1, <1>2
<1> HIDE DEF a, s, d
<1>7. d \in Seq(Bytes) /\ Len(d) = BLOCK_LIMIT
  BY <1>1, <1>5
<1>8. /\ SubSeq(d, 1, s) \in Seq(Bytes) /\ Len(SubSeq(d, 1, s)) = s
      /\ \A j \in 1..s : SubSeq(d, 1, s)[j] = d[j]
  BY <1>1, <1>2, <1>7
<1>9. /\ SubSeq(file, 1, a) \in Seq(Bytes) /\ Len(SubSeq(file, 1, a)) = a
      /\ \A j \in 1..a : SubSeq(file, 1, a)[j] = file[j]
  BY <1>1, <1>2
<1>10. /\ SubSeq(file, 1, a + s) \in Seq(Bytes)
       /\ Len(SubSeq(file, 1, a + s)) = a + s
       /\ \A j \in 1..(a + s) : SubSeq(file, 1, a + s)[j] = file[j]
  BY <1>1, <1>2
<1>11. \A j \in 1..s : SubSeq(d, 1, s)[j] = file[a + j]
  BY <1>2, <1>4, <1>6, <1>8
<1>12. SubSeq(file, 1, a) \o SubSeq(d, 1, s) = SubSeq(file, 1, a + s)
  BY <1>2, <1>8, <1>9, <1>10, <1>11
<1> QED
  BY <1>2, <1>3, <1>12, Zenon DEF a
-----------------------------------------------------------------------------
(* The invariant is inductive.                                             *)

LEMMA InitInv == Init => Inv
<1> SUFFICES ASSUME Init PROVE Inv
  OBVIOUS
<1>1. TypeOK
  BY DEF Init, TypeOK, NoParent
<1>2. ChunksInv /\ ParentInv
  BY DEF Init, ChunksInv, ParentInv
<1>3. Covered(0) = 0
  BY <1>1, CoveredFacts
<1>4. file \in Seq(Bytes) /\ SubSeq(file, 1, 0) = <<>>
  BY <1>1, FileType
<1>5. OutputInv
  BY <1>3, <1>4 DEF Init, OutputInv
<1> QED
  BY <1>1, <1>2, <1>5 DEF Inv

\* Nothing that is said of the chunks changes while the file does not.
LEMMA SameFile ==
    ASSUME file' = file
    PROVE  /\ \A i : Covered(i)' = Covered(i)
           /\ \A i : ChunkAt(i)' = ChunkAt(i)
BY DEF Covered, ChunkAt, Chunk

LEMMA AddFileInv == Inv /\ AddFile => Inv'
<1> SUFFICES ASSUME Inv, AddFile PROVE Inv'
  OBVIOUS
<1> USE DEF Inv
<1>1. /\ file' = file /\ linksTab' = linksTab /\ parent' = parent
      /\ next' = next /\ output' = output /\ pc = "add"
      /\ pc' \in {"done", "chunks"}
      /\ pc' = "chunks" => result' = result /\ data_size' = Len(file)
      /\ pc' = "done" => data_size' = data_size /\ result' \in {"empty", "too big"}
  BY DEF AddFile, Done, got
<1>2. Len(file) \in Nat /\ file \in Seq(Bytes)
  BY FileType
<1>3. TypeOK'
  BY <1>1, <1>2 DEF TypeOK
<1>4. /\ Covered(0) = 0 /\ Covered(0)' = Covered(0)
      /\ get_number_of_blocks(Len(file)) \in Nat
  BY <1>1, CoveredFacts, SameFile, AllCovered
<1>5. linksTab = <<>> /\ parent = NoParent /\ next = 0 /\ result = "none"
  BY <1>1 DEF ChunksInv, ParentInv, OutputInv
<1>6. ChunksInv'
  <2>1. Len(linksTab') = 0 /\ linksTab' = <<>>
    BY <1>1, <1>5
  <2>2. get_number_of_blocks(Len(file))' = get_number_of_blocks(Len(file))
    BY <1>1
  <2>3. pc' = "chunks" => data_size' = Len(file)' - Covered(Len(linksTab))'
    <3>1. Covered(Len(linksTab))' = Covered(0)
      BY <1>1, <2>1, <1>4
    <3> QED
      BY <1>1, <1>2, <1>4, <3>1
  <2>4. (Len(linksTab) <= get_number_of_blocks(Len(file)))'
    BY <1>4, <2>1, <2>2
  <2>5. \A i \in 1..Len(linksTab') : linksTab'[i] = ChunkAt(i - 1)'
    <3>1. 1..Len(linksTab') = {}
      BY <2>1
    <3> QED
      BY <3>1
  <2> QED
    BY <2>1, <2>3, <2>4, <2>5, Zenon DEF ChunksInv
<1>7. ParentInv'
  BY <1>1, <1>5 DEF ParentInv
<1>8. Covered(next)' = Covered(next)
  BY <1>1, <1>4, <1>5
<1>9. OutputInv'
  BY <1>1, <1>5, <1>8 DEF OutputInv
<1> QED
  BY <1>3, <1>6, <1>7, <1>9

LEMMA CreateChunkInv == Inv /\ CreateChunk => Inv'
<1> SUFFICES ASSUME Inv, CreateChunk PROVE Inv'
  OBVIOUS
<1> USE DEF Inv
<1> DEFINE n == Len(linksTab)
           size == IF data_size < BLOCK_LIMIT THEN data_size ELSE BLOCK_LIMIT
<1>1. /\ file' = file /\ parent' = parent /\ next' = next /\ output' = output
      /\ pc = "chunks" /\ pc' = pc /\ result' = result
      /\ n < get_number_of_blocks(Len(file))
      /\ data_size' = data_size - size
      /\ linksTab' = Append(linksTab, Chunk(n, size))
  BY DEF CreateChunk, got
<1>2. /\ n \in Nat /\ Len(file) \in Nat /\ linksTab \in Seq(ChunkType)
      /\ get_number_of_blocks(Len(file)) \in Nat /\ data_size \in Nat
  <2>1. /\ Len(file) \in Nat /\ get_number_of_blocks(Len(file)) \in Nat
    BY FileType, AllCovered, Zenon
  <2>2. linksTab \in Seq(ChunkType) /\ data_size \in Nat
    BY DEF TypeOK
  <2> QED
    BY <2>1, <2>2
<1>3. data_size = Len(file) - Covered(n)
  BY <1>1 DEF ChunksInv
<1>4. size = Covered(n + 1) - Covered(n)
  BY <1>2, <1>3, CoveredFacts
<1>5. Chunk(n, size) = ChunkAt(n) /\ ChunkAt(n) \in ChunkType
  BY <1>2, <1>4, ChunkAtType DEF ChunkAt
<1>6. /\ linksTab' \in Seq(ChunkType) /\ Len(linksTab') = n + 1
      /\ \A i \in 1..n : linksTab'[i] = linksTab[i]
      /\ linksTab'[n + 1] = ChunkAt(n)
  BY <1>1, <1>2, <1>5
<1>7. Covered(n) \in 0..Len(file) /\ Covered(n + 1) \in 0..Len(file)
  BY <1>2, CoveredFacts
<1>8. data_size' \in Nat /\ data_size' = Len(file) - Covered(n + 1)
  BY <1>1, <1>2, <1>3, <1>4, <1>7
<1>9. TypeOK'
  BY <1>1, <1>6, <1>8 DEF TypeOK
<1>10. \A i \in 1..(n + 1) : linksTab'[i] = ChunkAt(i - 1)'
  <2>1. \A i \in 1..n : linksTab[i] = ChunkAt(i - 1)
    BY DEF ChunksInv
  <2>2. \A i : ChunkAt(i)' = ChunkAt(i)
    BY <1>1, SameFile
  <2> TAKE i \in 1..(n + 1)
  <2>3. CASE i \in 1..n
    BY <1>6, <2>1, <2>2, <2>3
  <2>4. CASE i = n + 1
    <3>1. i - 1 = n
      BY <1>2, <2>4
    <3> QED
      BY <1>6, <2>2, <2>4, <3>1
  <2> QED
    BY <1>2, <2>3, <2>4
<1>11. \A i : Covered(i)' = Covered(i)
  BY <1>1, SameFile
<1>12. ChunksInv'
  <2>1. (Len(linksTab) <= get_number_of_blocks(Len(file)))'
    <3>1. get_number_of_blocks(Len(file))' = get_number_of_blocks(Len(file))
      BY <1>1
    <3> QED
      BY <1>1, <1>2, <1>6, <3>1
  <2>2. (data_size = Len(file) - Covered(Len(linksTab)))'
    BY <1>1, <1>6, <1>8, <1>11
  <2>3. (pc = "add" => linksTab = <<>>)'
    BY <1>1
  <2> QED
    BY <1>6, <1>10, <2>1, <2>2, <2>3 DEF ChunksInv
<1>13. ParentInv'
  BY <1>1 DEF ParentInv, NoParent
<1>14. OutputInv'
  BY <1>1, <1>11 DEF OutputInv
<1> QED
  BY <1>9, <1>12, <1>13, <1>14

LEMMA CreateParentInv == Inv /\ CreateParent => Inv'
<1> SUFFICES ASSUME Inv, CreateParent PROVE Inv'
  OBVIOUS
<1> USE DEF Inv
<1> DEFINE n == Len(linksTab)
           links == IF n <= MAX_LINKS THEN linksTab ELSE SubSeq(linksTab, 1, MAX_LINKS)
<1>1. /\ file' = file /\ data_size' = data_size /\ linksTab' = linksTab
      /\ next' = next /\ output' = output /\ result' = result
      /\ pc = "chunks" /\ pc' = "get"
      /\ n = get_number_of_blocks(Len(file))
      /\ parent' = [nbLinks |-> n, links |-> links]
  BY DEF CreateParent, got
<1>2. n \in Nat /\ linksTab \in Seq(ChunkType) /\ MAX_LINKS \in Nat \ {0}
  <2>1. linksTab \in Seq(ChunkType)
    BY DEF TypeOK
  <2>2. MAX_LINKS \in Nat \ {0}
    BY ChunkingAssumption, Zenon
  <2> QED
    BY <2>1, <2>2
<1>3. /\ links \in Seq(ChunkType)
      /\ Len(links) = IF n <= MAX_LINKS THEN n ELSE MAX_LINKS
      /\ \A i \in 1..Len(links) : i \in 1..n /\ links[i] = linksTab[i]
  <2>1. CASE n <= MAX_LINKS
    BY <1>2, <2>1
  <2>2. CASE ~(n <= MAX_LINKS)
    <3>1. MAX_LINKS \in 1..n
      BY <1>2, <2>2
    <3>2. /\ SubSeq(linksTab, 1, MAX_LINKS) \in Seq(ChunkType)
          /\ Len(SubSeq(linksTab, 1, MAX_LINKS)) = MAX_LINKS
          /\ \A i \in 1..MAX_LINKS :
               SubSeq(linksTab, 1, MAX_LINKS)[i] = linksTab[i]
      BY <1>2, <3>1
    <3>3. links = SubSeq(linksTab, 1, MAX_LINKS)
      BY <2>2
    <3> HIDE DEF links
    <3> QED
      BY <1>2, <2>2, <3>1, <3>2, <3>3
  <2> QED
    BY <2>1, <2>2
<1> HIDE DEF links
<1>4. TypeOK'
  BY <1>1, <1>2, <1>3 DEF TypeOK
<1>5. \A i : ChunkAt(i)' = ChunkAt(i) /\ Covered(i)' = Covered(i)
  BY <1>1, SameFile
<1>6. \A i \in 1..n : linksTab[i] = ChunkAt(i - 1)
  BY DEF ChunksInv
<1>7. ChunksInv'
  BY <1>1, <1>5, <1>6 DEF ChunksInv
<1>8. ParentInv'
  <2>1. parent'.nbLinks = n /\ parent'.links = links
    BY <1>1
  <2>2. get_number_of_blocks(Len(file))' = n
    BY <1>1
  <2>3. \A i \in 1..Len(links) : links[i] = ChunkAt(i - 1)'
    BY <1>3, <1>5, <1>6
  <2> QED
    BY <1>1, <1>3, <2>1, <2>2, <2>3 DEF ParentInv
<1>9. OutputInv'
  <2>1. next = 0
    BY <1>1 DEF OutputInv
  <2>2. next' <= parent'.nbLinks
    BY <1>1, <1>2, <2>1
  <2> QED
    BY <1>1, <1>5, <2>2 DEF OutputInv
<1> QED
  BY <1>4, <1>7, <1>8, <1>9

LEMMA GetChunkInv == Inv /\ GetChunk => Inv'
<1> SUFFICES ASSUME Inv, GetChunk PROVE Inv'
  OBVIOUS
<1> USE DEF Inv
<1> DEFINE chunk == parent.links[next + 1]
<1>1. /\ file' = file /\ data_size' = data_size /\ linksTab' = linksTab
      /\ parent' = parent /\ result' = result
      /\ pc = "get" /\ pc' = pc
      /\ next < parent.nbLinks /\ next < MAX_LINKS /\ next' = next + 1
      /\ output' = output \o SubSeq(chunk.data, 1, chunk.size)
  BY DEF GetChunk
<1>2. /\ next \in Nat /\ parent.nbLinks \in Nat /\ MAX_LINKS \in Nat
      /\ file \in Seq(Bytes)
  BY FileType, ChunkingAssumption DEF TypeOK
<1>3. chunk = ChunkAt(next)
  <2>1. next + 1 \in 1..Len(parent.links) /\ (next + 1) - 1 = next
    BY <1>1, <1>2 DEF ParentInv
  <2>2. \A i \in 1..Len(parent.links) : parent.links[i] = ChunkAt(i - 1)
    BY <1>1 DEF ParentInv
  <2> QED
    BY <2>1, <2>2
<1>4. output' = SubSeq(file, 1, Covered(next + 1))
  <2>1. output = SubSeq(file, 1, Covered(next))
    BY DEF OutputInv
  <2> HIDE DEF chunk
  <2> QED
    BY <1>1, <1>2, <1>3, <2>1, AppendChunk, Zenon
<1>5. Covered(next + 1) \in 0..Len(file) /\ next + 1 \in Nat
  <2>1. next + 1 \in Nat
    BY <1>2
  <2> QED
    BY <2>1, CoveredFacts, Zenon
<1>6. output' \in Seq(Bytes)
  BY <1>2, <1>4, <1>5
<1>7. TypeOK'
  BY <1>1, <1>5, <1>6 DEF TypeOK
<1>8. \A i : ChunkAt(i)' = ChunkAt(i) /\ Covered(i)' = Covered(i)
  BY <1>1, SameFile
<1>9. ChunksInv'
  BY <1>1, <1>8 DEF ChunksInv
<1>10. ParentInv'
  BY <1>1, <1>8 DEF ParentInv, get_number_of_blocks
<1>11. OutputInv'
  <2>1. next' <= parent'.nbLinks
    BY <1>1, <1>2
  <2>2. result' = "none"
    BY <1>1 DEF OutputInv
  <2>3. output' = SubSeq(file', 1, Covered(next)')
    <3>1. Covered(next)' = Covered(next + 1)
      BY <1>1, <1>8
    <3> QED
      BY <1>1, <1>4, <3>1
  <2> QED
    BY <1>1, <2>1, <2>2, <2>3 DEF OutputInv
<1> QED
  BY <1>7, <1>9, <1>10, <1>11

\* get ends, or nothing happens any more.
LEMMA EndInv == Inv /\ (LinkBeyond \/ Downloaded \/ UNCHANGED vars) => Inv'
<1> SUFFICES ASSUME Inv, LinkBeyond \/ Downloaded \/ UNCHANGED vars PROVE Inv'
  OBVIOUS
<1> USE DEF Inv
<1>1. /\ file' = file /\ data_size' = data_size /\ linksTab' = linksTab
      /\ parent' = parent /\ next' = next /\ output' = output
  BY DEF LinkBeyond, Downloaded, vars, got
<1>2. \/ pc' = pc /\ result' = result
      \/ pc = "get" /\ pc' = "done" /\ result' = "not found"
      \/ pc = "get" /\ pc' = "done" /\ result' = "downloaded" /\ next = parent.nbLinks
  BY DEF LinkBeyond, Downloaded, Done, vars
<1>3. TypeOK'
  BY <1>1, <1>2 DEF TypeOK
<1>4. \A i : ChunkAt(i)' = ChunkAt(i) /\ Covered(i)' = Covered(i)
  BY <1>1, SameFile
<1>5. get_number_of_blocks(Len(file))' = get_number_of_blocks(Len(file))
  BY <1>1
<1>6. ChunksInv'
  BY <1>1, <1>2, <1>4, <1>5 DEF ChunksInv
<1>7. ParentInv'
  BY <1>1, <1>2, <1>4, <1>5 DEF ParentInv, NoParent
<1>8. pc = "get" /\ next = parent.nbLinks => Covered(next) = Len(file)
  BY AllCovered DEF ParentInv
<1>9. OutputInv'
  BY <1>1, <1>2, <1>4, <1>8 DEF OutputInv
<1> QED
  BY <1>3, <1>6, <1>7, <1>9

THEOREM Invariance == Spec => []Inv
<1>1. Inv /\ [Next]_vars => Inv'
  BY AddFileInv, CreateChunkInv, CreateParentInv, GetChunkInv, EndInv DEF Next
<1> QED
  BY <1>1, InitInv, PTL DEF Spec
-----------------------------------------------------------------------------
(* Theorems.                                                               *)

\* Type correctness, for every block size, number of links and file.
THEOREM ChunkingTypeCorrect == Spec => []TypeOK
<1>1. Inv => TypeOK
  BY DEF Inv
<1> QED
  BY <1>1, Invariance, PTL

\* What is written is always a prefix of the file, and a file that was
\* downloaded is the file that was added (dag.c:24-44, tnfs.c:86-91): whatever
\* the last chunk holds, also when it is empty.
THEOREM RoundTripHolds == Spec => []RoundTrip
<1>1. Inv => RoundTrip
  <2> SUFFICES ASSUME Inv PROVE RoundTrip
    OBVIOUS
  <2> USE DEF Inv
  <2>1. /\ file \in Seq(Bytes) /\ Len(file) \in Nat /\ next \in Nat
        /\ output = SubSeq(file, 1, Covered(next))
        /\ result = "downloaded" => Covered(next) = Len(file)
    BY FileType DEF TypeOK, OutputInv
  <2>2. Covered(next) \in 0..Len(file)
    BY <2>1, CoveredFacts
  <2>3. Len(output) = Covered(next)
    BY <2>1, <2>2
  <2>4. SubSeq(file, 1, Len(file)) = file
    BY <2>1
  <2> QED
    BY <2>1, <2>2, <2>3, <2>4 DEF RoundTrip
<1> QED
  BY <1>1, Invariance, PTL
-----------------------------------------------------------------------------
(* The hash.  A state of it is described by the message M it will be of,   *)
(* padding included: what was compressed are chunks of M, one after the    *)
(* other; what waits comes after them, and then what is written next.      *)

\* The chunks in h are those that M, a sequence of E, begins with.
Compressed(h, M, E) ==
    /\ h \in Seq(Seq(E))
    /\ Len(h) * CHUNK <= Len(M)
    /\ \A i \in 1..Len(h) : /\ Len(h[i]) = CHUNK
                            /\ \A j \in 1..CHUNK : h[i][j] = M[(i - 1) * CHUNK + j]

\* The bytes d come in M after place n.
Ahead(d, n, M, E) ==
    /\ d \in Seq(E)
    /\ n + Len(d) <= Len(M)
    /\ \A j \in 1..Len(d) : d[j] = M[n + j]

StateType(E) == [h : Seq(Seq(E)), chunk : Seq(E), space_left : Nat, total_len : Nat]

\* The place that a state of the hash has reached.
Reached(s) == Len(s.h) * CHUNK + Len(s.chunk)

Gathered(s, M, E) ==
    /\ s \in StateType(E)
    /\ Compressed(s.h, M, E)
    /\ Ahead(s.chunk, Len(s.h) * CHUNK, M, E)
    /\ Len(s.chunk) < CHUNK /\ s.space_left = CHUNK - Len(s.chunk)

LEMMA Places ==
    ASSUME NEW k \in Nat
    PROVE  /\ k * CHUNK \in Nat /\ (k + 1) * CHUNK = k * CHUNK + CHUNK
           /\ \A i \in 1..k : (i - 1) * CHUNK \in Nat /\ (i - 1) * CHUNK + CHUNK <= k * CHUNK
<1>1. CHUNK \in Nat
  BY Sha256Assumption
<1>2. \A n \in Nat : n * CHUNK \in Nat
  BY <1>1, SMT
<1>3. (k + 1) * CHUNK = k * CHUNK + CHUNK
  BY <1>1, SMT
<1>4. ASSUME NEW i \in 1..k
      PROVE  (i - 1) * CHUNK + CHUNK <= k * CHUNK
  <2> DEFINE d == k - i
  <2>1. d \in Nat /\ i - 1 \in Nat /\ d * CHUNK \in Nat /\ (i - 1) * CHUNK \in Nat
    BY <1>2
  <2>2. k * CHUNK = (i - 1) * CHUNK + CHUNK + d * CHUNK
    BY <1>1, SMT
  <2> HIDE DEF d
  <2>3. QED
    BY <1>1, <2>1, <2>2
<1>5. QED
  BY <1>2, <1>3, <1>4

\* One more chunk.
LEMMA CompressedMore ==
    ASSUME NEW E, NEW M \in Seq(E), NEW h, NEW c, Compressed(h, M, E),
           Ahead(c, Len(h) * CHUNK, M, E), Len(c) = CHUNK
    PROVE  /\ Compressed(consume_chunk(h, c), M, E)
           /\ Len(consume_chunk(h, c)) * CHUNK = Len(h) * CHUNK + CHUNK
<1> DEFINE g == Append(h, c)
           k == Len(h)
<1>1. h \in Seq(Seq(E)) /\ k \in Nat /\ CHUNK \in Nat /\ c \in Seq(E) /\ Len(M) \in Nat
  BY Sha256Assumption DEF Compressed, Ahead
<1>2. /\ g \in Seq(Seq(E)) /\ Len(g) = k + 1
      /\ \A i \in 1..k : g[i] = h[i]
      /\ g[k + 1] = c
  BY <1>1
<1> HIDE DEF g, k
<1>3. k * CHUNK \in Nat /\ (k + 1) * CHUNK = k * CHUNK + CHUNK
  BY <1>1, Places
<1>4. (k + 1) * CHUNK <= Len(M)
  BY <1>3 DEF Ahead, k
<1>5. ASSUME NEW i \in 1..(k + 1)
      PROVE  Len(g[i]) = CHUNK /\ \A j \in 1..CHUNK : g[i][j] = M[(i - 1) * CHUNK + j]
  <2>1. CASE i = k + 1
    <3>1. g[i] = c /\ i - 1 = k
      BY <1>1, <1>2, <2>1
    <3>2. \A j \in 1..CHUNK : c[j] = M[k * CHUNK + j]
      BY DEF Ahead, k
    <3>3. (i - 1) * CHUNK = k * CHUNK
      BY <3>1
    <3> DEFINE z == (i - 1) * CHUNK
    <3> HIDE DEF z
    <3>4. \A j \in 1..CHUNK : c[j] = M[z + j]
      BY <3>2, <3>3 DEF z
    <3>5. Len(g[i]) = CHUNK /\ \A j \in 1..CHUNK : g[i][j] = M[z + j]
      BY <3>1, <3>4
    <3>6. QED
      BY <3>5 DEF z
  <2>2. CASE i # k + 1
    <3>1. k \in Nat
      BY <1>1
    <3>2. i \in 1..k
      BY <3>1, <2>2
    <3>3. g[i] = h[i]
      BY <1>2, <3>2
    <3>4. QED
      BY <3>2, <3>3 DEF Compressed, k
  <2>3. QED
    BY <2>1, <2>2
<1>6. Compressed(g, M, E)
  BY <1>2, <1>4, <1>5 DEF Compressed
<1>7. QED
  BY <1>2, <1>3, <1>6 DEF consume_chunk, g, k

LEMMA AheadBoth ==
    ASSUME NEW E, NEW M, NEW n \in Nat, NEW c, NEW d,
           Ahead(c, n, M, E), Ahead(d, n + Len(c), M, E)
    PROVE  /\ Ahead(c \o d, n, M, E) /\ Len(c \o d) = Len(c) + Len(d)
<1> DEFINE y == c \o d
           N == Len(c)
           K == Len(d)
<1>1. c \in Seq(E) /\ d \in Seq(E)
  BY DEF Ahead
<1>2. N \in Nat /\ K \in Nat
  BY <1>1
<1>3. y \in Seq(E) /\ Len(y) = N + K
      /\ \A i \in 1..(N + K) : y[i] = IF i <= N THEN c[i] ELSE d[i - N]
  BY <1>1, ConcatProperties
<1> HIDE DEF y, N, K
<1>4. ASSUME NEW i \in 1..(N + K)
      PROVE  y[i] = M[n + i]
  <2>1. CASE i <= N
    <3>1. i \in 1..N /\ y[i] = c[i]
      BY <1>2, <1>3, <2>1
    <3>2. c[i] = M[n + i]
      BY <3>1 DEF Ahead, N
    <3>3. QED
      BY <3>1, <3>2
  <2>2. CASE ~(i <= N)
    <3>1. i - N \in 1..K /\ y[i] = d[i - N] /\ (n + N) + (i - N) = n + i
      BY <1>2, <1>3, <2>2
    <3>2. d[i - N] = M[(n + N) + (i - N)]
      BY <3>1 DEF Ahead, N, K
    <3>3. QED
      BY <3>1, <3>2
  <2>3. QED
    BY <2>1, <2>2
<1>5. n + (N + K) <= Len(M)
  <2>1. (n + N) + K <= Len(M)
    BY DEF Ahead, N, K
  <2>2. (n + N) + K = n + (N + K)
    BY <1>2
  <2>3. QED
    BY <2>1, <2>2
<1>6. Ahead(y, n, M, E)
  BY <1>3, <1>4, <1>5 DEF Ahead
<1>7. QED
  BY <1>3, <1>6 DEF y, N, K

LEMMA AheadPart ==
    ASSUME NEW E, NEW M \in Seq(E), NEW n \in Nat, NEW d, Ahead(d, n, M, E), NEW k \in 0..Len(d)
    PROVE  /\ Ahead(SubSeq(d, 1, k), n, M, E) /\ Len(SubSeq(d, 1, k)) = k
           /\ Ahead(From(d, k + 1), n + k, M, E) /\ Len(From(d, k + 1)) = Len(d) - k
<1> DEFINE K == Len(d)
           p == SubSeq(d, 1, k)
           q == SubSeq(d, k + 1, K)
<1>1. d \in Seq(E) /\ n + K <= Len(M) /\ \A j \in 1..K : d[j] = M[n + j]
  BY DEF Ahead
<1>2. K \in Nat /\ Len(M) \in Nat /\ k \in 0..K /\ k \in Int /\ K \in Int /\ k + 1 \in Int
  BY <1>1
<1>3. \A i \in 1..K : d[i] \in E
  BY <1>1
<1> HIDE DEF K
<1>4. p \in Seq(E) /\ Len(p) = k /\ \A i \in 1..k : p[i] = d[i]
  <2>1. /\ p \in Seq(E) /\ Len(p) = IF 1 <= k THEN k - 1 + 1 ELSE 0
        /\ \A i \in 1..(k - 1 + 1) : p[i] = d[1 + i - 1]
    <3>1. \A i \in 1..k : d[i] \in E
      BY <1>2, <1>3
    <3>2. 1 \in Int
      OBVIOUS
    <3>3. QED
      BY <1>2, <3>1, <3>2, SubSeqProperties
  <2> HIDE DEF p
  <2>2. k - 1 + 1 = k /\ \A i \in Int : 1 + i - 1 = i
    BY <1>2
  <2>3. QED
    BY <1>2, <2>1, <2>2
<1>5. q \in Seq(E) /\ Len(q) = K - k /\ \A i \in 1..(K - k) : q[i] = d[k + i]
  <2>1. /\ q \in Seq(E) /\ Len(q) = IF k + 1 <= K THEN K - (k + 1) + 1 ELSE 0
        /\ \A i \in 1..(K - (k + 1) + 1) : q[i] = d[(k + 1) + i - 1]
    <3>1. \A i \in (k + 1)..K : d[i] \in E
      BY <1>2, <1>3
    <3>3. QED
      BY <1>2, <3>1, SubSeqProperties
  <2> HIDE DEF q
  <2>2. K - (k + 1) + 1 = K - k /\ \A i \in Int : (k + 1) + i - 1 = k + i
    BY <1>2
  <2>3. QED
    BY <1>2, <2>1, <2>2
<1> HIDE DEF p, q
<1>6. Ahead(p, n, M, E)
  BY <1>1, <1>2, <1>4 DEF Ahead
<1>7. Ahead(q, n + k, M, E)
  <2>1. ASSUME NEW i \in 1..(K - k)
        PROVE  q[i] = M[(n + k) + i]
    <3>1. k + i \in 1..K /\ n + (k + i) = (n + k) + i
      BY <1>2
    <3>2. q[i] = d[k + i] /\ d[k + i] = M[n + (k + i)]
      BY <1>1, <1>5, <3>1
    <3>3. QED
      BY <3>1, <3>2
  <2>2. (n + k) + (K - k) <= Len(M)
    BY <1>1, <1>2
  <2>3. QED
    BY <1>5, <2>1, <2>2 DEF Ahead
<1>8. QED
  BY <1>4, <1>5, <1>6, <1>7 DEF p, q, K, From

LEMMA NothingAhead ==
    ASSUME NEW E, NEW M \in Seq(E), NEW n \in Nat, n <= Len(M)
    PROVE  Ahead(<<>>, n, M, E)
<1>1. <<>> \in Seq(E) /\ Len(<<>>) = 0
  OBVIOUS
<1>2. n + 0 <= Len(M)
  OBVIOUS
<1>3. QED
  BY <1>1, <1>2 DEF Ahead

\* A turn of the loop of sha_256_write, wherever the chunk of the state and
\* the data end.
LEMMA TurnGathers ==
    ASSUME NEW E, NEW M \in Seq(E), NEW st, Gathered(st.s, M, E),
           Ahead(st.data, Reached(st.s), M, E)
    PROVE  LET w == WriteTurn(st)
           IN  /\ Gathered(w.s, M, E) /\ Ahead(w.data, Reached(w.s), M, E)
               /\ Reached(w.s) + Len(w.data) = Reached(st.s) + Len(st.data)
               /\ w.s.total_len = st.s.total_len
               /\ st.data # <<>> => Len(w.data) < Len(st.data)
<1> DEFINE s == st.s
           d == st.data
           w == WriteTurn(st)
           B == Len(s.h) * CHUNK
           r == Len(s.chunk)
           K == Len(d)
           n == Minimum(K, s.space_left)
           some == SubSeq(d, 1, n)
           rest == From(d, n + 1)
           full == s.chunk \o some
<1>1. /\ s \in StateType(E) /\ Compressed(s.h, M, E) /\ Ahead(s.chunk, B, M, E)
      /\ r < CHUNK /\ s.space_left = CHUNK - r
      /\ Ahead(d, B + r, M, E)
  BY DEF Gathered, Reached
<1>2. /\ CHUNK \in Nat /\ Len(M) \in Nat
      /\ d \in Seq(E) /\ s.chunk \in Seq(E) /\ s.h \in Seq(Seq(E))
      /\ s.total_len \in Nat /\ s = [h |-> s.h, chunk |-> s.chunk, space_left |-> s.space_left,
                                     total_len |-> s.total_len]
  BY <1>1, Sha256Assumption DEF Ahead, StateType
<1>3. r \in Nat /\ K \in Nat /\ B \in Nat /\ (d # <<>> => K # 0)
  <2>1. Len(s.h) \in Nat
    BY <1>2
  <2>2. B \in Nat
    BY <2>1, Places
  <2>3. QED
    BY <1>2, <2>2
<1>4. CASE d = <<>>
  <2>1. w = st
    BY <1>4 DEF WriteTurn
  <2>2. QED
    BY <1>4, <2>1
<1>5. CASE d # <<>>
  <2>1. w = [s    |-> IF s.space_left = CHUNK /\ K >= CHUNK
                      THEN [s EXCEPT !.h = consume_chunk(@, some)]
                      ELSE IF s.space_left = n
                      THEN [s EXCEPT !.h = consume_chunk(@, full), !.chunk = <<>>,
                                     !.space_left = CHUNK]
                      ELSE [s EXCEPT !.chunk = full, !.space_left = @ - n],
             data |-> rest]
    BY <1>5 DEF WriteTurn
  <2> HIDE DEF w
  <2>2. /\ n \in 1..K /\ n <= CHUNK - r
        /\ s.space_left = CHUNK /\ K >= CHUNK => r = 0 /\ n = CHUNK
        /\ s.space_left # n => n < CHUNK - r
        /\ B + r \in Nat
    <3> HIDE DEF r, K, B
    <3>1. QED
      BY <1>1, <1>2, <1>3, <1>5 DEF Minimum
  <2> HIDE DEF n, r, B
  <2>3. /\ Ahead(some, B + r, M, E) /\ Len(some) = n
        /\ Ahead(rest, B + r + n, M, E) /\ Len(rest) = K - n
    <3> DEFINE p == B + r
    <3>1. n \in 0..Len(d) /\ p \in Nat /\ Ahead(d, p, M, E)
      BY <1>1, <2>2
    <3> HIDE DEF p
    <3>2. /\ Ahead(some, p, M, E) /\ Len(some) = n
          /\ Ahead(rest, p + n, M, E) /\ Len(rest) = Len(d) - n
      <4>1. \A k \in 0..Len(d) :
              /\ Ahead(SubSeq(d, 1, k), p, M, E) /\ Len(SubSeq(d, 1, k)) = k
              /\ Ahead(From(d, k + 1), p + k, M, E) /\ Len(From(d, k + 1)) = Len(d) - k
        <5>1. \A e : Ahead(e, p, M, E) => \A k \in 0..Len(e) :
                /\ Ahead(SubSeq(e, 1, k), p, M, E) /\ Len(SubSeq(e, 1, k)) = k
                /\ Ahead(From(e, k + 1), p + k, M, E) /\ Len(From(e, k + 1)) = Len(e) - k
          <6>1. p \in Nat /\ M \in Seq(E)
            BY <3>1
          <6>2. QED
            BY <6>1, AheadPart
        <5>2. QED
          BY <3>1, <5>1
      <4>2. QED
        BY <3>1, <4>1
    <3>3. QED
      BY <3>2 DEF p
  <2> HIDE DEF some, rest
  <2>4. Ahead(full, B, M, E) /\ Len(full) = r + n
    <3>1. Ahead(some, B + Len(s.chunk), M, E) /\ Len(s.chunk) = r
      BY <2>3 DEF r
    <3>2. Ahead(s.chunk, B, M, E) /\ B \in Nat
      BY <1>1, <1>3
    <3>3. \A x, y : Ahead(x, B, M, E) /\ Ahead(y, B + Len(x), M, E) =>
                     Ahead(x \o y, B, M, E) /\ Len(x \o y) = Len(x) + Len(y)
      BY <3>2, AheadBoth
    <3>3a. Ahead(full, B, M, E) /\ Len(full) = Len(s.chunk) + Len(some)
      BY <3>1, <3>2, <3>3, Zenon
    <3>4. QED
      BY <2>3, <3>1, <3>3a
  <2> HIDE DEF full, K
  <2>5. w.data = rest /\ Len(w.data) = K - n
    BY <2>1, <2>3
  <2>6. /\ Gathered(w.s, M, E) /\ Reached(w.s) = B + r + n
        /\ w.s.total_len = s.total_len
    <3>1. CASE s.space_left = CHUNK /\ K >= CHUNK
      <4> DEFINE h == consume_chunk(s.h, some)
      <4>1. r = 0 /\ n = CHUNK /\ B + r = B
        BY <1>3, <2>2, <3>1
      <4>2. Compressed(h, M, E) /\ Len(h) * CHUNK = B + CHUNK
        BY <1>1, <2>3, <4>1, CompressedMore DEF B
      <4>3. w.s = [s EXCEPT !.h = h]
        BY <2>1, <3>1
      <4> HIDE DEF h
      <4>4. w.s = [h |-> h, chunk |-> s.chunk, space_left |-> CHUNK, total_len |-> s.total_len]
        BY <1>2, <3>1, <4>3
      <4>5. s.chunk = <<>> /\ Len(s.chunk) = 0
        BY <1>2, <4>1 DEF r
      <4>6. Len(h) * CHUNK \in Nat /\ Len(h) * CHUNK <= Len(M) /\ h \in Seq(Seq(E))
        BY <1>2, <1>3, <4>2 DEF Compressed
      <4>7. Ahead(s.chunk, Len(h) * CHUNK, M, E)
        BY <4>5, <4>6, NothingAhead
      <4>8. w.s \in StateType(E)
        BY <1>2, <4>4, <4>6 DEF StateType
      <4>9. Gathered(w.s, M, E)
        BY <1>2, <2>2, <4>1, <4>2, <4>4, <4>5, <4>7, <4>8 DEF Gathered
      <4>10. Reached(w.s) = B + r + n
        BY <1>2, <1>3, <4>1, <4>2, <4>4, <4>5 DEF Reached
      <4>11. QED
        BY <4>4, <4>9, <4>10
    <3>2. CASE ~(s.space_left = CHUNK /\ K >= CHUNK) /\ s.space_left = n
      <4> DEFINE h == consume_chunk(s.h, full)
      <4>1. r + n = CHUNK
        <5>1. n = CHUNK - r
          BY <1>1, <3>2
        <5>2. r \in Nat /\ CHUNK \in Nat
          BY <1>2, <1>3
        <5>3. QED
          BY <5>1, <5>2
      <4>2. Compressed(h, M, E) /\ Len(h) * CHUNK = B + CHUNK
        BY <1>1, <2>4, <4>1, CompressedMore DEF B
      <4>3. w.s = [s EXCEPT !.h = h, !.chunk = <<>>, !.space_left = CHUNK]
        BY <2>1, <3>2
      <4> HIDE DEF h
      <4>4. w.s = [h |-> h, chunk |-> <<>>, space_left |-> CHUNK, total_len |-> s.total_len]
        BY <1>2, <4>3
      <4>5. <<>> \in Seq(E) /\ Len(<<>>) = 0
        OBVIOUS
      <4>6. Len(h) * CHUNK \in Nat /\ Len(h) * CHUNK <= Len(M) /\ h \in Seq(Seq(E))
        BY <1>2, <1>3, <4>2 DEF Compressed
      <4>7. Ahead(<<>>, Len(h) * CHUNK, M, E)
        BY <4>6, NothingAhead
      <4>8. w.s \in StateType(E)
        BY <1>2, <4>4, <4>5, <4>6 DEF StateType
      <4>9. Gathered(w.s, M, E)
        <5>1. 0 < CHUNK /\ CHUNK = CHUNK - 0
          BY Sha256Assumption
        <5>2. QED
          BY <4>2, <4>4, <4>5, <4>7, <4>8, <5>1 DEF Gathered
      <4>10. Reached(w.s) = B + r + n
        BY <1>2, <1>3, <2>2, <4>1, <4>2, <4>4, <4>5 DEF Reached
      <4>11. QED
        BY <4>4, <4>9, <4>10
    <3>3. CASE ~(s.space_left = CHUNK /\ K >= CHUNK) /\ s.space_left # n
      <4>1. r + n < CHUNK /\ r + n \in Nat /\ CHUNK - r - n = CHUNK - (r + n)
            /\ CHUNK - (r + n) \in Nat
        BY <1>2, <1>3, <2>2, <3>3
      <4>2. w.s = [s EXCEPT !.chunk = full, !.space_left = CHUNK - r - n]
        BY <1>1, <2>1, <3>3
      <4>3. w.s = [h |-> s.h, chunk |-> full, space_left |-> CHUNK - (r + n),
                    total_len |-> s.total_len]
        BY <1>2, <4>1, <4>2
      <4>4. full \in Seq(E)
        BY <2>4 DEF Ahead
      <4>5. w.s \in StateType(E)
        BY <1>2, <4>1, <4>3, <4>4 DEF StateType
      <4>6. Gathered(w.s, M, E)
        BY <1>1, <2>4, <4>1, <4>3, <4>5 DEF Gathered, B
      <4>7. Reached(w.s) = B + r + n
        <5>1. Reached(w.s) = B + (r + n)
          BY <2>4, <4>3 DEF Reached, B
        <5>2. QED
          BY <1>3, <2>2, <5>1
      <4>8. QED
        BY <4>3, <4>6, <4>7
    <3>4. QED
      BY <3>1, <3>2, <3>3
  <2>7. Reached(s) = B + r
    BY DEF Reached, B, r
  <2>8. /\ Reached(w.s) + Len(w.data) = Reached(s) + K
        /\ K - n < K
    <3>1. B + r + n + (K - n) = B + r + K
      BY <1>3, <2>2
    <3>2. QED
      BY <1>3, <2>2, <2>5, <2>6, <2>7, <3>1
  <2>9. Ahead(w.data, Reached(w.s), M, E)
    BY <2>3, <2>5, <2>6
  <2>10. QED
    BY <2>5, <2>6, <2>8, <2>9 DEF w, K
<1>6. QED
  BY <1>4, <1>5

\* What the turns of a write leave.
Turned(E, M) ==
    {st \in [s : StateType(E), data : Seq(E)] :
        Gathered(st.s, M, E) /\ Ahead(st.data, Reached(st.s), M, E)}

LEMMA TurnedOn ==
    ASSUME NEW E, NEW M \in Seq(E), NEW st \in Turned(E, M)
    PROVE  /\ WriteTurn(st) \in Turned(E, M)
           /\ Reached(WriteTurn(st).s) + Len(WriteTurn(st).data) = Reached(st.s) + Len(st.data)
           /\ WriteTurn(st).s.total_len = st.s.total_len
           /\ st.data # <<>> => Len(WriteTurn(st).data) < Len(st.data)
<1> DEFINE w == WriteTurn(st)
<1>1. st \in [s : StateType(E), data : Seq(E)] /\ Gathered(st.s, M, E)
      /\ Ahead(st.data, Reached(st.s), M, E)
  BY DEF Turned
<1>2. /\ Gathered(w.s, M, E) /\ Ahead(w.data, Reached(w.s), M, E)
      /\ Reached(w.s) + Len(w.data) = Reached(st.s) + Len(st.data)
      /\ w.s.total_len = st.s.total_len
      /\ st.data # <<>> => Len(w.data) < Len(st.data)
  BY <1>1, TurnGathers
<1>3. w = [s |-> w.s, data |-> w.data]
  <2>1. CASE st.data = <<>>
    <3>1. w = st
      BY <2>1 DEF WriteTurn
    <3>2. QED
      BY <1>1, <3>1
  <2>2. CASE st.data # <<>>
    BY <2>2 DEF WriteTurn
  <2>3. QED
    BY <2>1, <2>2
<1> HIDE DEF w
<1>4. w \in [s : StateType(E), data : Seq(E)]
  BY <1>2, <1>3 DEF Gathered, Ahead
<1>5. w \in Turned(E, M)
  BY <1>2, <1>4 DEF Turned
<1>6. QED
  BY <1>2, <1>5 DEF w

\* A call of sha_256_write, however many turns it takes.
LEMMA WriteGathers ==
    ASSUME NEW E, NEW M \in Seq(E), NEW s, NEW data,
           Gathered(s, M, E), Ahead(data, Reached(s), M, E)
    PROVE  LET w == write_data(s, data)
           IN  /\ Gathered(w, M, E) /\ Reached(w) = Reached(s) + Len(data)
               /\ w.total_len = s.total_len
<1> DEFINE S == Turned(E, M)
           b == [s |-> s, data |-> data]
           g == [n \in Nat |-> [st \in S |-> WriteTurn(st)]]
           Is(f) == f = [n \in Nat |-> IF n = 0 THEN [s |-> s, data |-> data]
                                       ELSE WriteTurn(f[n - 1])]
           u == CHOOSE f : Is(f)
           K == Len(data)
<1>1. K \in Nat /\ data \in Seq(E) /\ Reached(s) \in Nat
  <2>1. data \in Seq(E) /\ s \in StateType(E)
    BY DEF Gathered, Ahead
  <2>2. Len(s.h) \in Nat /\ Len(s.chunk) \in Nat
    BY <2>1 DEF StateType
  <2>3. Len(s.h) * CHUNK \in Nat
    BY <2>2, Places
  <2>4. QED
    BY <2>1, <2>2, <2>3 DEF Reached
<1>2. b \in S
  <2>1. s \in StateType(E)
    BY DEF Gathered
  <2>2. QED
    BY <1>1, <2>1 DEF Turned
<1>3. \A n \in Nat : \A st \in S : g[n][st] \in S
  BY TurnedOn
<1>4. PICK F : Recursive(F, S, b, g)
  <2> HIDE DEF S, b, g
  <2>1. QED
    BY <1>2, <1>3, Recursion
<1>5. Is(F)
  <2>1. F \in [Nat -> S] /\ F[0] = b /\ \A n \in Nat \ {0} : F[n] = g[n][F[n - 1]]
    BY <1>4 DEF Recursive
  <2>2. ASSUME NEW n \in Nat \ {0}
        PROVE  F[n] = WriteTurn(F[n - 1])
    <3>1. n - 1 \in Nat /\ F[n - 1] \in S /\ F[n] = g[n][F[n - 1]]
      BY <2>1
    <3> HIDE DEF S
    <3>2. QED
      BY <3>1
  <2>3. \A n \in Nat : F[n] = IF n = 0 THEN b ELSE WriteTurn(F[n - 1])
    BY <2>1, <2>2
  <2>4. F = [n \in Nat |-> F[n]]
    BY <2>1
  <2> HIDE DEF S, g
  <2>5. QED
    BY <2>3, <2>4
<1>6. Is(u)
  BY <1>5
<1> HIDE DEF u
<1>7. u[0] = b /\ \A n \in Nat : u[n + 1] = WriteTurn(u[n])
  <2>1. u[0] = b
    BY <1>6
  <2>2. ASSUME NEW n \in Nat
        PROVE  u[n + 1] = WriteTurn(u[n])
    <3>1. n + 1 \in Nat /\ n + 1 # 0 /\ (n + 1) - 1 = n
      OBVIOUS
    <3>2. u[n + 1] = WriteTurn(u[(n + 1) - 1])
      BY <1>6, <3>1
    <3>3. QED
      BY <3>1, <3>2
  <2>3. QED
    BY <2>1, <2>2
<1> HIDE DEF S, b
<1> DEFINE T == {n \in Nat : /\ u[n] \in S
                             /\ Reached(u[n].s) + Len(u[n].data) = Reached(s) + K
                             /\ u[n].s.total_len = s.total_len
                             /\ n <= K => Len(u[n].data) <= K - n}
<1>8. 0 \in T
  <2>1. b.s = s /\ b.data = data /\ Len(b.data) <= K - 0
    BY <1>1 DEF b
  <2> HIDE DEF K
  <2>2. u[0] \in S /\ u[0].s = s /\ u[0].data = data /\ (0 <= K => Len(u[0].data) <= K - 0)
    BY <1>2, <1>7, <2>1
  <2>3. Reached(u[0].s) + Len(u[0].data) = Reached(s) + K
    BY <2>2 DEF K
  <2>4. QED
    BY <2>2, <2>3
<1>9. ASSUME NEW n \in Nat, n \in T
      PROVE  n + 1 \in T
  <2> DEFINE v == u[n]
             w == WriteTurn(v)
  <2>1. /\ v \in S /\ Reached(v.s) + Len(v.data) = Reached(s) + K
        /\ v.s.total_len = s.total_len /\ (n <= K => Len(v.data) <= K - n)
    BY <1>9
  <2>2. w \in S /\ Reached(w.s) + Len(w.data) = Reached(v.s) + Len(v.data)
        /\ w.s.total_len = v.s.total_len /\ (v.data # <<>> => Len(w.data) < Len(v.data))
    BY <2>1, TurnedOn DEF S
  <2>3. v.data \in Seq(E) /\ w.data \in Seq(E)
    BY <2>1, <2>2 DEF S, Turned
  <2>4. Len(v.data) \in Nat /\ Len(w.data) \in Nat
    BY <2>3
  <2>5. v.data = <<>> => w = v /\ Len(v.data) = 0
    BY DEF WriteTurn
  <2>6. u[n + 1] = w
    BY <1>7
  <2> HIDE DEF v, w
  <2>7. n + 1 <= K => Len(w.data) <= K - (n + 1)
    <3>1. CASE v.data = <<>>
      <4>1. w = v /\ Len(v.data) = 0
        BY <2>5, <3>1
      <4>2. QED
        BY <1>1, <4>1
    <3>2. CASE v.data # <<>>
      BY <1>1, <2>1, <2>2, <2>4, <3>2
    <3>3. QED
      BY <3>1, <3>2
  <2>8. QED
    BY <2>1, <2>2, <2>6, <2>7
<1> HIDE DEF T
<1>10. \A n \in Nat : n \in T
  BY <1>8, <1>9, SetInduction
<1>11. write_data(s, data) = u[K].s
  BY DEF write_data, u
<1>12. /\ u[K] \in S /\ Reached(u[K].s) + Len(u[K].data) = Reached(s) + K
       /\ u[K].s.total_len = s.total_len /\ Len(u[K].data) <= 0
  <2>1. K \in T
    BY <1>1, <1>10
  <2> HIDE DEF K
  <2>2. /\ u[K] \in S /\ Reached(u[K].s) + Len(u[K].data) = Reached(s) + K
        /\ u[K].s.total_len = s.total_len /\ (K <= K => Len(u[K].data) <= K - K)
    BY <2>1 DEF T
  <2>3. QED
    BY <1>1, <2>2
<1>13. Gathered(u[K].s, M, E) /\ u[K].data \in Seq(E) /\ u[K].s \in StateType(E)
  BY <1>12 DEF S, Turned
<1>14. Reached(u[K].s) = Reached(s) + K
  <2> DEFINE x == u[K]
  <2>1. Len(x.data) \in Nat /\ Len(x.data) <= 0 /\ Len(x.s.h) \in Nat /\ Len(x.s.chunk) \in Nat
    <3>1. x.data \in Seq(E) /\ x.s \in StateType(E) /\ Len(x.data) <= 0
      BY <1>12, <1>13
    <3> HIDE DEF x
    <3>2. QED
      BY <3>1 DEF StateType
  <2>2. Len(x.s.h) * CHUNK \in Nat
    BY <2>1, Places
  <2>3. Reached(x.s) \in Nat
    <3> DEFINE p == Len(x.s.h) * CHUNK
               r == Len(x.s.chunk)
    <3>1. p \in Nat /\ r \in Nat /\ Reached(x.s) = p + r
      BY <2>1, <2>2 DEF Reached
    <3> HIDE DEF p, r
    <3>2. QED
      BY <3>1
  <2>4. Reached(x.s) + Len(x.data) = Reached(s) + K
    BY <1>12
  <2> HIDE DEF x, K
  <2>5. QED
    BY <1>1, <2>1, <2>3, <2>4 DEF x
<1>15. QED
  BY <1>11, <1>12, <1>13, <1>14
-----------------------------------------------------------------------------
(* Chunks of a message, zeros, and one sequence after another.             *)

\* Dividing by the length of a chunk.
LEMMA DividedIs ==
    ASSUME NEW k \in Nat, NEW r \in 0..(CHUNK - 1)
    PROVE  /\ k * CHUNK + r \in Nat
           /\ (k * CHUNK + r) \div CHUNK = k /\ (k * CHUNK + r) % CHUNK = r
BY Sha256Assumption, SMT

LEMMA Divided ==
    ASSUME NEW n \in Nat
    PROVE  /\ n \div CHUNK \in Nat /\ n % CHUNK \in 0..(CHUNK - 1)
           /\ n = (n \div CHUNK) * CHUNK + (n % CHUNK)
           /\ n % CHUNK = 0 => n = (n \div CHUNK) * CHUNK
<1>1. CHUNK \in Nat \ {0}
  BY Sha256Assumption
<1>2. n \div CHUNK \in Nat /\ n % CHUNK \in 0..(CHUNK - 1)
  BY <1>1, SMT
<1>3. n % CHUNK = n - (n \div CHUNK) * CHUNK
  BY <1>1, SMT
<1> DEFINE x == (n \div CHUNK) * CHUNK
           r == n % CHUNK
<1>4. x \in Nat /\ r \in 0..(CHUNK - 1) /\ r = n - x
  BY <1>2, <1>3, Places
<1> HIDE DEF x, r
<1>5. n = x + r /\ (r = 0 => n = x)
  BY <1>1, <1>4
<1>6. QED
  BY <1>2, <1>5 DEF x, r

\* All of a message.
LEMMA AllCompressed ==
    ASSUME NEW E, NEW M \in Seq(E), NEW h, Compressed(h, M, E), Len(h) * CHUNK = Len(M)
    PROVE  h = InChunks(M)
<1> DEFINE k == Len(h)
           C == CHUNK
           a(i) == (i - 1) * CHUNK
<1>1. h \in Seq(Seq(E)) /\ k \in Nat /\ C \in Nat \ {0} /\ Len(M) \in Nat /\ 0 \in 0..(C - 1)
  BY Sha256Assumption DEF Compressed
<1>2. Len(M) \div CHUNK = k
  <2>1. (k * CHUNK + 0) \div CHUNK = k
    BY <1>1, DividedIs
  <2>2. k * CHUNK + 0 = Len(M)
    BY <1>1
  <2>3. QED
    BY <2>1, <2>2
<1>3. ASSUME NEW i \in 1..k
      PROVE  SubSeq(M, (i - 1) * CHUNK + 1, i * CHUNK) = h[i]
  <2> DEFINE b == (i - 1) * CHUNK
             lo == b + 1
             hi == b + C
             p == SubSeq(M, lo, hi)
             q == h[i]
  <2>1. b \in Nat /\ b + C <= Len(M) /\ i * CHUNK = b + C
    <3>1. b \in Nat /\ b + C <= k * CHUNK
      BY <1>1, Places
    <3>2. ((i - 1) + 1) * CHUNK = (i - 1) * CHUNK + CHUNK
      <4>1. i - 1 \in Nat
        OBVIOUS
      <4>2. QED
        BY <4>1, Places
    <3>3. (i - 1) + 1 = i
      OBVIOUS
    <3>4. QED
      BY <3>1, <3>2, <3>3
  <2>2. q \in Seq(E) /\ Len(q) = C /\ \A j \in 1..C : q[j] = M[b + j]
    <3>1. q \in Seq(E)
      BY <1>1
    <3>2. QED
      BY <3>1 DEF Compressed
  <2> HIDE DEF b, q, C, k
  <2>3. \A j \in 1..Len(M) : M[j] \in E
    OBVIOUS
  <2>4. p \in Seq(E) /\ Len(p) = C /\ \A j \in 1..C : p[j] = M[b + j]
    <3>1. \A j \in (b + 1)..(b + C) : M[j] \in E
      BY <1>1, <2>1, <2>3
    <3>2. b + 1 \in Int /\ b + C \in Int
      BY <1>1, <2>1
    <3>3. /\ p \in Seq(E) /\ Len(p) = IF lo <= hi THEN hi - lo + 1 ELSE 0
          /\ \A j \in 1..(hi - lo + 1) : p[j] = M[lo + j - 1]
      <4>1. lo \in Int /\ hi \in Int /\ \A j \in lo..hi : M[j] \in E
        BY <3>1, <3>2
      <4> HIDE DEF lo, hi
      <4>2. QED
        BY <4>1, SubSeqProperties
    <3> HIDE DEF p
    <3>4. b + C - (b + 1) + 1 = C /\ \A j \in Int : (b + 1) + j - 1 = b + j
      BY <1>1, <2>1
    <3>5. QED
      BY <1>1, <2>1, <3>3, <3>4
  <2> HIDE DEF p
  <2>5. p = q
    <3>1. Len(p) = Len(q) /\ \A j \in 1..Len(p) : p[j] = q[j]
      BY <2>2, <2>4
    <3>2. QED
      BY <2>2, <2>4, <3>1, SeqEqual
  <2>6. QED
    BY <2>1, <2>5 DEF p, q, b, lo, hi
<1>4. InChunks(M) = [i \in 1..k |-> h[i]]
  BY <1>2, <1>3 DEF InChunks
<1>5. h = [i \in 1..k |-> h[i]]
  BY <1>1
<1>6. QED
  BY <1>4, <1>5

\* Zeros are the first of more zeros and the rest of them.
LEMMA ZerosAre ==
    ASSUME NEW E, 0 \in E, NEW z \in Nat
    PROVE  /\ Zeros(z) \in Seq(E) /\ Len(Zeros(z)) = z
           /\ \A i \in 1..z : Zeros(z)[i] = 0
BY DEF Zeros

LEMMA ZerosPart ==
    ASSUME NEW E, 0 \in E, NEW M, NEW n \in Nat, NEW x \in Nat, NEW y \in Nat,
           Ahead(Zeros(x + y), n, M, E), Len(M) \in Nat
    PROVE  Ahead(Zeros(x), n, M, E) /\ Ahead(Zeros(y), n + x, M, E)
<1>1. x + y \in Nat
  OBVIOUS
<1>2. /\ n + (x + y) <= Len(M)
      /\ \A j \in 1..(x + y) : 0 = M[n + j]
  BY <1>1, ZerosAre DEF Ahead
<1>3. Zeros(x) \in Seq(E) /\ Len(Zeros(x)) = x /\ \A i \in 1..x : Zeros(x)[i] = 0
  BY ZerosAre
<1>4. Zeros(y) \in Seq(E) /\ Len(Zeros(y)) = y /\ \A i \in 1..y : Zeros(y)[i] = 0
  BY ZerosAre
<1>5. Ahead(Zeros(x), n, M, E)
  <2>1. ASSUME NEW j \in 1..x
        PROVE  Zeros(x)[j] = M[n + j]
    <3>1. j \in 1..(x + y)
      OBVIOUS
    <3>2. QED
      BY <1>2, <1>3, <3>1
  <2>2. n + x <= Len(M)
    BY <1>2
  <2>3. QED
    BY <1>3, <2>1, <2>2 DEF Ahead
<1>6. ASSUME NEW j \in 1..y
      PROVE  Zeros(y)[j] = M[(n + x) + j]
  <2>1. x + j \in 1..(x + y) /\ n + (x + j) = (n + x) + j
    OBVIOUS
  <2>2. M[n + (x + j)] = 0
    BY <1>2, <2>1
  <2>3. QED
    BY <1>4, <2>1, <2>2
<1>7. (n + x) + y <= Len(M)
  BY <1>2
<1>8. Ahead(Zeros(y), n + x, M, E)
  BY <1>4, <1>6, <1>7 DEF Ahead
<1>9. QED
  BY <1>5, <1>8

\* A concatenation has its parts, one after the other.
LEMMA ConcatAhead ==
    ASSUME NEW E, NEW c \in Seq(E), NEW d \in Seq(E)
    PROVE  /\ c \o d \in Seq(E) /\ Len(c \o d) = Len(c) + Len(d)
           /\ Ahead(d, Len(c), c \o d, E)
           /\ \A e : \A n \in Nat : Ahead(e, n, c, E) => Ahead(e, n, c \o d, E)
<1> DEFINE y == c \o d
           N == Len(c)
           K == Len(d)
<1>1. y \in Seq(E) /\ Len(y) = N + K
      /\ \A i \in 1..(N + K) : y[i] = IF i <= N THEN c[i] ELSE d[i - N]
  BY ConcatProperties
<1>2. N \in Nat /\ K \in Nat
  OBVIOUS
<1>3. Ahead(d, N, y, E)
  <2> HIDE DEF y, N
  <2>1. ASSUME NEW j \in 1..K
        PROVE  d[j] = y[N + j]
    <3>1. N + j \in 1..(N + K) /\ ~(N + j <= N) /\ (N + j) - N = j
      BY <1>2
    <3> HIDE DEF K
    <3>2. y[N + j] = d[(N + j) - N]
      BY <1>1, <3>1
    <3>3. QED
      BY <3>1, <3>2
  <2>2. N + K <= Len(y)
    BY <1>1, <1>2
  <2>3. QED
    BY <2>1, <2>2 DEF Ahead
<1> HIDE DEF y, K
<1>4. ASSUME NEW e, NEW n \in Nat, Ahead(e, n, c, E)
      PROVE  Ahead(e, n, y, E)
  <2> DEFINE Q == Len(e)
  <2>1. e \in Seq(E) /\ n + Q <= N /\ \A j \in 1..Q : e[j] = c[n + j]
    BY <1>4 DEF Ahead
  <2>2. Q \in Nat
    BY <2>1
  <2> HIDE DEF N, Q
  <2>3. ASSUME NEW j \in 1..Q
        PROVE  e[j] = y[n + j]
    <3>1. n + j \in 1..(N + K) /\ n + j <= N
      BY <1>2, <2>1, <2>2
    <3>2. QED
      BY <1>1, <2>1, <3>1
  <2>4. n + Q <= Len(y)
    BY <1>1, <1>2, <2>1, <2>2
  <2>5. QED
    BY <2>1, <2>3, <2>4 DEF Ahead, Q
<1>5. QED
  BY <1>1, <1>3, <1>4 DEF y, N, K
-----------------------------------------------------------------------------
(* The length, byte by byte.                                               *)

LEMMA Power256Is ==
    /\ Power256 \in [Nat -> Nat \ {0}] /\ Power256[0] = 1
    /\ \A k \in Nat : Power256[k + 1] = 256 * Power256[k]
<1> DEFINE b == 1
           S == Nat \ {0}
           g == [k \in Nat |-> [n \in S |-> 256 * n]]
           Is(f) == f = [k \in Nat |-> IF k = 0 THEN 1 ELSE 256 * f[k - 1]]
<1>1. b \in S /\ \A k \in Nat : \A n \in S : g[k][n] \in S
  OBVIOUS
<1>2. PICK F : Recursive(F, S, b, g)
  <2> HIDE DEF b, g, S
  <2>1. QED
    BY <1>1, Recursion
<1>3. F \in [Nat -> S] /\ F[0] = 1 /\ \A k \in Nat \ {0} : F[k] = 256 * F[k - 1]
  <2>1. ASSUME NEW k \in Nat \ {0}
        PROVE  F[k] = 256 * F[k - 1]
    <3>1. k - 1 \in Nat /\ F[k - 1] \in S /\ F[k] = g[k][F[k - 1]]
      BY <1>2 DEF Recursive
    <3>2. QED
      BY <3>1
  <2>2. QED
    BY <1>2, <2>1 DEF Recursive
<1>4. Is(F)
  BY <1>3
<1>5. Is(CHOOSE f : Is(f))
  BY <1>4
<1>6. Is(Power256)
  BY <1>5 DEF Power256
<1>7. Power256[0] = 1 /\ \A k \in Nat \ {0} : Power256[k] = 256 * Power256[k - 1]
  BY <1>6
<1>8. \A k \in Nat : Power256[k + 1] = 256 * Power256[k]
  <2>1. ASSUME NEW k \in Nat
        PROVE  Power256[k + 1] = 256 * Power256[k]
    <3>1. k + 1 \in Nat \ {0} /\ (k + 1) - 1 = k
      OBVIOUS
    <3>2. QED
      BY <1>7, <3>1
  <2>2. QED
    BY <2>1
<1> DEFINE T == {k \in Nat : Power256[k] \in Nat \ {0}}
<1>9. 0 \in T
  BY <1>7
<1>10. ASSUME NEW k \in Nat, k \in T
       PROVE  k + 1 \in T
  <2>1. Power256[k + 1] = 256 * Power256[k] /\ Power256[k] \in Nat \ {0}
    BY <1>8, <1>10
  <2>2. QED
    BY <2>1
<1>11. \A k \in Nat : k \in T
  <2> HIDE DEF T
  <2>1. QED
    BY <1>9, <1>10, SetInduction
<1>12. Power256 = [k \in Nat |-> Power256[k]]
  BY <1>6
<1>13. Power256 \in [Nat -> Nat \ {0}]
  BY <1>11, <1>12
<1>14. QED
  BY <1>7, <1>8, <1>13

LEMMA DivIs ==
    ASSUME NEW c \in Nat \ {0}, NEW k \in Nat, NEW r \in 0..(c - 1), NEW x, x = k * c + r
    PROVE  x \div c = k
BY SMT

LEMMA DivDiv ==
    ASSUME NEW x \in Nat, NEW a \in Nat \ {0}
    PROVE  x \div a \in Nat /\ (x \div a) \div 256 = x \div (256 * a)
<1> DEFINE q == x \div a
           r == x % a
           p == q \div 256
           s == q % 256
<1>1. q \in Nat /\ r \in 0..(a - 1)
  BY SMT
<1>2. x = q * a + r
  <2>1. r = x - q * a
    BY SMT
  <2>2. q * a \in Nat
    BY <1>1, SMT
  <2> DEFINE z == q * a
  <2>3. z \in Nat /\ r = x - z
    BY <2>1, <2>2
  <2> HIDE DEF z, r
  <2>4. x = z + r
    BY <1>1, <2>3
  <2>5. QED
    BY <2>4 DEF z
<1> HIDE DEF q, r
<1>3. p \in Nat /\ s \in 0..255 /\ q = p * 256 + s
  BY <1>1, SMT
<1> HIDE DEF p, s
<1>4. s * a \in Nat /\ s * a <= 255 * a
  BY <1>3, SMT
<1>5. q * a = p * (256 * a) + s * a
  <2>1. q * a = (p * 256 + s) * a
    BY <1>3
  <2>2. (p * 256 + s) * a = p * (256 * a) + s * a
    BY <1>3, SMT
  <2>3. QED
    BY <2>1, <2>2
<1> DEFINE t == s * a + r
           c == 256 * a
<1>6. t \in 0..(c - 1) /\ c \in Nat \ {0}
  <2> DEFINE v == s * a
  <2>1. v \in Nat /\ v <= 255 * a /\ t = v + r
    BY <1>4
  <2> HIDE DEF v, t
  <2>2. QED
    BY <1>1, <2>1
<1>7. x = p * c + t
  <2> DEFINE v == s * a
             w == p * c
  <2>1. w \in Nat /\ v \in Nat
    BY <1>3, <1>4, SMT
  <2>2. x = (w + v) + r
    BY <1>2, <1>5
  <2> HIDE DEF v, w
  <2>3. x = w + (v + r)
    BY <1>1, <2>1, <2>2
  <2>4. QED
    BY <2>3 DEF v, w
<1> HIDE DEF t, c
<1>8. x \div c = p
  BY <1>3, <1>6, <1>7, DivIs
<1>9. QED
  BY <1>1, <1>8 DEF p, q, c

\* The bytes of the length are what the standard says they are, however many
\* (sha-256.c:206-222).
LEMMA LengthBytes ==
    ASSUME NEW len \in Nat
    PROVE  length_bytes(len) = BigEndian(8 * len)
<1> DEFINE b == len \div 32
           g == [k \in Nat |-> [n \in Nat |-> n \div 256]]
           Is(f) == f = [n \in Nat |-> IF n = 0 THEN len \div 32 ELSE f[n - 1] \div 256]
           left == CHOOSE f : Is(f)
           x == 8 * len
           P == Power256
<1>1. b \in Nat /\ \A k \in Nat : \A n \in Nat : g[k][n] \in Nat
  <2>1. \A n \in Nat : n \div 256 \in Nat
    BY SMT
  <2>2. b \in Nat
    BY SMT
  <2>3. QED
    BY <2>1, <2>2
<1>2. PICK F : Recursive(F, Nat, b, g)
  <2> HIDE DEF b, g
  <2>1. QED
    BY <1>1, Recursion
<1>3. F \in [Nat -> Nat] /\ F[0] = b /\ \A k \in Nat \ {0} : F[k] = F[k - 1] \div 256
  <2>1. ASSUME NEW k \in Nat \ {0}
        PROVE  F[k] = F[k - 1] \div 256
    <3>1. k - 1 \in Nat /\ F[k - 1] \in Nat /\ F[k] = g[k][F[k - 1]]
      BY <1>2 DEF Recursive
    <3>2. QED
      BY <3>1
  <2>2. QED
    BY <1>2, <2>1 DEF Recursive
<1>4. Is(F)
  BY <1>3
<1>5. Is(left)
  BY <1>4
<1> HIDE DEF left
<1>6. left[0] = len \div 32 /\ \A n \in Nat : left[n + 1] = left[n] \div 256
  <2>1. left[0] = len \div 32 /\ \A n \in Nat \ {0} : left[n] = left[n - 1] \div 256
    BY <1>5
  <2>2. ASSUME NEW n \in Nat
        PROVE  left[n + 1] = left[n] \div 256
    <3>1. n + 1 \in Nat \ {0} /\ (n + 1) - 1 = n
      OBVIOUS
    <3>2. QED
      BY <2>1, <3>1
  <2>3. QED
    BY <2>1, <2>2
<1> HIDE DEF x
<1>7. x \in Nat
  BY DEF x
<1> DEFINE T == {n \in Nat : left[n] = x \div P[n + 1]}
<1>8. 0 \in T
  <2>1. P[0 + 1] = 256
    <3>1. 0 \in Nat /\ P[0] = 1 /\ P[0 + 1] = 256 * P[0]
      BY Power256Is
    <3>2. QED
      BY <3>1
  <2>2. len \div 32 = (8 * len) \div 256
    BY SMT
  <2>3. QED
    BY <1>6, <2>1, <2>2 DEF x
<1>9. ASSUME NEW n \in Nat, n \in T
      PROVE  n + 1 \in T
  <2> DEFINE a == P[n + 1]
  <2>1. a \in Nat \ {0} /\ P[(n + 1) + 1] = 256 * a
    BY Power256Is
  <2>2. left[n] = x \div a /\ left[n + 1] = left[n] \div 256
    BY <1>6, <1>9
  <2> HIDE DEF a
  <2>3. (x \div a) \div 256 = x \div (256 * a)
    BY <1>7, <2>1, DivDiv, ZenonT(60)
  <2> DEFINE d == P[(n + 1) + 1]
             c == 256 * a
             q == x \div a
             l == left[n + 1]
  <2>4. d = c /\ l = q \div 256 /\ q \div 256 = x \div c
    BY <2>1, <2>2, <2>3
  <2> HIDE DEF d, c, q, l
  <2>4a. l = x \div d
    BY <2>4
  <2>5. QED
    BY <2>4a DEF l, d
<1>10. \A n \in Nat : n \in T
  <2> HIDE DEF T
  <2>1. QED
    BY <1>8, <1>9, SetInduction
<1>11. \A n \in Nat : left[n] = x \div P[n + 1]
  BY <1>10
<1>12. TOTAL_LEN_LEN \in Nat \ {0}
  BY Sha256Assumption
<1> DEFINE byte(i) == IF i = TOTAL_LEN_LEN THEN (len * 8) % 256
                      ELSE left[TOTAL_LEN_LEN - 1 - i] % 256
<1>13. length_bytes(len) = [i \in 1..TOTAL_LEN_LEN |-> byte(i)]
  BY DEF length_bytes, left
<1>14. ASSUME NEW i \in 1..TOTAL_LEN_LEN
       PROVE  byte(i) = (x \div P[TOTAL_LEN_LEN - i]) % 256
  <2>1. CASE i = TOTAL_LEN_LEN
    <3>1. P[TOTAL_LEN_LEN - i] = 1
      <4>1. TOTAL_LEN_LEN - i = 0
        BY <1>12, <2>1
      <4>2. QED
        BY <4>1, Power256Is
    <3>2. x \div 1 = x
      BY <1>7, SMT
    <3>3. x = len * 8
      BY DEF x
    <3>4. QED
      BY <2>1, <3>1, <3>2, <3>3
  <2>2. CASE i # TOTAL_LEN_LEN
    <3> DEFINE n == TOTAL_LEN_LEN - 1 - i
    <3>1. n \in Nat /\ n + 1 = TOTAL_LEN_LEN - i
      BY <1>12, <2>2
    <3>2. byte(i) = left[n] % 256
      BY <2>2
    <3> HIDE DEF n
    <3>3. left[n] = x \div P[TOTAL_LEN_LEN - i]
      BY <1>11, <3>1
    <3>4. QED
      BY <3>2, <3>3
  <2>3. QED
    BY <2>1, <2>2
<1> HIDE DEF byte
<1>15. length_bytes(len) = [i \in 1..TOTAL_LEN_LEN |-> (x \div P[TOTAL_LEN_LEN - i]) % 256]
  BY <1>13, <1>14
<1>16. QED
  BY <1>15 DEF BigEndian, x

\* Every byte is in E.
Octets(E) == 0..255 \subseteq E

LEMMA BigEndianType ==
    ASSUME NEW E, Octets(E), NEW n \in Nat
    PROVE  BigEndian(n) \in Seq(E) /\ Len(BigEndian(n)) = TOTAL_LEN_LEN
<1>1. TOTAL_LEN_LEN \in Nat
  BY Sha256Assumption
<1>2. ASSUME NEW i \in 1..TOTAL_LEN_LEN
      PROVE  (n \div Power256[TOTAL_LEN_LEN - i]) % 256 \in 0..255
  <2> DEFINE a == Power256[TOTAL_LEN_LEN - i]
             q == n \div a
  <2>1. a \in Nat \ {0}
    <3>1. TOTAL_LEN_LEN - i \in Nat
      BY <1>1
    <3>2. QED
      BY <3>1, Power256Is
  <2> HIDE DEF a
  <2>2. q \in Nat
    BY <2>1, DivDiv
  <2> HIDE DEF q
  <2>3. q % 256 \in 0..255
    BY <2>2, SMT
  <2>4. QED
    BY <2>3 DEF q, a
<1> DEFINE byte(i) == (n \div Power256[TOTAL_LEN_LEN - i]) % 256
<1>3. \A i \in 1..TOTAL_LEN_LEN : byte(i) \in E
  BY <1>2 DEF Octets
<1>4. BigEndian(n) = [i \in 1..TOTAL_LEN_LEN |-> byte(i)]
  BY DEF BigEndian
<1> HIDE DEF byte
<1>5. QED
  BY <1>1, <1>3, <1>4
-----------------------------------------------------------------------------
(* What is added after the last byte.                                      *)

\* How many zeros, as Padded has it.
Padding(n) ==
    CHOOSE z \in 0..(CHUNK - 1) : (n + 1 + z + TOTAL_LEN_LEN) % CHUNK = 0

\* The length goes into the chunk of the last bytes or into one more.
LEMMA PaddingIs ==
    ASSUME NEW k \in Nat, NEW r \in 0..(CHUNK - 1), NEW n \in Nat, n = k * CHUNK + r
    PROVE  /\ Padding(n) \in 0..(CHUNK - 1)
           /\ r + 1 + TOTAL_LEN_LEN <= CHUNK => Padding(n) = CHUNK - r - 1 - TOTAL_LEN_LEN
           /\ r + 1 + TOTAL_LEN_LEN > CHUNK =>
                /\ Padding(n) = CHUNK - r - 1 + (CHUNK - TOTAL_LEN_LEN)
                /\ Len(Zeros(CHUNK - r - 1)) = CHUNK - r - 1
<1> DEFINE C == CHUNK
           T == TOTAL_LEN_LEN
           a == C - r - 1 - T
           b == C - r - 1 + (C - T)
           Is(z) == z \in 0..(C - 1) /\ (n + 1 + z + T) % C = 0
           B == k * CHUNK
<1>1. C \in Nat \ {0} /\ T \in Nat \ {0} /\ T < C /\ r \in 0..(C - 1) /\ B \in Nat /\ n = B + r
      /\ B + C \in Nat
  BY Sha256Assumption, Places
<1>2. (B + C) % C = 0 /\ (B + C + C) % C = 0
  <2>1. k + 1 \in Nat /\ (k + 1) + 1 \in Nat /\ 0 \in 0..(CHUNK - 1)
    BY <1>1
  <2>2. ((k + 1) * CHUNK + 0) % CHUNK = 0 /\ (((k + 1) + 1) * CHUNK + 0) % CHUNK = 0
    BY <2>1, DividedIs
  <2>3. (k + 1) * CHUNK = B + C /\ ((k + 1) + 1) * CHUNK = (k + 1) * CHUNK + CHUNK
    BY <2>1, Places
  <2>4. B + C + 0 = B + C /\ (B + C + C) + 0 = B + C + C
    BY <1>1
  <2>5. QED
    BY <2>2, <2>3, <2>4
<1>3. ASSUME NEW z \in 0..(C - 1), Is(z)
      PROVE  r + 1 + z + T = C \/ r + 1 + z + T = C + C
  <2> DEFINE x == n + 1 + z + T
             q == x \div CHUNK
             d == r + 1 + z + T
             e == q - k
  <2>1. x \in Nat /\ x % CHUNK = 0 /\ x = B + d /\ d \in 1..(3 * C - 1)
    BY <1>1, <1>3
  <2> HIDE DEF x, d
  <2>2. q \in Nat /\ x = q * CHUNK
    BY <2>1, Divided
  <2> HIDE DEF q
  <2>3. e \in Int /\ q = k + e
    BY <2>2
  <2>4. q * CHUNK = B + e * CHUNK
    <3>1. (k + e) * CHUNK = k * CHUNK + e * CHUNK
      BY <1>1, <2>3, SMT
    <3>2. QED
      BY <2>3, <3>1
  <2> DEFINE f == e * CHUNK
  <2>5. f \in Int /\ d = f
    <3>1. f \in Int
      BY <1>1, <2>3, SMT
    <3> HIDE DEF f, B, e
    <3>2. B + d = B + f
      BY <2>1, <2>2, <2>4 DEF f
    <3>3. QED
      BY <1>1, <2>1, <3>1, <3>2
  <2> HIDE DEF e
  <2>6. e = 1 \/ e = 2
    <3>1. CASE e <= 0
      <4>1. f <= 0
        BY <1>1, <2>3, <3>1, SMT
      <4> HIDE DEF f
      <4>2. QED
        BY <2>1, <2>5, <4>1
    <3>2. CASE e >= 3
      <4>1. f >= 3 * C
        BY <1>1, <2>3, <3>2, SMT
      <4> HIDE DEF f
      <4>2. QED
        BY <1>1, <2>1, <2>5, <4>1
    <3>3. QED
      BY <2>3, <3>1, <3>2
  <2>7. f = C \/ f = C + C
    BY <1>1, <2>6
  <2>8. QED
    BY <2>5, <2>7 DEF d
<1>4. CASE r + 1 + T <= C
  <2>1. a \in 0..(C - 1) /\ n + 1 + a + T = B + C
    BY <1>1, <1>4
  <2>2. Is(a)
    BY <1>2, <2>1
  <2>3. Is(Padding(n))
    BY <2>2 DEF Padding
  <2> HIDE DEF Is
  <2>4. Padding(n) \in 0..(C - 1)
    BY <2>3 DEF Is
  <2>5. r + 1 + Padding(n) + T = C \/ r + 1 + Padding(n) + T = C + C
    BY <1>3, <2>3, <2>4
  <2>6. Padding(n) = a
    BY <1>1, <1>4, <2>4, <2>5
  <2>7. QED
    BY <1>1, <1>4, <2>4, <2>6
<1>5. CASE r + 1 + T > C
  <2>1. b \in 0..(C - 1) /\ n + 1 + b + T = B + C + C
    BY <1>1, <1>5
  <2>2. Is(b)
    BY <1>2, <2>1
  <2>3. Is(Padding(n))
    BY <2>2 DEF Padding
  <2> HIDE DEF Is
  <2>4. Padding(n) \in 0..(C - 1)
    BY <2>3 DEF Is
  <2>5. r + 1 + Padding(n) + T = C \/ r + 1 + Padding(n) + T = C + C
    BY <1>3, <2>3, <2>4
  <2>6. Padding(n) = b
    BY <1>1, <1>5, <2>4, <2>5
  <2>7. C - r - 1 \in Nat
    BY <1>1
  <2>8. Len(Zeros(C - r - 1)) = C - r - 1
    <3>1. 0 \in {0}
      OBVIOUS
    <3>2. QED
      BY <2>7, <3>1, ZerosAre
  <2>9. QED
    BY <1>1, <1>5, <2>4, <2>6, <2>8
<1>6. QED
  BY <1>1, <1>4, <1>5

LEMMA PaddedIs ==
    ASSUME NEW E, Octets(E), NEW m \in Seq(E)
    PROVE  LET M == Padded(m)
               N == Len(m)
               z == Padding(N)
           IN  /\ M \in Seq(E) /\ Len(M) = N + 1 + z + TOTAL_LEN_LEN /\ z \in 0..(CHUNK - 1)
               /\ Ahead(m, 0, M, E) /\ Ahead(<<128>>, N, M, E) /\ Ahead(Zeros(z), N + 1, M, E)
               /\ Ahead(BigEndian(8 * N), N + 1 + z, M, E)
<1> DEFINE N == Len(m)
           z == Padding(N)
           len == BigEndian(8 * N)
           one == <<128>>
           zs == Zeros(z)
           u == m \o one
           v == u \o zs
           M == v \o len
<1>1. N \in Nat /\ CHUNK \in Nat \ {0} /\ TOTAL_LEN_LEN \in Nat
  <2>1. N \in Nat
    OBVIOUS
  <2> HIDE DEF N
  <2>2. QED
    BY <2>1, Sha256Assumption
<1>2. z \in 0..(CHUNK - 1)
  <2> DEFINE k == N \div CHUNK
             r == N % CHUNK
  <2>1. k \in Nat /\ r \in 0..(CHUNK - 1) /\ N = k * CHUNK + r
    BY <1>1, Divided
  <2> HIDE DEF k, r, N
  <2>2. QED
    BY <1>1, <2>1, PaddingIs
<1>3. Padded(m) = M
  BY DEF Padded, Padding
<1>4. one \in Seq(E) /\ Len(one) = 1
  <2>1. 128 \in E
    BY DEF Octets
  <2>2. QED
    BY <2>1
<1>5. zs \in Seq(E) /\ Len(zs) = z
  <2>1. 0 \in E
    BY DEF Octets
  <2> HIDE DEF z
  <2>2. z \in Nat
    BY <1>1, <1>2
  <2>3. QED
    BY <2>1, <2>2, ZerosAre
<1>6. len \in Seq(E) /\ Len(len) = TOTAL_LEN_LEN
  <2>1. 8 * N \in Nat
    BY <1>1
  <2>2. QED
    BY <2>1, BigEndianType
<1>7. Ahead(m, 0, m, E)
  <2>1. 0 + Len(m) <= Len(m) /\ \A j \in 1..Len(m) : 0 + j = j
    BY <1>1
  <2>2. QED
    BY <2>1 DEF Ahead
<1> HIDE DEF one, zs, len, z
<1>8. /\ u \in Seq(E) /\ Len(u) = N + 1
      /\ Ahead(one, N, u, E) /\ Ahead(m, 0, u, E)
  <2>1. /\ u \in Seq(E) /\ Len(u) = Len(m) + Len(one) /\ Ahead(one, Len(m), u, E)
        /\ \A e : \A n \in Nat : Ahead(e, n, m, E) => Ahead(e, n, u, E)
    BY <1>4, ConcatAhead
  <2> HIDE DEF u
  <2>2. QED
    BY <1>4, <1>7, <2>1
<1> HIDE DEF u
<1>9. /\ v \in Seq(E) /\ Len(v) = N + 1 + z
      /\ Ahead(zs, N + 1, v, E) /\ Ahead(one, N, v, E) /\ Ahead(m, 0, v, E)
  <2>1. /\ v \in Seq(E) /\ Len(v) = Len(u) + Len(zs) /\ Ahead(zs, Len(u), v, E)
        /\ \A e : \A n \in Nat : Ahead(e, n, u, E) => Ahead(e, n, v, E)
    BY <1>5, <1>8, ConcatAhead
  <2> HIDE DEF v
  <2>2. QED
    BY <1>1, <1>5, <1>8, <2>1
<1> HIDE DEF v
<1>10. /\ M \in Seq(E) /\ Len(M) = N + 1 + z + TOTAL_LEN_LEN
       /\ Ahead(len, N + 1 + z, M, E) /\ Ahead(zs, N + 1, M, E)
       /\ Ahead(one, N, M, E) /\ Ahead(m, 0, M, E)
  <2>1. /\ M \in Seq(E) /\ Len(M) = Len(v) + Len(len) /\ Ahead(len, Len(v), M, E)
        /\ \A e : \A n \in Nat : Ahead(e, n, v, E) => Ahead(e, n, M, E)
    BY <1>6, <1>9, ConcatAhead
  <2>2. N + 1 \in Nat
    BY <1>1
  <2> HIDE DEF M
  <2>3. QED
    BY <1>1, <1>6, <1>9, <2>1, <2>2
<1> HIDE DEF M
<1>11. QED
  BY <1>2, <1>3, <1>10 DEF one, zs, len, z
\* After the last byte the hash is closed: all of the padded message was
\* compressed, whether the length fits in the chunk or not.
LEMMA CloseHashes ==
    ASSUME NEW E, Octets(E), NEW m \in Seq(E), NEW s, Gathered(s, Padded(m), E),
           Reached(s) = Len(m), s.total_len = Len(m)
    PROVE  sha_256_close(s) = InChunks(Padded(m))
<1> DEFINE M == Padded(m)
           N == Len(m)
           C == CHUNK
           T == TOTAL_LEN_LEN
           k == Len(s.h)
           B == k * CHUNK
           r == Len(s.chunk)
           z == Padding(N)
           len == BigEndian(8 * N)
           one == <<128>>
           more == s.space_left - 1 < TOTAL_LEN_LEN
           used == s.chunk \o one
           pad1 == Zeros(C - r - 1)
           pad2 == Zeros(C - T)
           pad == Zeros(C - (r + 1) - T)
<1>1. /\ s \in StateType(E) /\ Compressed(s.h, M, E) /\ Ahead(s.chunk, B, M, E)
      /\ r < C /\ s.space_left = C - r
  BY DEF Gathered
<1>2. /\ k \in Nat /\ r \in Nat /\ s.chunk \in Seq(E) /\ s.h \in Seq(Seq(E))
  <2>1. s.chunk \in Seq(E) /\ s.h \in Seq(Seq(E))
    BY <1>1 DEF StateType
  <2>2. QED
    BY <2>1
<1>3. /\ M \in Seq(E) /\ Len(M) = N + 1 + z + T /\ z \in 0..(C - 1)
      /\ Ahead(one, N, M, E) /\ Ahead(Zeros(z), N + 1, M, E)
      /\ Ahead(len, N + 1 + z, M, E)
  BY PaddedIs
<1> HIDE DEF M
<1>4. C \in Nat \ {0} /\ T \in Nat \ {0} /\ T < C /\ B \in Nat
  <2>1. B \in Nat
    BY <1>2, Places
  <2> HIDE DEF B
  <2>2. QED
    BY <2>1, Sha256Assumption
<1>5. N = B + r /\ N \in Nat
  <2>1. N \in Nat
    OBVIOUS
  <2>2. QED
    BY <2>1 DEF Reached
<1>6. /\ r + 1 + T <= C => z = C - r - 1 - T
      /\ r + 1 + T > C => z = (C - r - 1) + (C - T)
  <2> HIDE DEF N, k, r
  <2>1. r \in 0..(CHUNK - 1)
    BY <1>1, <1>2, <1>4
  <2>2. QED
    BY <1>2, <1>5, <2>1, PaddingIs DEF k, B
<1>7. length_bytes(s.total_len) = len
  BY <1>5, LengthBytes
<1>8. len \in Seq(E) /\ Len(len) = T /\ Len(one) = 1
  <2> HIDE DEF N, B, r
  <2>1. 8 * N \in Nat
    BY <1>5
  <2>2. QED
    BY <2>1, BigEndianType
<1>9. 0 \in E /\ Len(M) \in Nat
  <2>1. 0 \in E
    BY DEF Octets
  <2>2. QED
    BY <1>3, <2>1
<1> HIDE DEF z, len, N, one, k, r
<1>10. Ahead(used, B, M, E) /\ Len(used) = r + 1
  <2>1. Ahead(s.chunk, B, M, E) /\ B \in Nat /\ Ahead(one, B + Len(s.chunk), M, E)
    BY <1>1, <1>3, <1>4, <1>5 DEF r
  <2> HIDE DEF B
  <2>2. Ahead(used, B, M, E) /\ Len(used) = Len(s.chunk) + Len(one)
    BY <2>1, AheadBoth
  <2>3. QED
    BY <1>8, <2>2 DEF r
<1> HIDE DEF used, B
<1>11. CASE r + 1 + T <= C
  <2> DEFINE last == used \o pad \o len
             h == consume_chunk(s.h, last)
  <2>1. ~more /\ C - (r + 1) - T = z /\ z \in Nat
    BY <1>1, <1>2, <1>4, <1>6, <1>11
  <2>2. sha_256_close(s) = h
    <3>1. C - Len(used) - T = C - (r + 1) - T
      BY <1>10
    <3>2. QED
      BY <1>7, <2>1, <3>1 DEF sha_256_close, used, one
  <2>3. pad = Zeros(z) /\ Len(pad) = z
    BY <1>9, <2>1, ZerosAre
  <2> HIDE DEF pad
  <2>4. /\ Ahead(used \o pad, B, M, E) /\ Len(used \o pad) = (r + 1) + z
    <3>1. Ahead(used, B, M, E) /\ B \in Nat /\ Ahead(pad, B + Len(used), M, E)
      <4>1. N + 1 = B + (r + 1)
        BY <1>2, <1>4, <1>5
      <4>2. QED
        BY <1>3, <1>4, <1>10, <2>3, <4>1
    <3>2. Ahead(used \o pad, B, M, E) /\ Len(used \o pad) = Len(used) + Len(pad)
      BY <3>1, AheadBoth
    <3>3. QED
      BY <1>10, <2>3, <3>2
  <2> DEFINE front == used \o pad
  <2> HIDE DEF front
  <2>5. Ahead(last, B, M, E) /\ Len(last) = C
    <3>1. Ahead(front, B, M, E) /\ B \in Nat /\ Ahead(len, B + Len(front), M, E)
      <4>1. N + 1 + z = B + ((r + 1) + z)
        BY <1>2, <1>4, <1>5, <2>1
      <4>2. QED
        BY <1>3, <1>4, <2>4, <4>1 DEF front
    <3>2. Ahead(front \o len, B, M, E) /\ Len(front \o len) = Len(front) + Len(len)
      BY <3>1, AheadBoth
    <3>3. (r + 1) + z + T = C
      BY <1>2, <1>4, <2>1
    <3>4. QED
      BY <1>8, <2>4, <3>2, <3>3 DEF front
  <2> HIDE DEF last
  <2>6. Compressed(h, M, E) /\ Len(h) * CHUNK = B + CHUNK
    BY <1>1, <1>3, <2>5, CompressedMore DEF B, k
  <2>7. B + CHUNK = Len(M)
    BY <1>2, <1>3, <1>4, <1>5, <2>1
  <2> HIDE DEF h
  <2>8. h = InChunks(M)
    BY <1>3, <2>6, <2>7, AllCompressed
  <2>9. QED
    BY <2>2, <2>8 DEF M
<1>12. CASE r + 1 + T > C
  <2> DEFINE x == C - r - 1
             y == C - T
             first == used \o pad1
             h1 == consume_chunk(s.h, first)
             last == <<>> \o pad2 \o len
             h == consume_chunk(h1, last)
  <2>1. /\ more /\ z = x + y /\ x \in Nat /\ y \in Nat /\ s.space_left - 1 = x
        /\ C - 0 - T = y
    BY <1>1, <1>2, <1>4, <1>6, <1>12
  <2>2. sha_256_close(s) = h
    <3>1. Len(<<>>) = 0
      OBVIOUS
    <3>2. C - Len(<<>>) - T = C - T
      BY <2>1, <3>1
    <3>3. QED
      BY <1>7, <2>1, <3>2 DEF sha_256_close, used, one
  <2>3. Len(pad1) = x /\ Len(pad2) = y /\ pad2 \in Seq(E)
    BY <1>9, <2>1, ZerosAre
  <2> HIDE DEF x, y
  <2>4. Ahead(pad1, N + 1, M, E) /\ Ahead(pad2, N + 1 + x, M, E)
    <3>0. N + 1 \in Nat
      BY <1>5
    <3>1. Ahead(Zeros(x + y), N + 1, M, E)
      BY <1>3, <2>1
    <3>2. Ahead(Zeros(x), N + 1, M, E) /\ Ahead(Zeros(y), (N + 1) + x, M, E)
      BY <1>9, <2>1, <3>0, <3>1, ZerosPart
    <3>3. QED
      BY <3>2 DEF x, y
  <2> HIDE DEF pad1, pad2
  <2>5. Ahead(first, B, M, E) /\ Len(first) = C
    <3>1. Ahead(used, B, M, E) /\ B \in Nat /\ Ahead(pad1, B + Len(used), M, E)
      <4>1. N + 1 = B + (r + 1)
        BY <1>2, <1>4, <1>5
      <4>2. QED
        BY <1>4, <1>10, <2>4, <4>1
    <3>2. Ahead(used \o pad1, B, M, E) /\ Len(used \o pad1) = Len(used) + Len(pad1)
      BY <3>1, AheadBoth
    <3>3. (r + 1) + x = C
      BY <1>2, <1>4 DEF x
    <3>4. QED
      BY <1>10, <2>3, <3>2, <3>3
  <2> HIDE DEF first
  <2>6. Compressed(h1, M, E) /\ Len(h1) * CHUNK = B + CHUNK
    BY <1>1, <1>3, <2>5, CompressedMore DEF B, k
  <2> HIDE DEF h1
  <2> DEFINE D == B + CHUNK
  <2>7. D \in Nat /\ N + 1 + x = D /\ N + 1 + z = D + y /\ D + CHUNK = Len(M)
    BY <1>2, <1>3, <1>4, <1>5, <2>1 DEF x, y
  <2> HIDE DEF D
  <2>8. <<>> \o pad2 = pad2
    BY <2>3
  <2>9. Ahead(last, D, M, E) /\ Len(last) = C
    <3>1. Ahead(pad2, D, M, E) /\ D \in Nat /\ Ahead(len, D + Len(pad2), M, E)
      BY <1>3, <2>3, <2>4, <2>7
    <3>2. Ahead(pad2 \o len, D, M, E) /\ Len(pad2 \o len) = Len(pad2) + Len(len)
      BY <3>1, AheadBoth
    <3>3. y + T = C
      BY <1>4 DEF y
    <3>4. QED
      BY <1>8, <2>3, <2>8, <3>2, <3>3
  <2> HIDE DEF last
  <2>10. Compressed(h, M, E) /\ Len(h) * CHUNK = D + CHUNK
    <3>1. Compressed(h1, M, E) /\ Ahead(last, Len(h1) * CHUNK, M, E) /\ Len(last) = CHUNK
      BY <2>6, <2>9 DEF D
    <3>2. Compressed(h, M, E) /\ Len(h) * CHUNK = Len(h1) * CHUNK + CHUNK
      BY <1>3, <3>1, CompressedMore
    <3>3. QED
      BY <2>6, <3>2 DEF D
  <2> HIDE DEF h
  <2>11. h = InChunks(M)
    BY <1>3, <2>7, <2>10, AllCompressed
  <2>12. QED
    BY <2>2, <2>11 DEF M
<1>13. QED
  BY <1>2, <1>4, <1>11, <1>12
-----------------------------------------------------------------------------
(* From the first byte to the last.                                        *)

LEMMA InitGathers ==
    ASSUME NEW E, NEW M \in Seq(E)
    PROVE  /\ Gathered(sha_256_init, M, E) /\ Reached(sha_256_init) = 0
           /\ sha_256_init.total_len = 0
<1> DEFINE s == sha_256_init
<1>1. s = [h |-> <<>>, chunk |-> <<>>, space_left |-> CHUNK, total_len |-> 0]
  BY DEF sha_256_init
<1> HIDE DEF s
<1>2. CHUNK \in Nat \ {0} /\ CHUNK - 0 = CHUNK
  BY Sha256Assumption
<1>3. <<>> \in Seq(E) /\ <<>> \in Seq(Seq(E)) /\ Len(<<>>) = 0 /\ Len(M) \in Nat
  OBVIOUS
<1>4. 0 * CHUNK = 0
  BY <1>2, SMT
<1>5. s \in StateType(E)
  BY <1>1, <1>2, <1>3 DEF StateType
<1>6. Compressed(<<>>, M, E)
  BY <1>3, <1>4 DEF Compressed
<1>7. Ahead(<<>>, 0, M, E)
  BY <1>3, NothingAhead
<1>8. Gathered(s, M, E)
  BY <1>1, <1>2, <1>3, <1>4, <1>5, <1>6, <1>7 DEF Gathered
<1>9. Reached(s) = 0 /\ s.total_len = 0
  BY <1>1, <1>3, <1>4 DEF Reached
<1>10. QED
  BY <1>8, <1>9 DEF s

\* A call of sha_256_write with the next bytes.
LEMMA NextWrite ==
    ASSUME NEW E, NEW M \in Seq(E), NEW s, Gathered(s, M, E),
           NEW data, Ahead(data, Reached(s), M, E)
    PROVE  LET w == sha_256_write(s, data)
           IN  /\ Gathered(w, M, E) /\ Reached(w) = Reached(s) + Len(data)
               /\ w.total_len = s.total_len + Len(data)
<1> DEFINE t == [s EXCEPT !.total_len = @ + Len(data)]
<1>1. s \in StateType(E) /\ data \in Seq(E)
  BY DEF Gathered, Ahead
<1>2. Len(data) \in Nat
  BY <1>1
<1>3. /\ t \in StateType(E) /\ t.h = s.h /\ t.chunk = s.chunk /\ t.space_left = s.space_left
      /\ t.total_len = s.total_len + Len(data)
  <2>1. s.total_len \in Nat
    BY <1>1 DEF StateType
  <2> DEFINE n == s.total_len + Len(data)
  <2>2. n \in Nat
    BY <1>2, <2>1
  <2> HIDE DEF n
  <2>3. t = [s EXCEPT !.total_len = n]
    BY DEF n
  <2> HIDE DEF t
  <2>4. /\ t \in StateType(E) /\ t.h = s.h /\ t.chunk = s.chunk /\ t.space_left = s.space_left
        /\ t.total_len = n
    BY <1>1, <2>2, <2>3 DEF StateType
  <2>5. QED
    BY <2>4 DEF n
<1> HIDE DEF t
<1>4. Gathered(t, M, E) /\ Reached(t) = Reached(s)
  BY <1>3 DEF Gathered, Reached
<1>5. Ahead(data, Reached(t), M, E)
  BY <1>4
<1> DEFINE w == write_data(t, data)
<1>6. Gathered(w, M, E) /\ Reached(w) = Reached(t) + Len(data) /\ w.total_len = t.total_len
  BY <1>4, <1>5, WriteGathers
<1>7. sha_256_write(s, data) = w
  BY DEF sha_256_write, t
<1> HIDE DEF w
<1>8. QED
  BY <1>3, <1>4, <1>6, <1>7

\* However the bytes are cut in three.
LEMMA HashOfPieces ==
    ASSUME NEW E, Octets(E), NEW m \in Seq(E), NEW i \in 0..Len(m), NEW j \in i..Len(m)
    PROVE  LET s1 == sha_256_write(sha_256_init, SubSeq(m, 1, i))
               s2 == sha_256_write(s1, SubSeq(m, i + 1, j))
               s3 == sha_256_write(s2, SubSeq(m, j + 1, Len(m)))
           IN  /\ sha_256_close(s3) = InChunks(Padded(m))
               /\ calc_sha_256(m) = InChunks(Padded(m))
<1> DEFINE M == Padded(m)
           N == Len(m)
           s0 == sha_256_init
           p1 == SubSeq(m, 1, i)
           p2 == SubSeq(m, i + 1, j)
           p3 == SubSeq(m, j + 1, N)
           s1 == sha_256_write(s0, p1)
           s2 == sha_256_write(s1, p2)
           s3 == sha_256_write(s2, p3)
           t == sha_256_write(s0, m)
<1>1. M \in Seq(E) /\ Ahead(m, 0, M, E)
  BY PaddedIs
<1> HIDE DEF M
<1>2. N \in Nat /\ i \in 0..N /\ j \in i..N
  <2>1. N \in Nat
    OBVIOUS
  <2>2. QED
    BY <2>1
<1>3. Gathered(s0, M, E) /\ Reached(s0) = 0 /\ s0.total_len = 0
  BY <1>1, InitGathers
<1> HIDE DEF s0
<1>4. /\ Ahead(p1, 0, M, E) /\ Len(p1) = i
      /\ Ahead(p2, i, M, E) /\ Len(p2) = j - i
      /\ Ahead(p3, j, M, E) /\ Len(p3) = N - j
  <2>1. /\ m \in Seq(E) /\ 0 + N <= Len(M) /\ \A l \in 1..N : m[l] = M[0 + l]
    BY <1>1 DEF Ahead
  <2>2. \A a \in 0..N : \A b \in a..N :
          Ahead(SubSeq(m, a + 1, b), a, M, E) /\ Len(SubSeq(m, a + 1, b)) = b - a
    <3>1. ASSUME NEW a \in 0..N, NEW b \in a..N
          PROVE  Ahead(SubSeq(m, a + 1, b), a, M, E) /\ Len(SubSeq(m, a + 1, b)) = b - a
      <4> DEFINE lo == a + 1
                 p == SubSeq(m, lo, b)
      <4>1. \A l \in 1..N : m[l] \in E
        OBVIOUS
      <4> HIDE DEF N
      <4>2. lo \in Int /\ b \in Int /\ \A l \in lo..b : m[l] \in E
        BY <1>2, <3>1, <4>1
      <4> HIDE DEF lo
      <4>3. /\ p \in Seq(E) /\ Len(p) = IF lo <= b THEN b - lo + 1 ELSE 0
            /\ \A l \in 1..(b - lo + 1) : p[l] = m[lo + l - 1]
        BY <4>2, SubSeqProperties
      <4> HIDE DEF p
      <4>4. b - lo + 1 = b - a /\ (IF lo <= b THEN b - lo + 1 ELSE 0) = b - a
            /\ \A l \in Int : lo + l - 1 = a + l
        BY <1>2, <3>1 DEF lo
      <4>5. ASSUME NEW l \in 1..(b - a)
            PROVE  p[l] = M[a + l]
        <5>1. a + l \in 1..N /\ 0 + (a + l) = a + l /\ l \in Int
          BY <1>2, <3>1
        <5>2. p[l] = m[a + l]
          BY <4>3, <4>4, <5>1
        <5>3. m[a + l] = M[0 + (a + l)]
          BY <2>1, <5>1
        <5>4. QED
          BY <5>1, <5>2, <5>3
      <4>6. Len(p) = b - a
        BY <4>3, <4>4
      <4>7. a + (b - a) <= Len(M)
        <5>1. Len(M) \in Nat
          BY <1>1
        <5>2. QED
          BY <1>2, <2>1, <3>1, <5>1
      <4>8. Ahead(p, a, M, E)
        BY <4>3, <4>5, <4>6, <4>7 DEF Ahead
      <4>9. QED
        BY <4>6, <4>8 DEF p, lo
    <3>2. QED
      BY <3>1
  <2> HIDE DEF N
  <2>3. Ahead(SubSeq(m, 0 + 1, i), 0, M, E) /\ Len(SubSeq(m, 0 + 1, i)) = i - 0
    <3>1. 0 \in 0..N /\ i \in 0..N
      BY <1>2
    <3>2. QED
      BY <2>2, <3>1
  <2>4. Ahead(p2, i, M, E) /\ Len(p2) = j - i
    BY <1>2, <2>2
  <2>5. Ahead(p3, j, M, E) /\ Len(p3) = N - j
    <3>1. j \in 0..N /\ N \in j..N
      BY <1>2
    <3>2. QED
      BY <2>2, <3>1
  <2>6. 0 + 1 = 1 /\ i - 0 = i
    BY <1>2
  <2>7. QED
    BY <2>3, <2>4, <2>5, <2>6
<1> HIDE DEF N, p1, p2, p3
<1>5. Gathered(s1, M, E) /\ Reached(s1) = i /\ s1.total_len = i
  <2>1. Ahead(p1, Reached(s0), M, E)
    BY <1>3, <1>4
  <2>2. /\ Gathered(s1, M, E) /\ Reached(s1) = Reached(s0) + Len(p1)
        /\ s1.total_len = s0.total_len + Len(p1)
    BY <1>1, <1>3, <2>1, NextWrite
  <2> HIDE DEF s1
  <2>3. QED
    BY <1>2, <1>3, <1>4, <2>2
<1> HIDE DEF s1
<1>6. Gathered(s2, M, E) /\ Reached(s2) = j /\ s2.total_len = j
  <2>1. Ahead(p2, Reached(s1), M, E)
    BY <1>4, <1>5
  <2>2. /\ Gathered(s2, M, E) /\ Reached(s2) = Reached(s1) + Len(p2)
        /\ s2.total_len = s1.total_len + Len(p2)
    BY <1>1, <1>5, <2>1, NextWrite
  <2> HIDE DEF s2
  <2>3. QED
    BY <1>2, <1>4, <1>5, <2>2
<1> HIDE DEF s2
<1>7. Gathered(s3, M, E) /\ Reached(s3) = N /\ s3.total_len = N
  <2>1. Ahead(p3, Reached(s2), M, E)
    BY <1>4, <1>6
  <2>2. /\ Gathered(s3, M, E) /\ Reached(s3) = Reached(s2) + Len(p3)
        /\ s3.total_len = s2.total_len + Len(p3)
    BY <1>1, <1>6, <2>1, NextWrite
  <2> HIDE DEF s3
  <2>3. QED
    BY <1>2, <1>4, <1>6, <2>2
<1> HIDE DEF s3
<1>8. Gathered(t, M, E) /\ Reached(t) = N /\ t.total_len = N
  <2>1. Ahead(m, Reached(s0), M, E)
    BY <1>1, <1>3
  <2>2. /\ Gathered(t, M, E) /\ Reached(t) = Reached(s0) + N
        /\ t.total_len = s0.total_len + N
    BY <1>1, <1>3, <2>1, NextWrite DEF N
  <2> HIDE DEF t
  <2>3. QED
    BY <1>2, <1>3, <2>2
<1> HIDE DEF t
<1>9. sha_256_close(s3) = InChunks(M) /\ sha_256_close(t) = InChunks(M)
  <2>1. Gathered(s3, Padded(m), E) /\ Reached(s3) = Len(m) /\ s3.total_len = Len(m)
    BY <1>7 DEF M, N
  <2>2. Gathered(t, Padded(m), E) /\ Reached(t) = Len(m) /\ t.total_len = Len(m)
    BY <1>8 DEF M, N
  <2>3. sha_256_close(s3) = InChunks(Padded(m))
    BY <2>1, CloseHashes
  <2>4. sha_256_close(t) = InChunks(Padded(m))
    BY <2>2, CloseHashes
  <2>5. QED
    BY <2>3, <2>4 DEF M
<1>10. QED
  BY <1>9 DEF s3, s2, s1, s0, p1, p2, p3, N, M, t, calc_sha_256
-----------------------------------------------------------------------------
\* The hash is that of the contents, padded as the standard says, for every
\* file, however it is cut into the calls of sha_256_write, and every length
\* of a chunk (sha-256.c:137-224).
THEOREM HashesContentsHolds == Spec => []HashesContents
<1>1. TypeOK => HashesContents
  <2> SUFFICES ASSUME TypeOK PROVE HashesContents
    OBVIOUS
  <2> DEFINE E == Bytes \cup (0..255)
  <2>1. file \in Seq(Bytes) /\ Len(file) \in Nat
    BY FileType
  <2>2. file \in Seq(E) /\ Octets(E)
    <3>1. Bytes \subseteq E /\ 0..255 \subseteq E
      OBVIOUS
    <3> HIDE DEF E
    <3>2. QED
      BY <2>1, <3>1, SeqMonotonic DEF Octets
  <2> HIDE DEF E
  <2>3. length_bytes(333 * Len(file)) = BigEndian(8 * (333 * Len(file)))
    <3>1. 333 * Len(file) \in Nat
      BY <2>1
    <3>2. QED
      BY <3>1, LengthBytes
  <2>4. ASSUME NEW i \in 0..Len(file), NEW j \in i..Len(file)
        PROVE  LET s1 == sha_256_write(sha_256_init, SubSeq(file, 1, i))
                   s2 == sha_256_write(s1, SubSeq(file, i + 1, j))
                   s3 == sha_256_write(s2, SubSeq(file, j + 1, Len(file)))
               IN  /\ sha_256_close(s3) = InChunks(Padded(file))
                   /\ calc_sha_256(file) = sha_256_close(s3)
    <3>1. LET s1 == sha_256_write(sha_256_init, SubSeq(file, 1, i))
              s2 == sha_256_write(s1, SubSeq(file, i + 1, j))
              s3 == sha_256_write(s2, SubSeq(file, j + 1, Len(file)))
          IN  /\ sha_256_close(s3) = InChunks(Padded(file))
              /\ calc_sha_256(file) = InChunks(Padded(file))
      BY <2>2, HashOfPieces
    <3>2. QED
      BY <3>1
  <2>5. QED
    BY <2>3, <2>4 DEF HashesContents
<1>2. QED
  BY <1>1, ChunkingTypeCorrect, PTL
=============================================================================
