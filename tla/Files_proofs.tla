---------------------------- MODULE Files_proofs ----------------------------
(***************************************************************************)
(* Proofs about files.  First the FAT32 driver, for every number of        *)
(* clusters, FAT copies, directory slots and files, and every sequence of  *)
(* calls: what each helper's block writes do, what a volume with its files *)
(* laid out is, and that write_file keeps it so.  Then the file protocol,  *)
(* for every number of slots, every slot size and every volume.            *)
(***************************************************************************)
EXTENDS Fat32, FileProtocol, Loops, FiniteSetTheorems, SequenceTheorems, TLAPS

-----------------------------------------------------------------------------
(* A volume, and what one block write makes of it. *)
FatValue == {Free, Eoc} \cup Cluster
DirBlock == [dir : [1 .. DirSlots -> Marks \cup FileEntry]]
DataBlock == [data : FileName \X (1 .. MaxWrites) \X (Nat \ {0})]
Vol == [fat : [Copy -> [Cluster -> FatValue]], block : [Cluster -> Block]]

FatOp == [op : {"fat"}, copy : Copy, cluster : Cluster, value : FatValue]
BlockOp == [op : {"block"}, cluster : Cluster, value : Block]
DirOp == [op : {"dir"}, cluster : Cluster, slot : 1 .. DirSlots, value : FileEntry]
Op == FatOp \cup BlockOp \cup DirOp

FatWrote(f, w) == IF w.op = "fat" THEN [f EXCEPT ![w.copy][w.cluster] = w.value] ELSE f

BlockWrote(b, w) ==
  CASE w.op = "fat" -> b
    [] w.op = "block" -> [b EXCEPT ![w.cluster] = w.value]
    [] w.op = "dir" -> [b EXCEPT ![w.cluster].dir[w.slot] = w.value]

Wrote(v, w) == [fat |-> FatWrote(v.fat, w), block |-> BlockWrote(v.block, w)]

(* The constants and the cluster numbers they give. *)
LEMMA Sizes32 ==
  /\ LastCluster \in Nat /\ LastCluster > 2 /\ NumFats \in Nat /\ NumFats >= 1
  /\ DirSlots \in Nat /\ DirSlots >= 1 /\ MaxWrites \in Nat /\ Sizes \subseteq Nat
  /\ Cluster = 2 .. LastCluster /\ Copy = 1 .. NumFats /\ 1 \in Copy /\ Root \in Cluster
  /\ Eoc \notin Cluster /\ Free \notin Cluster /\ Free # Eoc /\ Cluster \subseteq Nat
  /\ 0 \notin Cluster /\ Free = 0
  BY FatAssumption DEF Cluster, Copy, Root, Eoc, Free

(* A block is a directory block or file data. *)
LEMMA Blocks == Block = DirBlock \cup DataBlock
  BY DEF Block, DirBlock, DataBlock

(* A directory entry written into a block leaves a block. *)
LEMMA EntryWritten ==
  ASSUME NEW b \in Block, NEW s \in 1 .. DirSlots, NEW e \in FileEntry
  PROVE  [b EXCEPT !.dir[s] = e] \in Block
<1>1. CASE b \in DirBlock
  <2>1. [b EXCEPT !.dir[s] = e] \in DirBlock
    BY <1>1 DEF DirBlock
  <2>2. QED
    BY <2>1, Blocks
<1>2. CASE b \in DataBlock
  <2>1. "dir" \notin DOMAIN b
    BY <1>2 DEF DataBlock
  <2>2. [b EXCEPT !.dir[s] = e] = b
    BY <1>2, <2>1 DEF DataBlock
  <2>3. QED
    BY <2>2
<1>3. QED
  BY <1>1, <1>2, Blocks

(* One block write leaves a volume. *)
LEMMA WroteType ==
  ASSUME NEW v \in Vol, NEW w \in Op
  PROVE  Wrote(v, w) \in Vol
<1>1. v.fat \in [Copy -> [Cluster -> FatValue]] /\ v.block \in [Cluster -> Block]
  BY DEF Vol
<1>2. CASE w \in FatOp
  <2>1. w.op = "fat" /\ w.copy \in Copy /\ w.cluster \in Cluster /\ w.value \in FatValue
    BY <1>2 DEF FatOp
  <2>2. FatWrote(v.fat, w) \in [Copy -> [Cluster -> FatValue]] /\ BlockWrote(v.block, w) = v.block
    BY <1>1, <2>1 DEF FatWrote, BlockWrote
  <2>3. QED
    BY <1>1, <2>2 DEF Wrote, Vol
<1>3. CASE w \in BlockOp
  <2>1. w.op = "block" /\ w.cluster \in Cluster /\ w.value \in Block
    BY <1>3 DEF BlockOp
  <2>2. FatWrote(v.fat, w) = v.fat /\ BlockWrote(v.block, w) \in [Cluster -> Block]
    BY <1>1, <2>1 DEF FatWrote, BlockWrote
  <2>3. QED
    BY <1>1, <2>2 DEF Wrote, Vol
<1>4. CASE w \in DirOp
  <2>1. w.op = "dir" /\ w.cluster \in Cluster /\ w.slot \in 1 .. DirSlots /\ w.value \in FileEntry
    BY <1>4 DEF DirOp
  <2>2. [v.block[w.cluster] EXCEPT !.dir[w.slot] = w.value] \in Block
    BY <1>1, <2>1, EntryWritten
  <2>3. BlockWrote(v.block, w) = [v.block EXCEPT ![w.cluster] = [v.block[w.cluster] EXCEPT !.dir[w.slot] = w.value]]
    BY <2>1 DEF BlockWrote
  <2>4. FatWrote(v.fat, w) = v.fat /\ BlockWrote(v.block, w) \in [Cluster -> Block]
    BY <1>1, <2>1, <2>2, <2>3 DEF FatWrote
  <2>5. QED
    BY <1>1, <2>4 DEF Wrote, Vol
<1>5. QED
  BY <1>2, <1>3, <1>4 DEF Op

-----------------------------------------------------------------------------
(* The volumes a sequence of block writes goes through. *)
Tracks(g, v, ops) ==
  /\ g \in [0 .. Len(ops) -> Vol] /\ g[0] = v
  /\ \A n \in 1 .. Len(ops) : g[n] = Wrote(g[n - 1], ops[n])

Track(v, ops) == CHOOSE g : Tracks(g, v, ops)
After(v, ops) == Track(v, ops)[Len(ops)]

WriteSteps(ops) == [n \in 1 .. Len(ops) |-> [u \in Vol |-> Wrote(u, ops[n])]]

(* A sequence of block writes takes a volume through volumes. *)
LEMMA TrackExists ==
  ASSUME NEW v \in Vol, NEW ops \in Seq(Op)
  PROVE  Tracks(Track(v, ops), v, ops) /\ After(v, ops) \in Vol
<1>0. PICK N \in Nat : N = Len(ops)
  BY LenProperties
<1>1. \A n \in 1 .. N : ops[n] \in Op
  BY <1>0, ElementOfSeq
<1>2. \A n \in 1 .. N, u \in Vol : Wrote(u, ops[n]) \in Vol
  BY <1>1, WroteType
<1>3. Steps(WriteSteps(ops), N, Vol)
  BY <1>0, <1>2 DEF Steps, WriteSteps
<1>4. PICK g : Run(g, v, WriteSteps(ops), N, Vol)
  BY <1>3, Iterates
<1>5. \A n \in 1 .. N : g[n] = Wrote(g[n - 1], ops[n])
  <2> SUFFICES ASSUME NEW n \in 1 .. N PROVE g[n] = Wrote(g[n - 1], ops[n])
    OBVIOUS
  <2>1. n - 1 \in 0 .. N
    OBVIOUS
  <2>2. g[n - 1] \in Vol /\ g[n] = WriteSteps(ops)[n][g[n - 1]]
    BY <1>4, <2>1 DEF Run
  <2>3. QED
    BY <1>0, <2>2 DEF WriteSteps
<1>6. Tracks(g, v, ops)
  BY <1>0, <1>4, <1>5 DEF Run, Tracks
<1>7. Tracks(Track(v, ops), v, ops)
  BY <1>6, Zenon DEF Track
<1>8. QED
  BY <1>0, <1>7 DEF After, Tracks

(* The run is unique. *)
LEMMA TrackUnique ==
  ASSUME NEW v \in Vol, NEW ops \in Seq(Op), NEW g, Tracks(g, v, ops)
  PROVE  Track(v, ops) = g /\ After(v, ops) = g[Len(ops)]
<1>0. PICK N \in Nat : N = Len(ops)
  BY LenProperties
<1>1. PICK h : h = Track(v, ops) /\ Tracks(h, v, ops)
  BY TrackExists
<1> DEFINE P == {n \in 0 .. N : h[n] = g[n]}
<1>2. 0 \in P
  BY <1>0, <1>1 DEF Tracks
<1>3. ASSUME NEW n \in 0 .. N - 1, n \in P PROVE n + 1 \in P
  <2>1. n + 1 \in 1 .. N /\ (n + 1) - 1 = n
    OBVIOUS
  <2>2. h[n + 1] = Wrote(h[n], ops[n + 1]) /\ g[n + 1] = Wrote(g[n], ops[n + 1])
    BY <1>0, <1>1, <2>1 DEF Tracks
  <2>3. QED
    BY <1>3, <2>1, <2>2
<1> HIDE DEF P
<1>4. \A n \in 0 .. N : n \in P
  BY <1>2, <1>3, UpTo
<1>5. \A n \in 0 .. N : h[n] = g[n]
  BY <1>4 DEF P
<1>6. h \in [0 .. N -> Vol] /\ g \in [0 .. N -> Vol]
  BY <1>0, <1>1 DEF Tracks
<1>7. h = g
  BY <1>5, <1>6
<1>8. QED
  BY <1>1, <1>7 DEF After

(* Sequences of writes one after the other. *)
LEMMA TrackJoin ==
  ASSUME NEW v \in Vol, NEW a \in Seq(Op), NEW b \in Seq(Op)
  PROVE  /\ a \o b \in Seq(Op) /\ Len(a \o b) = Len(a) + Len(b)
         /\ \A n \in 0 .. Len(a) : Track(v, a \o b)[n] = Track(v, a)[n]
         /\ \A n \in 0 .. Len(b) : Track(v, a \o b)[Len(a) + n] = Track(After(v, a), b)[n]
         /\ After(v, a \o b) = After(After(v, a), b)
<1>0. PICK M \in Nat, N \in Nat : M = Len(a) /\ N = Len(b)
  BY LenProperties
<1>1. PICK g : g = Track(v, a) /\ Tracks(g, v, a) /\ After(v, a) = g[M] /\ g[M] \in Vol
  BY <1>0, TrackExists DEF After
<1>2. PICK h : h = Track(g[M], b) /\ Tracks(h, g[M], b)
  BY <1>1, TrackExists
<1> DEFINE c == a \o b
<1>3. /\ c \in Seq(Op) /\ Len(c) = M + N
      /\ \A i \in 1 .. M + N : c[i] = IF i <= M THEN a[i] ELSE b[i - M]
  BY <1>0, ConcatProperties
<1> HIDE DEF c
<1>4. PICK j : j = [i \in 0 .. M + N |-> IF i <= M THEN g[i] ELSE h[i - M]]
  OBVIOUS
<1>5. /\ g \in [0 .. M -> Vol] /\ g[0] = v /\ \A n \in 1 .. M : g[n] = Wrote(g[n - 1], a[n])
      /\ h \in [0 .. N -> Vol] /\ h[0] = g[M] /\ \A n \in 1 .. N : h[n] = Wrote(h[n - 1], b[n])
  BY <1>0, <1>1, <1>2 DEF Tracks
<1>6. j \in [0 .. M + N -> Vol] /\ j[0] = v
  BY <1>4, <1>5
<1>7. \A n \in 0 .. N : j[M + n] = h[n]
  <2> SUFFICES ASSUME NEW n \in 0 .. N PROVE j[M + n] = h[n]
    OBVIOUS
  <2>1. M + n \in 0 .. M + N /\ (M + n) - M = n /\ (M + n <= M => n = 0)
    OBVIOUS
  <2>2. j[M + n] = IF M + n <= M THEN g[M + n] ELSE h[(M + n) - M]
    BY <1>4, <2>1
  <2>3. CASE n = 0
    BY <1>5, <2>2, <2>3
  <2>4. CASE n # 0
    BY <2>1, <2>2, <2>4
  <2>5. QED
    BY <2>3, <2>4
<1>8. ASSUME NEW n \in 1 .. M + N PROVE j[n] = Wrote(j[n - 1], c[n])
  <2>1. CASE n <= M
    <3>1. n \in 1 .. M /\ j[n] = g[n] /\ j[n - 1] = g[n - 1] /\ c[n] = a[n]
      BY <1>3, <1>4, <2>1
    <3>2. QED
      BY <1>5, <3>1
  <2>2. CASE n > M
    <3>1. PICK m \in 1 .. N : n = M + m /\ n - 1 = M + (m - 1) /\ n - M = m
      BY <2>2
    <3>2. j[n] = h[m] /\ j[n - 1] = h[m - 1] /\ c[n] = b[m]
      BY <1>3, <1>7, <2>2, <3>1
    <3>3. QED
      BY <1>5, <3>2
  <2>3. QED
    BY <2>1, <2>2
<1>9. Tracks(j, v, c)
  BY <1>3, <1>6, <1>8 DEF Tracks
<1>10. Track(v, c) = j
  BY <1>3, <1>9, TrackUnique
<1>11. \A n \in 0 .. M : j[n] = g[n]
  BY <1>4
<1>12. After(v, c) = h[N] /\ After(g[M], b) = h[N]
  BY <1>0, <1>2, <1>3, <1>7, <1>10 DEF After
<1>13. QED
  BY <1>0, <1>1, <1>2, <1>3, <1>7, <1>10, <1>11, <1>12 DEF c

(* The first write, then the others. *)
LEMMA TrackTail ==
  ASSUME NEW v \in Vol, NEW ops \in Seq(Op), ops # <<>>
  PROVE  /\ Head(ops) \in Op /\ Wrote(v, Head(ops)) \in Vol
         /\ Tail(ops) \in Seq(Op) /\ Len(Tail(ops)) + 1 = Len(ops)
         /\ \A n \in 0 .. Len(Tail(ops)) : Track(v, ops)[n + 1] = Track(Wrote(v, Head(ops)), Tail(ops))[n]
         /\ After(v, ops) = After(Wrote(v, Head(ops)), Tail(ops))
<1> DEFINE w == Head(ops)
           t == Tail(ops)
<1>1. /\ w \in Op /\ w = ops[1] /\ t \in Seq(Op) /\ Len(ops) = Len(t) + 1
      /\ \A i \in 1 .. Len(t) : t[i] = ops[i + 1]
  <2>1. Len(ops) \in Nat
    BY LenProperties
  <2>2. /\ w \in Op /\ t \in Seq(Op) /\ Len(t) = Len(ops) - 1
        /\ \A i \in 1 .. Len(t) : t[i] = ops[i + 1]
    BY HeadTailProperties
  <2>3. w = ops[1]
    OBVIOUS
  <2>4. QED
    BY <2>1, <2>2, <2>3
<1>a. PICK N \in Nat : N = Len(t)
  BY <1>1, LenProperties
<1> HIDE DEF w, t
<1>2. PICK u \in Vol : u = Wrote(v, w)
  BY <1>1, WroteType
<1>3. PICK g : g = Track(v, ops) /\ Tracks(g, v, ops)
  BY TrackExists
<1>4. PICK h : h = [n \in 0 .. N |-> g[n + 1]]
  OBVIOUS
<1>5. /\ g \in [0 .. N + 1 -> Vol] /\ g[0] = v /\ \A n \in 1 .. N + 1 : g[n] = Wrote(g[n - 1], ops[n])
  BY <1>1, <1>a, <1>3 DEF Tracks
<1>6. h \in [0 .. N -> Vol]
  BY <1>4, <1>5
<1>7. h[0] = u
  <2>1. 1 \in 1 .. N + 1 /\ 1 - 1 = 0
    OBVIOUS
  <2>2. g[1] = Wrote(g[0], ops[1])
    BY <1>5, <2>1
  <2>3. QED
    BY <1>1, <1>2, <1>4, <1>5, <2>2
<1>8. ASSUME NEW n \in 1 .. N PROVE h[n] = Wrote(h[n - 1], t[n])
  <2>1. n + 1 \in 1 .. N + 1 /\ (n + 1) - 1 = n /\ n - 1 \in 0 .. N /\ (n - 1) + 1 = n
    OBVIOUS
  <2>2. g[n + 1] = Wrote(g[n], ops[n + 1])
    BY <1>5, <2>1
  <2>3. QED
    BY <1>1, <1>a, <1>4, <2>1, <2>2
<1>9. Track(u, t) = h /\ After(u, t) = h[N]
  BY <1>1, <1>a, <1>2, <1>6, <1>7, <1>8, TrackUnique DEF Tracks
<1>10. QED
  BY <1>1, <1>a, <1>2, <1>3, <1>4, <1>9 DEF After, w, t

-----------------------------------------------------------------------------
(* What block writes that stay within some clusters leave alone. *)
Within(ops, C) == \A n \in 1 .. Len(ops) : ops[n] \in FatOp \cup BlockOp /\ ops[n].cluster \in C

Agree(u, v, C) ==
  \A c \in Cluster \ C : u.block[c] = v.block[c] /\ \A k \in Copy : u.fat[k][c] = v.fat[k][c]

(* FAT and block writes to clusters of C stay within C. *)
LEMMA WithinOps ==
  ASSUME NEW ops \in Seq(FatOp \cup BlockOp), NEW C, \A n \in 1 .. Len(ops) : ops[n].cluster \in C
  PROVE  ops \in Seq(Op) /\ Within(ops, C)
<1>1. FatOp \cup BlockOp \subseteq Op
  BY DEF Op
<1>2. ops \in Seq(Op)
  BY <1>1, SeqMonotonic
<1>3. \A n \in 1 .. Len(ops) : ops[n] \in FatOp \cup BlockOp
  BY ElementOfSeq
<1>4. QED
  BY <1>2, <1>3 DEF Within

(* Two sequences within C, one after the other, are within C. *)
LEMMA WithinJoin ==
  ASSUME NEW a \in Seq(Op), NEW b \in Seq(Op), NEW C, Within(a, C), Within(b, C)
  PROVE  a \o b \in Seq(Op) /\ Within(a \o b, C)
<1>0. PICK M \in Nat, N \in Nat : M = Len(a) /\ N = Len(b)
  BY LenProperties
<1>1. /\ a \o b \in Seq(Op) /\ Len(a \o b) = M + N
      /\ \A i \in 1 .. M + N : (a \o b)[i] = IF i <= M THEN a[i] ELSE b[i - M]
  BY <1>0, ConcatProperties
<1>2. ASSUME NEW i \in 1 .. M + N
      PROVE  (a \o b)[i] \in FatOp \cup BlockOp /\ (a \o b)[i].cluster \in C
  <2>1. CASE i <= M
    <3>1. i \in 1 .. M /\ (a \o b)[i] = a[i]
      BY <1>1, <2>1
    <3>2. QED
      BY <1>0, <3>1 DEF Within
  <2>2. CASE i > M
    <3>1. i - M \in 1 .. N /\ (a \o b)[i] = b[i - M]
      BY <1>1, <2>2
    <3>2. QED
      BY <1>0, <3>1 DEF Within
  <2>3. i <= M \/ i > M
    OBVIOUS
  <2>4. QED
    BY <2>1, <2>2, <2>3, Zenon
<1>3. QED
  BY <1>1, <1>2 DEF Within

(* No writes are within any clusters. *)
LEMMA WithinEmpty ==
  ASSUME NEW C
  PROVE  <<>> \in Seq(Op) /\ Within(<<>>, C)
  BY EmptySeq DEF Within

(* Writes within B are within more than B. *)
LEMMA WithinMore ==
  ASSUME NEW ops, NEW B, NEW C, Within(ops, B), B \subseteq C
  PROVE  Within(ops, C)
  BY DEF Within

(* One write within C leaves every other cluster alone. *)
LEMMA FrameStep ==
  ASSUME NEW v \in Vol, NEW w \in FatOp \cup BlockOp, NEW C, w.cluster \in C
  PROVE  Agree(Wrote(v, w), v, C)
<1>1. v.fat \in [Copy -> [Cluster -> FatValue]] /\ v.block \in [Cluster -> Block]
  BY DEF Vol
<1>2. CASE w \in FatOp
  <2>1. w.op = "fat" /\ w.copy \in Copy /\ w.cluster \in Cluster
    BY <1>2 DEF FatOp
  <2>2. /\ Wrote(v, w).fat = [v.fat EXCEPT ![w.copy][w.cluster] = w.value]
        /\ Wrote(v, w).block = v.block
    BY <2>1 DEF Wrote, FatWrote, BlockWrote
  <2>3. QED
    BY <1>1, <2>1, <2>2 DEF Agree
<1>3. CASE w \in BlockOp
  <2>1. w.op = "block" /\ w.cluster \in Cluster
    BY <1>3 DEF BlockOp
  <2>2. /\ Wrote(v, w).fat = v.fat
        /\ Wrote(v, w).block = [v.block EXCEPT ![w.cluster] = w.value]
    BY <2>1 DEF Wrote, FatWrote, BlockWrote
  <2>3. QED
    BY <1>1, <2>1, <2>2 DEF Agree
<1>4. QED
  BY <1>2, <1>3

(* Writes within C leave every other cluster alone, all the way. *)
LEMMA Frame ==
  ASSUME NEW v \in Vol, NEW ops \in Seq(Op), NEW C, Within(ops, C)
  PROVE  /\ \A n \in 0 .. Len(ops) : Track(v, ops)[n] \in Vol /\ Agree(Track(v, ops)[n], v, C)
         /\ After(v, ops) \in Vol /\ Agree(After(v, ops), v, C)
<1>0. PICK N \in Nat : N = Len(ops)
  BY LenProperties
<1>1. PICK g : g = Track(v, ops) /\ Tracks(g, v, ops)
  BY TrackExists
<1>2. g \in [0 .. N -> Vol] /\ g[0] = v /\ \A n \in 1 .. N : g[n] = Wrote(g[n - 1], ops[n])
  BY <1>0, <1>1 DEF Tracks
<1> DEFINE P == {n \in 0 .. N : Agree(g[n], v, C)}
<1>3. 0 \in P
  BY <1>2 DEF Agree
<1>4. ASSUME NEW n \in 0 .. N - 1, n \in P PROVE n + 1 \in P
  <2>1. n + 1 \in 1 .. N /\ (n + 1) - 1 = n /\ n \in 0 .. N
    OBVIOUS
  <2>2. PICK u \in Vol : u = g[n] /\ Agree(u, v, C)
    BY <1>2, <1>4, <2>1
  <2>3. g[n + 1] = Wrote(u, ops[n + 1]) /\ ops[n + 1] \in FatOp \cup BlockOp /\ ops[n + 1].cluster \in C
    BY <1>0, <1>2, <2>1, <2>2 DEF Within
  <2>4. Agree(g[n + 1], u, C)
    BY <2>2, <2>3, FrameStep
  <2>5. QED
    BY <2>1, <2>2, <2>4 DEF Agree
<1> HIDE DEF P
<1>5. \A n \in 0 .. N : n \in P
  BY <1>3, <1>4, UpTo
<1>6. \A n \in 0 .. N : g[n] \in Vol /\ Agree(g[n], v, C)
  BY <1>2, <1>5 DEF P
<1>7. QED
  BY <1>0, <1>1, <1>6 DEF After

(* No writes leave the volume as it is. *)
LEMMA NoWrites ==
  ASSUME NEW v \in Vol
  PROVE  <<>> \in Seq(Op) /\ Len(<<>>) = 0 /\ After(v, <<>>) = v /\ Track(v, <<>>)[0] = v
<1>1. <<>> \in Seq(Op) /\ Len(<<>>) = 0
  BY EmptySeq
<1>2. Tracks(Track(v, <<>>), v, <<>>)
  BY <1>1, TrackExists
<1>3. QED
  BY <1>1, <1>2 DEF Tracks, After

-----------------------------------------------------------------------------
(* What the helpers' writes do. *)
FirstSet(u, v, c, x) == u.fat[1] = [v.fat[1] EXCEPT ![c] = x] /\ u.block = v.block
FatSet(u, v, c, x) == (\A k \in Copy : u.fat[k] = [v.fat[k] EXCEPT ![c] = x]) /\ u.block = v.block

(* set_fat_entry: the first copy has the entry after the first write, all  *)
(* copies after the last.                                                  *)
LEMMA SetFatEntryDoes ==
  ASSUME NEW v \in Vol, NEW c \in Cluster, NEW x \in FatValue
  PROVE  /\ SetFatEntry(c, x) \in Seq(Op) /\ Within(SetFatEntry(c, x), {c})
         /\ Len(SetFatEntry(c, x)) = NumFats
         /\ \A n \in 1 .. NumFats : FirstSet(Track(v, SetFatEntry(c, x))[n], v, c, x)
         /\ FatSet(After(v, SetFatEntry(c, x)), v, c, x)
<1>0. PICK N \in Nat : N = NumFats /\ N >= 1 /\ Copy = 1 .. N
  BY Sizes32
<1>1. PICK ops : ops = SetFatEntry(c, x) /\ ops = [k \in 1 .. N |-> [op |-> "fat", copy |-> k, cluster |-> c, value |-> x]]
  BY <1>0 DEF SetFatEntry
<1>2. ops \in [1 .. N -> FatOp]
  BY <1>0, <1>1 DEF FatOp
<1>3. ops \in [1 .. N -> FatOp \cup BlockOp]
  BY <1>2
<1>4. ops \in Seq(FatOp \cup BlockOp) /\ Len(ops) = N
  BY <1>3, ArrayIsSeq
<1>5. ops \in Seq(Op) /\ Within(ops, {c})
  <2>1. \A n \in 1 .. Len(ops) : ops[n].cluster \in {c}
    BY <1>1, <1>4
  <2>2. QED
    BY <1>4, <2>1, WithinOps
<1>6. PICK g : g = Track(v, ops) /\ Tracks(g, v, ops)
  BY <1>5, TrackExists
<1>7. g \in [0 .. N -> Vol] /\ g[0] = v /\ \A n \in 1 .. N : g[n] = Wrote(g[n - 1], ops[n])
  BY <1>4, <1>6 DEF Tracks
<1> DEFINE Done(u, n) ==
             /\ u.block = v.block
             /\ \A k \in 1 .. N : u.fat[k] = IF k <= n THEN [v.fat[k] EXCEPT ![c] = x] ELSE v.fat[k]
           P == {n \in 0 .. N : Done(g[n], n)}
<1>8. 0 \in P
  BY <1>7
<1>9. ASSUME NEW n \in 0 .. N - 1, n \in P PROVE n + 1 \in P
  <2>1. n + 1 \in 1 .. N /\ (n + 1) - 1 = n /\ n \in 0 .. N
    OBVIOUS
  <2>2. PICK u \in Vol : u = g[n] /\ Done(u, n)
    BY <1>7, <1>9, <2>1
  <2>3. g[n + 1] = Wrote(u, [op |-> "fat", copy |-> n + 1, cluster |-> c, value |-> x])
    BY <1>1, <1>7, <2>1, <2>2
  <2>4. g[n + 1].fat = [u.fat EXCEPT ![n + 1][c] = x] /\ g[n + 1].block = u.block
    BY <2>3 DEF Wrote, FatWrote, BlockWrote
  <2>5. u.fat \in [1 .. N -> [Cluster -> FatValue]]
    BY <1>0 DEF Vol
  <2>6. ASSUME NEW k \in 1 .. N
        PROVE  g[n + 1].fat[k] = IF k <= n + 1 THEN [v.fat[k] EXCEPT ![c] = x] ELSE v.fat[k]
    <3>1. CASE k = n + 1
      BY <2>1, <2>2, <2>4, <2>5, <3>1
    <3>2. CASE k # n + 1
      <4>1. g[n + 1].fat[k] = u.fat[k] /\ (k <= n + 1 <=> k <= n)
        BY <2>1, <2>4, <2>5, <3>2
      <4>2. QED
        BY <2>2, <4>1
    <3>3. QED
      BY <3>1, <3>2
  <2>8. Done(g[n + 1], n + 1)
    BY <2>2, <2>4, <2>6
  <2>9. QED
    BY <2>1, <2>8
<1> HIDE DEF P
<1>10. \A n \in 0 .. N : n \in P
  BY <1>8, <1>9, UpTo
<1>11. \A n \in 0 .. N : Done(g[n], n)
  BY <1>10 DEF P
<1>12. \A n \in 1 .. N : FirstSet(g[n], v, c, x)
  BY <1>0, <1>11 DEF FirstSet
<1>13. (\A k \in 1 .. N : g[N].fat[k] = [v.fat[k] EXCEPT ![c] = x]) /\ g[N].block = v.block
  BY <1>0, <1>11
<1>14. After(v, ops) = g[N]
  BY <1>4, <1>6 DEF After
<1>15. FatSet(After(v, ops), v, c, x)
  BY <1>0, <1>13, <1>14 DEF FatSet
<1>16. QED
  BY <1>0, <1>1, <1>4, <1>5, <1>6, <1>12, <1>15

(* A zeroed cluster is a directory block of End entries. *)
LEMMA ZeroedBlock == Zeroed \in Block /\ Zeroed \in DirBlock /\ \A s \in 1 .. DirSlots : Zeroed.dir[s] = End
<1>1. End \in Marks
  BY DEF Marks
<1>2. Zeroed \in DirBlock /\ \A s \in 1 .. DirSlots : Zeroed.dir[s] = End
  BY <1>1 DEF Zeroed, DirBlock
<1>3. QED
  BY <1>2, Blocks

(* zero_cluster. *)
LEMMA ZeroClusterDoes ==
  ASSUME NEW v \in Vol, NEW c \in Cluster
  PROVE  /\ ZeroCluster(c) \in Seq(Op) /\ Within(ZeroCluster(c), {c})
         /\ After(v, ZeroCluster(c)).fat = v.fat
         /\ After(v, ZeroCluster(c)).block = [v.block EXCEPT ![c] = Zeroed]
<1>1. PICK w : w = [op |-> "block", cluster |-> c, value |-> Zeroed] /\ ZeroCluster(c) = <<w>>
  BY DEF ZeroCluster
<1>2. w \in BlockOp
  BY <1>1, ZeroedBlock DEF BlockOp
<1> DEFINE ops == <<w>>
<1>3. ops \in Seq(FatOp \cup BlockOp) /\ Len(ops) = 1 /\ ops[1] = w
  BY <1>2
<1> HIDE DEF ops
<1>4. ops \in Seq(Op) /\ Within(ops, {c})
  <2>1. \A n \in 1 .. Len(ops) : ops[n].cluster \in {c}
    BY <1>1, <1>3
  <2>2. QED
    BY <1>3, <2>1, WithinOps
<1>5. PICK g : g = Track(v, ops) /\ Tracks(g, v, ops)
  BY <1>4, TrackExists
<1>6. g[1] = Wrote(v, w)
  BY <1>3, <1>5 DEF Tracks
<1>7. After(v, ops) = Wrote(v, w)
  BY <1>3, <1>5, <1>6 DEF After
<1>8. Wrote(v, w).fat = v.fat /\ Wrote(v, w).block = [v.block EXCEPT ![c] = Zeroed]
  BY <1>1 DEF Wrote, FatWrote, BlockWrote
<1>9. QED
  BY <1>1, <1>4, <1>7, <1>8 DEF ops

Ran(s) == {s[i] : i \in 1 .. Len(s)}
Distinct(s) == \A i, j \in 1 .. Len(s) : s[i] = s[j] => i = j

(* Two sequences of writes, one after the other. *)
LEMMA AfterJoin ==
  ASSUME NEW v \in Vol, NEW a \in Seq(Op), NEW b \in Seq(Op)
  PROVE  After(v, a) \in Vol /\ a \o b \in Seq(Op) /\ After(v, a \o b) = After(After(v, a), b)
  BY TrackJoin, TrackExists

AllocatePiece(cs, n) ==
  SetFatEntry(cs[n], Eoc) \o ZeroCluster(cs[n]) \o
  (IF n = 1 THEN <<>> ELSE SetFatEntry(cs[n - 1], cs[n]))

(* One round of allocate_chain: mark, zero and link the n-th cluster. *)
LEMMA AllocatePieceDoes ==
  ASSUME NEW v \in Vol, NEW cs \in Seq(Cluster), NEW n \in 1 .. Len(cs)
  PROVE  /\ AllocatePiece(cs, n) \in Seq(Op) /\ Within(AllocatePiece(cs, n), Ran(cs))
         /\ After(v, AllocatePiece(cs, n)) \in Vol
         /\ \A k \in Copy : After(v, AllocatePiece(cs, n)).fat[k] =
              IF n = 1 THEN [v.fat[k] EXCEPT ![cs[n]] = Eoc]
              ELSE [[v.fat[k] EXCEPT ![cs[n]] = Eoc] EXCEPT ![cs[n - 1]] = cs[n]]
         /\ After(v, AllocatePiece(cs, n)).block = [v.block EXCEPT ![cs[n]] = Zeroed]
<1>0. Len(cs) \in Nat
  BY LenProperties
<1>1. cs[n] \in Cluster /\ cs[n] \in Ran(cs)
  BY ElementOfSeq DEF Ran
<1>2. n # 1 => cs[n - 1] \in Cluster /\ cs[n - 1] \in Ran(cs)
  <2>1. n # 1 => n - 1 \in 1 .. Len(cs)
    BY <1>0
  <2>2. QED
    BY <2>1, ElementOfSeq DEF Ran
<1>3. Eoc \in FatValue /\ Cluster \subseteq FatValue
  BY DEF FatValue
<1> DEFINE a == SetFatEntry(cs[n], Eoc)
           b == ZeroCluster(cs[n])
           l == IF n = 1 THEN <<>> ELSE SetFatEntry(cs[n - 1], cs[n])
           u == After(v, a)
           t == After(u, b)
<1>4. /\ a \in Seq(Op) /\ Within(a, Ran(cs)) /\ u \in Vol
      /\ \A k \in Copy : u.fat[k] = [v.fat[k] EXCEPT ![cs[n]] = Eoc]
      /\ u.block = v.block
  <2>1. {cs[n]} \subseteq Ran(cs)
    BY <1>1
  <2>2. a \in Seq(Op) /\ Within(a, {cs[n]})
    BY <1>1, <1>3, SetFatEntryDoes
  <2>3. FatSet(u, v, cs[n], Eoc)
    BY <1>1, <1>3, SetFatEntryDoes
  <2> HIDE DEF a
  <2>4. Within(a, Ran(cs)) /\ u \in Vol
    BY <2>1, <2>2, WithinMore, TrackExists
  <2>5. QED
    BY <2>2, <2>3, <2>4 DEF FatSet
<1> HIDE DEF a, u
<1>5. /\ b \in Seq(Op) /\ Within(b, Ran(cs)) /\ t \in Vol
      /\ t.fat = u.fat
      /\ t.block = [u.block EXCEPT ![cs[n]] = Zeroed]
  <2>1. {cs[n]} \subseteq Ran(cs)
    BY <1>1
  <2>2. QED
    BY <1>1, <1>4, <2>1, ZeroClusterDoes, WithinMore, TrackExists
<1> HIDE DEF b, t
<1>6. /\ l \in Seq(Op) /\ Within(l, Ran(cs)) /\ After(t, l) \in Vol
      /\ \A k \in Copy : After(t, l).fat[k] = IF n = 1 THEN t.fat[k] ELSE [t.fat[k] EXCEPT ![cs[n - 1]] = cs[n]]
      /\ After(t, l).block = t.block
  <2>1. CASE n = 1
    BY <1>5, <2>1, NoWrites, WithinEmpty
  <2>2. CASE n # 1
    <3>1. {cs[n - 1]} \subseteq Ran(cs) /\ l = SetFatEntry(cs[n - 1], cs[n]) /\ cs[n] \in FatValue
      BY <1>1, <1>2, <1>3, <2>2
    <3> HIDE DEF l
    <3>2. l \in Seq(Op) /\ Within(l, {cs[n - 1]})
      BY <1>2, <1>5, <2>2, <3>1, SetFatEntryDoes
    <3>3. FatSet(After(t, l), t, cs[n - 1], cs[n])
      BY <1>2, <1>5, <2>2, <3>1, SetFatEntryDoes
    <3>4. Within(l, Ran(cs)) /\ After(t, l) \in Vol
      BY <1>5, <3>1, <3>2, WithinMore, TrackExists
    <3>5. QED
      BY <2>2, <3>2, <3>3, <3>4 DEF FatSet
  <2>3. QED
    BY <2>1, <2>2
<1> HIDE DEF l
<1>7. AllocatePiece(cs, n) = (a \o b) \o l
  BY DEF AllocatePiece, a, b, l
<1>8. a \o b \in Seq(Op) /\ Within(a \o b, Ran(cs)) /\ After(v, a \o b) = t
  BY <1>4, <1>5, WithinJoin, AfterJoin DEF u, t
<1>9. /\ (a \o b) \o l \in Seq(Op) /\ Within((a \o b) \o l, Ran(cs))
      /\ After(v, (a \o b) \o l) = After(t, l)
  BY <1>6, <1>8, WithinJoin, AfterJoin
<1>10. \A k \in Copy : After(t, l).fat[k] =
              IF n = 1 THEN [v.fat[k] EXCEPT ![cs[n]] = Eoc]
              ELSE [[v.fat[k] EXCEPT ![cs[n]] = Eoc] EXCEPT ![cs[n - 1]] = cs[n]]
  <2>1. ASSUME NEW k \in Copy PROVE t.fat[k] = [v.fat[k] EXCEPT ![cs[n]] = Eoc]
    BY <1>4, <1>5
  <2>2. QED
    BY <1>6, <2>1
<1>11. QED
  BY <1>4, <1>5, <1>6, <1>7, <1>9, <1>10

(* The first n clusters of cs, zeroed and linked. *)
Strung(u, cs, n) ==
  \A i \in 1 .. n :
    /\ u.block[cs[i]] = Zeroed
    /\ \A k \in Copy : u.fat[k][cs[i]] = IF i = n THEN Eoc ELSE cs[i + 1]

(* Two updates of a function, the later one on top. *)
LEMMA ExceptTwice ==
  ASSUME NEW A, NEW B, NEW f \in [A -> B], NEW a \in A, NEW x, NEW b \in A, NEW y, NEW c \in A
  PROVE  [[f EXCEPT ![a] = x] EXCEPT ![b] = y][c] = IF c = b THEN y ELSE IF c = a THEN x ELSE f[c]
  OBVIOUS

(* A round of allocate_chain adds one cluster to the string. *)
LEMMA PieceStrings ==
  ASSUME NEW v \in Vol, NEW cs \in Seq(Cluster), Distinct(cs), NEW n \in 1 .. Len(cs),
         Strung(v, cs, n - 1)
  PROVE  Strung(After(v, AllocatePiece(cs, n)), cs, n)
<1>0. PICK N \in Nat : N = Len(cs)
  BY LenProperties
<1> DEFINE u == After(v, AllocatePiece(cs, n))
<1>1. /\ \A k \in Copy : u.fat[k] =
              IF n = 1 THEN [v.fat[k] EXCEPT ![cs[n]] = Eoc]
              ELSE [[v.fat[k] EXCEPT ![cs[n]] = Eoc] EXCEPT ![cs[n - 1]] = cs[n]]
      /\ u.block = [v.block EXCEPT ![cs[n]] = Zeroed]
  BY AllocatePieceDoes, SMTT(30)
<1> HIDE DEF u
<1>2. \A i \in 1 .. n : cs[i] \in Cluster /\ (i < n => cs[i] # cs[n]) /\ (i < n - 1 => cs[i] # cs[n - 1])
  <2>1. ASSUME NEW i \in 1 .. n PROVE cs[i] \in Cluster /\ (i < n => cs[i] # cs[n]) /\ (i < n - 1 => cs[i] # cs[n - 1])
    <3>1. i \in 1 .. N /\ n \in 1 .. N /\ (i < n - 1 => n - 1 \in 1 .. N)
      BY <1>0
    <3>2. cs[i] \in Cluster
      BY <1>0, <3>1, ElementOfSeq
    <3>3. QED
      BY <1>0, <3>1, <3>2 DEF Distinct
  <2>2. QED
    BY <2>1
<1>3. v.fat \in [Copy -> [Cluster -> FatValue]] /\ v.block \in [Cluster -> Block]
  BY DEF Vol
<1>a. cs[n] \in Cluster /\ (n # 1 => cs[n - 1] \in Cluster)
  <2>1. n \in 1 .. n /\ (n # 1 => n - 1 \in 1 .. n)
    OBVIOUS
  <2>2. QED
    BY <1>2, <2>1
<1>b. ASSUME NEW k \in Copy, NEW c \in Cluster
      PROVE  /\ n = 1 => u.fat[k][c] = IF c = cs[n] THEN Eoc ELSE v.fat[k][c]
             /\ n # 1 => u.fat[k][c] = IF c = cs[n - 1] THEN cs[n] ELSE IF c = cs[n] THEN Eoc ELSE v.fat[k][c]
  <2>1. PICK f \in [Cluster -> FatValue] : f = v.fat[k]
    BY <1>3
  <2>2. CASE n = 1
    <3>1. u.fat[k] = [f EXCEPT ![cs[n]] = Eoc]
      BY <1>1, <2>1, <2>2
    <3>2. QED
      BY <1>a, <2>1, <2>2, <3>1
  <2>3. CASE n # 1
    <3>1. u.fat[k] = [[f EXCEPT ![cs[n]] = Eoc] EXCEPT ![cs[n - 1]] = cs[n]]
      BY <1>1, <2>1, <2>3
    <3>2. QED
      BY <1>a, <2>1, <2>3, <3>1, ExceptTwice
  <2>4. QED
    BY <2>2, <2>3
<1>4. ASSUME NEW i \in 1 .. n
      PROVE  /\ u.block[cs[i]] = Zeroed
             /\ \A k \in Copy : u.fat[k][cs[i]] = IF i = n THEN Eoc ELSE cs[i + 1]
  <2>1. CASE i = n
    <3>1. u.block[cs[i]] = Zeroed
      BY <1>1, <1>2, <1>3, <2>1
    <3>2. n # 1 => cs[n - 1] # cs[n] /\ n - 1 \in 1 .. n
      BY <1>2
    <3>3. ASSUME NEW k \in Copy PROVE u.fat[k][cs[i]] = Eoc
      BY <1>a, <1>b, <2>1, <3>2
    <3>4. QED
      BY <2>1, <3>1, <3>3
  <2>2. CASE i = n - 1
    <3>1. i \in 1 .. n - 1 /\ i < n /\ n # 1 /\ i + 1 = n
      BY <2>2
    <3>2. cs[i] # cs[n] /\ cs[i] \in Cluster /\ v.block[cs[i]] = Zeroed
      BY <1>2, <3>1 DEF Strung
    <3>3. u.block[cs[i]] = Zeroed
      BY <1>1, <1>3, <3>2
    <3>4. ASSUME NEW k \in Copy PROVE u.fat[k][cs[i]] = cs[n]
      BY <1>b, <2>2, <3>1, <3>2
    <3>5. QED
      BY <3>1, <3>3, <3>4
  <2>3. CASE i < n - 1
    <3>1. i \in 1 .. n - 1 /\ i < n /\ n # 1 /\ i # n - 1 /\ i # n
      BY <2>3
    <3>2. /\ cs[i] # cs[n] /\ cs[i] # cs[n - 1] /\ cs[i] \in Cluster /\ v.block[cs[i]] = Zeroed
          /\ \A k \in Copy : v.fat[k][cs[i]] = cs[i + 1]
      BY <1>2, <2>3, <3>1 DEF Strung
    <3>3. u.block[cs[i]] = Zeroed
      BY <1>1, <1>3, <3>2
    <3>4. ASSUME NEW k \in Copy PROVE u.fat[k][cs[i]] = cs[i + 1]
      BY <1>b, <3>1, <3>2
    <3>5. QED
      BY <3>1, <3>3, <3>4
  <2>4. i = n \/ i = n - 1 \/ i < n - 1
    BY <1>0
  <2>5. QED
    BY <2>1, <2>2, <2>3, <2>4, Zenon
<1>5. QED
  BY <1>4 DEF Strung, u

(* allocate_chain strings its clusters and touches no others. *)
LEMMA AllocateChainDoes ==
  ASSUME NEW v \in Vol, NEW cs \in Seq(Cluster), Distinct(cs)
  PROVE  /\ AllocateChain(cs) \in Seq(Op) /\ Within(AllocateChain(cs), Ran(cs))
         /\ After(v, AllocateChain(cs)) \in Vol
         /\ Strung(After(v, AllocateChain(cs)), cs, Len(cs))
<1>0. PICK N \in Nat : N = Len(cs)
  BY LenProperties
<1> DEFINE ss == [n \in 1 .. N |-> AllocatePiece(cs, n)]
<1>1. \A n \in 1 .. N : AllocatePiece(cs, n) \in Seq(Op) /\ Within(AllocatePiece(cs, n), Ran(cs))
  BY <1>0, AllocatePieceDoes
<1>2. ss \in Seq(Seq(Op)) /\ Len(ss) = N
  <2>1. ss \in [1 .. N -> Seq(Op)]
    BY <1>1
  <2>2. QED
    BY <2>1, ArrayIsSeq
<1>3. AllocateChain(cs) = Joined(ss)
  BY <1>0 DEF AllocateChain, AllocatePiece
<1>4. \A n \in 1 .. N : ss[n] = AllocatePiece(cs, n)
  OBVIOUS
<1> HIDE DEF ss
<1>5. PICK g \in [0 .. N -> Seq(Op)] : JoinsUp(g, ss) /\ Joined(ss) = g[N]
  BY <1>2, JoinedRuns
<1> DEFINE P == {n \in 0 .. N : Within(g[n], Ran(cs)) /\ Strung(After(v, g[n]), cs, n)}
<1>6. 0 \in P
  BY <1>5, WithinEmpty DEF JoinsUp, Strung
<1>7. ASSUME NEW n \in 0 .. N - 1, n \in P PROVE n + 1 \in P
  <2>1. n + 1 \in 1 .. N /\ (n + 1) - 1 = n /\ n \in 0 .. N
    OBVIOUS
  <2>2. PICK o \in Seq(Op) : o = g[n] /\ Within(o, Ran(cs)) /\ Strung(After(v, o), cs, n)
    BY <1>5, <1>7, <2>1
  <2>3. g[n + 1] = o \o AllocatePiece(cs, n + 1)
    BY <1>2, <1>4, <1>5, <2>1, <2>2 DEF JoinsUp
  <2>4. Within(g[n + 1], Ran(cs)) /\ After(v, g[n + 1]) = After(After(v, o), AllocatePiece(cs, n + 1)) /\ After(v, o) \in Vol
    BY <1>1, <2>1, <2>2, <2>3, WithinJoin, AfterJoin
  <2>5. Strung(After(v, g[n + 1]), cs, n + 1)
    BY <1>0, <2>1, <2>2, <2>4, PieceStrings
  <2>6. QED
    BY <2>1, <2>4, <2>5
<1> HIDE DEF P
<1>8. \A n \in 0 .. N : n \in P
  BY <1>6, <1>7, UpTo
<1>9. Within(g[N], Ran(cs)) /\ Strung(After(v, g[N]), cs, N) /\ g[N] \in Seq(Op)
  BY <1>5, <1>8 DEF P
<1>10. QED
  BY <1>0, <1>3, <1>5, <1>9, TrackExists

FreeEach(tail) == Joined([n \in 1 .. Len(tail) |-> SetFatEntry(tail[n], Free)])

(* free_chain_from frees every cluster of the tail and touches no others. *)
LEMMA FreeEachDoes ==
  ASSUME NEW v \in Vol, NEW tail \in Seq(Cluster)
  PROVE  /\ FreeEach(tail) \in Seq(Op) /\ Within(FreeEach(tail), Ran(tail))
         /\ After(v, FreeEach(tail)) \in Vol
         /\ \A i \in 1 .. Len(tail), k \in Copy : After(v, FreeEach(tail)).fat[k][tail[i]] = Free
<1>0. PICK N \in Nat : N = Len(tail)
  BY LenProperties
<1>1. \A n \in 1 .. N : tail[n] \in Cluster /\ {tail[n]} \subseteq Ran(tail)
  BY <1>0, ElementOfSeq DEF Ran
<1>2. Free \in FatValue
  BY DEF FatValue
<1> DEFINE ss == [n \in 1 .. N |-> SetFatEntry(tail[n], Free)]
<1>3. ASSUME NEW n \in 1 .. N
      PROVE  SetFatEntry(tail[n], Free) \in Seq(Op) /\ Within(SetFatEntry(tail[n], Free), Ran(tail))
  <2>1. SetFatEntry(tail[n], Free) \in Seq(Op) /\ Within(SetFatEntry(tail[n], Free), {tail[n]})
    BY <1>1, <1>2, SetFatEntryDoes
  <2>2. QED
    BY <1>1, <2>1, WithinMore
<1>4. ss \in Seq(Seq(Op)) /\ Len(ss) = N
  <2>1. ss \in [1 .. N -> Seq(Op)]
    BY <1>3
  <2>2. QED
    BY <2>1, ArrayIsSeq
<1>5. FreeEach(tail) = Joined(ss)
  BY <1>0 DEF FreeEach
<1>6. \A n \in 1 .. N : ss[n] = SetFatEntry(tail[n], Free)
  OBVIOUS
<1> HIDE DEF ss
<1>7. PICK g \in [0 .. N -> Seq(Op)] : JoinsUp(g, ss) /\ Joined(ss) = g[N]
  BY <1>4, JoinedRuns
<1> DEFINE Freed(u, n) == \A i \in 1 .. n, k \in Copy : u.fat[k][tail[i]] = Free
           P == {n \in 0 .. N : Within(g[n], Ran(tail)) /\ Freed(After(v, g[n]), n)}
<1>8. 0 \in P
  BY <1>7, WithinEmpty DEF JoinsUp
<1>9. ASSUME NEW n \in 0 .. N - 1, n \in P PROVE n + 1 \in P
  <2>1. n + 1 \in 1 .. N /\ (n + 1) - 1 = n /\ n \in 0 .. N
    OBVIOUS
  <2>2. PICK o \in Seq(Op) : o = g[n] /\ Within(o, Ran(tail)) /\ Freed(After(v, o), n)
    BY <1>7, <1>9, <2>1
  <2>3. g[n + 1] = o \o SetFatEntry(tail[n + 1], Free)
    BY <1>4, <1>6, <1>7, <2>1, <2>2 DEF JoinsUp
  <2> DEFINE u == After(v, o)
             t == After(v, g[n + 1])
  <2>4. Within(g[n + 1], Ran(tail)) /\ t = After(u, SetFatEntry(tail[n + 1], Free)) /\ u \in Vol
    BY <1>3, <2>1, <2>2, <2>3, WithinJoin, AfterJoin
  <2>5. Freed(u, n)
    BY <2>2
  <2> HIDE DEF u, t
  <2>6. FatSet(t, u, tail[n + 1], Free)
    BY <1>1, <1>2, <2>1, <2>4, SetFatEntryDoes
  <2>7. ASSUME NEW i \in 1 .. n + 1, NEW k \in Copy PROVE t.fat[k][tail[i]] = Free
    <3>1. i \in 1 .. N /\ tail[i] \in Cluster /\ tail[n + 1] \in Cluster
      BY <1>1, <2>1
    <3>2. PICK f \in [Cluster -> FatValue] : f = u.fat[k] /\ t.fat[k] = [f EXCEPT ![tail[n + 1]] = Free]
      BY <2>4, <2>6 DEF FatSet, Vol
    <3>3. CASE i = n + 1
      BY <3>1, <3>2, <3>3
    <3>4. CASE i # n + 1
      <4>0. i \in 1 .. n
        BY <3>4
      <4>1. f[tail[i]] = Free
        BY <2>5, <3>2, <4>0
      <4>2. QED
        BY <3>1, <3>2, <4>1
    <3>5. QED
      BY <3>3, <3>4
  <2>8. QED
    BY <2>1, <2>4, <2>7 DEF t
<1> HIDE DEF P
<1>10. \A n \in 0 .. N : n \in P
  BY <1>8, <1>9, UpTo
<1>11. Within(g[N], Ran(tail)) /\ Freed(After(v, g[N]), N) /\ g[N] \in Seq(Op)
  BY <1>7, <1>10 DEF P
<1>12. QED
  BY <1>0, <1>5, <1>7, <1>11, TrackExists

(* A cluster of file data is a block. *)
LEMMA DataType ==
  ASSUME NEW x \in FileName, NEW u \in 1 .. MaxWrites, NEW n \in Nat \ {0}
  PROVE  FileData(x, u, n) \in Block
  BY DEF FileData, Block

(* The data writes of write_file fill each cluster of the path and change  *)
(* no FAT.                                                                 *)
LEMMA DataWritesDo ==
  ASSUME NEW v \in Vol, NEW path \in Seq(Cluster), Distinct(path), NEW x \in FileName,
         NEW z \in 1 .. MaxWrites
  PROVE  /\ DataWrites(path, x, z) \in Seq(Op) /\ Within(DataWrites(path, x, z), Ran(path))
         /\ After(v, DataWrites(path, x, z)) \in Vol
         /\ After(v, DataWrites(path, x, z)).fat = v.fat
         /\ \A i \in 1 .. Len(path) : After(v, DataWrites(path, x, z)).block[path[i]] = FileData(x, z, i)
<1>0. PICK N \in Nat : N = Len(path) /\ DOMAIN path = 1 .. N
  BY LenProperties
<1>1. \A n \in 1 .. N : path[n] \in Cluster /\ path[n] \in Ran(path)
  BY <1>0, ElementOfSeq DEF Ran
<1> DEFINE ops == DataWrites(path, x, z)
           W(n) == [op |-> "block", cluster |-> path[n], value |-> FileData(x, z, n)]
<1>2. ops = [n \in 1 .. N |-> W(n)]
  BY <1>0 DEF DataWrites
<1>3. \A n \in 1 .. N : W(n) \in BlockOp
  BY <1>1, DataType DEF BlockOp
<1>4. ops \in [1 .. N -> FatOp \cup BlockOp] /\ \A n \in 1 .. N : ops[n] = W(n)
  BY <1>2, <1>3
<1> HIDE DEF ops
<1>5. ops \in Seq(FatOp \cup BlockOp) /\ Len(ops) = N
  BY <1>4, ArrayIsSeq
<1>6. ops \in Seq(Op) /\ Within(ops, Ran(path))
  <2>1. \A n \in 1 .. Len(ops) : ops[n].cluster \in Ran(path)
    BY <1>1, <1>4, <1>5
  <2>2. QED
    BY <1>5, <2>1, WithinOps
<1>7. PICK g : g = Track(v, ops) /\ Tracks(g, v, ops)
  BY <1>6, TrackExists
<1>8. g \in [0 .. N -> Vol] /\ g[0] = v /\ \A n \in 1 .. N : g[n] = Wrote(g[n - 1], ops[n])
  BY <1>5, <1>7 DEF Tracks
<1> DEFINE Done(u, n) == u.fat = v.fat /\ \A i \in 1 .. n : u.block[path[i]] = FileData(x, z, i)
           P == {n \in 0 .. N : Done(g[n], n)}
<1>9. 0 \in P
  BY <1>8
<1>10. ASSUME NEW n \in 0 .. N - 1, n \in P PROVE n + 1 \in P
  <2>1. n + 1 \in 1 .. N /\ (n + 1) - 1 = n /\ n \in 0 .. N
    OBVIOUS
  <2>2. PICK u \in Vol : u = g[n] /\ Done(u, n)
    BY <1>8, <1>10, <2>1
  <2>3. g[n + 1] = Wrote(u, W(n + 1))
    BY <1>4, <1>8, <2>1, <2>2
  <2>4. g[n + 1].fat = u.fat /\ g[n + 1].block = [u.block EXCEPT ![path[n + 1]] = FileData(x, z, n + 1)]
    BY <2>3 DEF Wrote, FatWrote, BlockWrote
  <2>5. u.block \in [Cluster -> Block]
    BY DEF Vol
  <2>6. ASSUME NEW i \in 1 .. n + 1 PROVE g[n + 1].block[path[i]] = FileData(x, z, i)
    <3>1. i \in 1 .. N /\ path[i] \in Cluster /\ path[n + 1] \in Cluster
      BY <1>1, <2>1
    <3>2. CASE i = n + 1
      BY <2>4, <2>5, <3>1, <3>2
    <3>3. CASE i # n + 1
      <4>1. u.block[path[i]] = FileData(x, z, i)
        BY <2>2, <3>3
      <4>2. path[i] # path[n + 1]
        BY <1>0, <2>1, <3>1, <3>3 DEF Distinct
      <4>3. QED
        BY <2>4, <2>5, <3>1, <4>1, <4>2
    <3>4. QED
      BY <3>2, <3>3
  <2>7. Done(g[n + 1], n + 1)
    BY <2>2, <2>4, <2>6
  <2>8. QED
    BY <2>1, <2>7
<1> HIDE DEF P
<1>11. \A n \in 0 .. N : n \in P
  BY <1>9, <1>10, UpTo
<1>12. Done(g[N], N)
  BY <1>11 DEF P
<1>13. After(v, ops) = g[N] /\ g[N] \in Vol
  BY <1>5, <1>7, <1>8 DEF After
<1>14. QED
  BY <1>0, <1>6, <1>12, <1>13 DEF ops

(* The first FAT copy after one write. *)
LEMMA FatStep ==
  ASSUME NEW u \in Vol, NEW w \in Op
  PROVE  Wrote(u, w).fat[1] = FatAfter(u.fat[1], w)
<1>1. u.fat \in [Copy -> [Cluster -> FatValue]] /\ 1 \in Copy
  BY Sizes32 DEF Vol
<1>2. Wrote(u, w).fat = FatWrote(u.fat, w)
  BY DEF Wrote
<1>3. CASE w \in FatOp
  <2>1. w.op = "fat" /\ w.copy \in Copy
    BY <1>3 DEF FatOp
  <2>2. CASE w.copy = 1
    BY <1>1, <1>2, <2>1, <2>2 DEF FatWrote, FatAfter
  <2>3. CASE w.copy # 1
    BY <1>1, <1>2, <2>1, <2>3 DEF FatWrote, FatAfter
  <2>4. QED
    BY <2>2, <2>3
<1>4. CASE w \in BlockOp \cup DirOp
  <2>1. w.op # "fat"
    BY <1>4 DEF BlockOp, DirOp
  <2>2. QED
    BY <1>2, <2>1 DEF FatWrote, FatAfter
<1>5. QED
  BY <1>3, <1>4 DEF Op

(* write_file computes with the first FAT copy as its writes will leave it. *)
LEMMA AfterWritesIs ==
  ASSUME NEW v \in Vol, NEW ops \in Seq(Op)
  PROVE  AfterWrites(v.fat[1], ops) = After(v, ops).fat[1]
<1>0. PICK N \in Nat : N = Len(ops)
  BY LenProperties
<1>1. PICK g : g = Track(v, ops) /\ Tracks(g, v, ops)
  BY TrackExists
<1>2. g \in [0 .. N -> Vol] /\ g[0] = v /\ \A n \in 1 .. N : g[n] = Wrote(g[n - 1], ops[n])
  BY <1>0, <1>1 DEF Tracks
<1>3. \A n \in 1 .. N : ops[n] \in Op /\ n - 1 \in 0 .. N
  BY <1>0, ElementOfSeq
<1>4. PICK h : h = [n \in 0 .. N |-> g[n].fat[1]]
  OBVIOUS
<1>5. ASSUME NEW n \in 1 .. N PROVE h[n] = FatAfter(h[n - 1], ops[n])
  <2>1. g[n - 1] \in Vol /\ g[n] = Wrote(g[n - 1], ops[n]) /\ ops[n] \in Op /\ n - 1 \in 0 .. N
    BY <1>2, <1>3
  <2>2. g[n].fat[1] = FatAfter(g[n - 1].fat[1], ops[n])
    BY <2>1, FatStep
  <2>3. QED
    BY <1>4, <2>1, <2>2
<1> DEFINE Body(f) == [n \in 0 .. Len(ops) |-> IF n = 0 THEN v.fat[1] ELSE FatAfter(f[n - 1], ops[n])]
           Aft == CHOOSE f : f = Body(f)
<1>6. h = Body(h)
  <2>1. ASSUME NEW n \in 0 .. N PROVE h[n] = Body(h)[n]
    <3>1. CASE n = 0
      BY <1>0, <1>2, <1>4, <3>1
    <3>2. CASE n # 0
      <4>1. n \in 1 .. N
        BY <3>2
      <4>2. QED
        BY <1>0, <1>5, <3>2, <4>1
    <3>3. QED
      BY <3>1, <3>2
  <2>2. h = [n \in 0 .. N |-> h[n]]
    BY <1>4
  <2>3. QED
    BY <1>0, <2>1, <2>2
<1>7. Aft = Body(Aft)
  BY <1>6
<1>8. AfterWrites(v.fat[1], ops) = Aft[Len(ops)]
  BY DEF AfterWrites
<1> HIDE DEF Aft
<1>9. \A n \in 0 .. N : Aft[n] = h[n]
  <2> DEFINE P == {n \in 0 .. N : Aft[n] = h[n]}
  <2>1. 0 \in P
    BY <1>0, <1>6, <1>7
  <2>2. ASSUME NEW n \in 0 .. N - 1, n \in P PROVE n + 1 \in P
    <3>1. n + 1 \in 0 .. N /\ n + 1 # 0 /\ (n + 1) - 1 = n
      OBVIOUS
    <3>2. Aft[n + 1] = FatAfter(Aft[n], ops[n + 1]) /\ h[n + 1] = FatAfter(h[n], ops[n + 1])
      BY <1>0, <1>6, <1>7, <3>1
    <3>3. QED
      BY <2>2, <3>1, <3>2
  <2> HIDE DEF P
  <2>3. \A n \in 0 .. N : n \in P
    BY <2>1, <2>2, UpTo
  <2>4. QED
    BY <2>3 DEF P
<1>10. h[N] = g[N].fat[1] /\ After(v, ops) = g[N]
  BY <1>0, <1>1, <1>4 DEF After
<1>11. QED
  BY <1>0, <1>8, <1>9, <1>10

-----------------------------------------------------------------------------
-----------------------------------------------------------------------------
(* Chains.  A path is a chain as the clusters it leads through. *)
Path(f, p) ==
  /\ p \in Seq(Cluster) /\ p # <<>> /\ Distinct(p)
  /\ \A i \in 1 .. Len(p) : f[p[i]] = IF i = Len(p) THEN Eoc ELSE p[i + 1]

(* What a path gives: its clusters are allocated, linked in order and end  *)
(* in Eoc.                                                                 *)
LEMMA PathFacts ==
  ASSUME NEW f, NEW p, Path(f, p)
  PROVE  /\ Len(p) \in Nat /\ Len(p) >= 1 /\ DOMAIN p = 1 .. Len(p)
         /\ \A i \in 1 .. Len(p) : p[i] \in Cluster /\ p[i] # 0 /\ f[p[i]] # Free
         /\ \A i \in 1 .. Len(p) : i < Len(p) => i + 1 \in 1 .. Len(p) /\ f[p[i]] = p[i + 1] /\ Link(f[p[i]])
         /\ ~Link(f[p[Len(p)]]) /\ f[p[Len(p)]] = Eoc
         /\ Ran(p) \subseteq Cluster
<1>1. p \in Seq(Cluster) /\ p # <<>>
  BY DEF Path
<1>2. PICK N \in Nat : N = Len(p) /\ N >= 1 /\ DOMAIN p = 1 .. N
  BY <1>1, EmptySeq, LenProperties
<1>3. \A i \in 1 .. N : p[i] \in Cluster /\ p[i] # 0
  BY <1>1, <1>2, ElementOfSeq, Sizes32
<1>4. \A i \in 1 .. N : i < N => i + 1 \in 1 .. N /\ f[p[i]] = p[i + 1]
  BY <1>2 DEF Path
<1>5. N \in 1 .. N /\ f[p[N]] = Eoc
  BY <1>2 DEF Path
<1>6. \A i \in 1 .. N : f[p[i]] # Free
  <2>1. ASSUME NEW i \in 1 .. N PROVE f[p[i]] # Free
    <3>1. CASE i = N
      BY <1>5, <3>1, Sizes32
    <3>2. CASE i # N
      <4>1. i < N
        BY <3>2
      <4>2. f[p[i]] \in Cluster
        BY <1>3, <1>4, <4>1
      <4>3. QED
        BY <4>2, Sizes32
    <3>3. QED
      BY <3>1, <3>2
  <2>2. QED
    BY <2>1
<1>7. QED
  BY <1>2, <1>3, <1>4, <1>5, <1>6, Sizes32 DEF Link, Ran

(* The walk along a path: its clusters, then zeros. *)
LEMMA WalkAlong ==
  ASSUME NEW f, NEW p, Path(f, p), NEW n \in Nat
  PROVE  Walk(f, p[1], n) = [i \in 1 .. n |-> IF i <= Len(p) THEN p[i] ELSE 0]
<1>0. PICK L \in Nat : L = Len(p) /\ L >= 1
  BY PathFacts
<1>1. /\ \A i \in 1 .. L : p[i] \in Cluster /\ p[i] # 0
      /\ \A i \in 1 .. L : i < L => f[p[i]] = p[i + 1] /\ Link(f[p[i]])
      /\ ~Link(f[p[L]])
  BY <1>0, PathFacts
<1> DEFINE h == [i \in 1 .. n |-> IF i <= L THEN p[i] ELSE 0]
           Body(w) == [i \in 1 .. n |-> IF i = 1 THEN p[1]
                         ELSE IF w[i - 1] # 0 /\ Link(f[w[i - 1]]) THEN f[w[i - 1]] ELSE 0]
           Wk == CHOOSE w : w = Body(w)
<1>2. ASSUME NEW i \in 1 .. n PROVE h[i] = Body(h)[i]
  <2>1. CASE i = 1
    BY <1>0, <2>1
  <2>2. CASE i # 1
    <3>1. PICK j \in 1 .. n : i = j + 1 /\ i - 1 = j
      BY <2>2
    <3>2. Body(h)[i] = IF h[j] # 0 /\ Link(f[h[j]]) THEN f[h[j]] ELSE 0
      BY <2>2, <3>1
    <3>3. h[i] = (IF j + 1 <= L THEN p[j + 1] ELSE 0) /\ h[j] = (IF j <= L THEN p[j] ELSE 0)
      BY <3>1
    <3> HIDE DEF h, Body
    <3>4. CASE j < L
      BY <1>0, <1>1, <3>2, <3>3, <3>4
    <3>5. CASE j = L
      BY <1>0, <1>1, <3>2, <3>3, <3>5
    <3>6. CASE j > L
      BY <3>2, <3>3, <3>6
    <3>7. QED
      BY <3>4, <3>5, <3>6
  <2>3. QED
    BY <2>1, <2>2
<1>3. h = Body(h)
  <2>1. h = [i \in 1 .. n |-> h[i]] /\ Body(h) = [i \in 1 .. n |-> Body(h)[i]]
    OBVIOUS
  <2> HIDE DEF h, Body
  <2>2. QED
    BY <1>2, <2>1
<1>4. Wk = Body(Wk)
  BY <1>3, Zenon
<1>5. Walk(f, p[1], n) = Wk
  BY DEF Walk
<1> HIDE DEF Wk
<1>6. \A i \in 1 .. n : Wk[i] = h[i]
  <2> DEFINE P == {m \in 0 .. n : m # 0 => Wk[m] = h[m]}
  <2>1. 0 \in P
    OBVIOUS
  <2>2. ASSUME NEW m \in 0 .. n - 1, m \in P PROVE m + 1 \in P
    <3>1. m + 1 \in 1 .. n /\ (m + 1) - 1 = m
      OBVIOUS
    <3>2. Wk[m + 1] = Body(Wk)[m + 1] /\ h[m + 1] = Body(h)[m + 1]
      BY <1>3, <1>4
    <3>3. CASE m = 0
      <4>1. Body(Wk)[m + 1] = p[1] /\ Body(h)[m + 1] = p[1]
        BY <3>1, <3>3
      <4>2. QED
        BY <3>1, <3>2, <4>1
    <3>4. CASE m # 0
      <4>1. Wk[m] = h[m]
        BY <2>2, <3>4
      <4>2. \A w : Body(w)[m + 1] = IF w[m] # 0 /\ Link(f[w[m]]) THEN f[w[m]] ELSE 0
        BY <3>1, <3>4
      <4> HIDE DEF Body, h
      <4>3. Body(Wk)[m + 1] = Body(h)[m + 1]
        BY <4>1, <4>2
      <4>4. QED
        BY <3>1, <3>2, <4>3
    <3>5. QED
      BY <3>3, <3>4
  <2> HIDE DEF P
  <2>3. \A m \in 0 .. n : m \in P
    BY <2>1, <2>2, UpTo
  <2> HIDE DEF h
  <2>4. QED
    BY <2>3 DEF P
<1>7. Wk = [i \in 1 .. n |-> Wk[i]]
  <2>1. Body(Wk) = [i \in 1 .. n |-> Body(Wk)[i]]
    OBVIOUS
  <2> HIDE DEF Body
  <2>2. QED
    BY <1>4, <2>1
<1>8. Wk = h
  <2>1. h = [i \in 1 .. n |-> h[i]]
    OBVIOUS
  <2> HIDE DEF h
  <2>2. QED
    BY <1>6, <1>7, <2>1
<1>9. QED
  BY <1>0, <1>5, <1>8

(* The least element of a set of integers. *)
LEMMA MinIs ==
  ASSUME NEW S, S \subseteq Int, NEW m \in S, \A y \in S : m <= y
  PROVE  Min(S) = m
<1>1. \A y \in S : m =< y
  OBVIOUS
<1>2. \A n \in S : (\A y \in S : n =< y) => n = m
  OBVIOUS
<1>3. QED
  BY <1>1, <1>2 DEF Min

(* The greatest element of a set of integers. *)
LEMMA MaxIs ==
  ASSUME NEW S, S \subseteq Int, NEW m \in S, \A y \in S : y <= m
  PROVE  Max(S) = m
<1>1. \A y \in S : m >= y
  OBVIOUS
<1>2. \A n \in S : (\A y \in S : n >= y) => n = m
  OBVIOUS
<1>3. QED
  BY <1>1, <1>2 DEF Max

(* A path has no more clusters than there are. *)
LEMMA PathLength ==
  ASSUME NEW p \in Seq(Cluster), Distinct(p)
  PROVE  Len(p) <= LastCluster - 1
<1>1. PICK N \in Nat : N = Len(p) /\ p \in [1 .. N -> Cluster]
  BY LenProperties
<1>2. p \in Injection(1 .. N, Cluster)
  BY <1>1 DEF Distinct, Injection, IsInjective
<1>3. IsFiniteSet(Cluster) /\ Cardinality(Cluster) = LastCluster - 1
  BY Sizes32, FS_Interval
<1>4. Cardinality(1 .. N) <= Cardinality(Cluster)
  BY <1>2, <1>3, FS_Injection
<1>5. Cardinality(1 .. N) = N
  BY FS_Interval
<1>6. QED
  BY <1>1, <1>3, <1>4, <1>5

(* The chain followed from the first cluster of a path is the path. *)
LEMMA ChainAlong ==
  ASSUME NEW f, NEW p, Path(f, p)
  PROVE  Chain(f, p[1]) = p
<1>0. PICK L \in Nat, N \in Nat : L = Len(p) /\ L >= 1 /\ N = LastCluster /\ L < N
  <2>1. Len(p) <= LastCluster - 1
    BY PathLength DEF Path
  <2>2. QED
    BY <2>1, PathFacts, Sizes32
<1>1. /\ \A i \in 1 .. L : p[i] \in Cluster /\ p[i] # 0
      /\ p \in Seq(Cluster)
  <2>1. p \in Seq(Cluster)
    BY DEF Path
  <2>2. QED
    BY <1>0, <2>1, PathFacts
<1>2. PICK w : w = Walk(f, p[1], N) /\ w = [i \in 1 .. N |-> IF i <= L THEN p[i] ELSE 0]
  <2>1. Walk(f, p[1], N) = [i \in 1 .. N |-> IF i <= Len(p) THEN p[i] ELSE 0]
    BY WalkAlong
  <2>2. QED
    BY <1>0, <2>1
<1>3. Chain(f, p[1]) = Cut(w)
  BY <1>0, <1>1, <1>2 DEF Chain
<1> DEFINE S == {i \in DOMAIN w : i + 1 \notin DOMAIN w \/ w[i + 1] = 0 \/ \E j \in 1 .. i : w[j] = w[i + 1]}
<1>4. DOMAIN w = 1 .. N /\ \A i \in 1 .. N : w[i] = IF i <= L THEN p[i] ELSE 0
  BY <1>2
<1>5. S \subseteq Int
  BY <1>4
<1>6. L \in S
  <2>1. L \in 1 .. N /\ L + 1 \in 1 .. N /\ ~(L + 1 <= L)
    BY <1>0
  <2>2. QED
    BY <1>4, <2>1
<1>7. ASSUME NEW i \in S PROVE L <= i
  <2>1. SUFFICES ASSUME i < L PROVE FALSE
    BY <1>0, <1>5
  <2>2. i \in 1 .. N /\ i + 1 \in 1 .. N /\ i \in 1 .. L /\ i + 1 \in 1 .. L
    BY <1>0, <1>4, <2>1
  <2>3. w[i + 1] = p[i + 1] /\ w[i + 1] # 0
    BY <1>1, <1>4, <2>2
  <2>4. PICK j \in 1 .. i : w[j] = w[i + 1]
    BY <1>4, <2>2, <2>3
  <2>5. j \in 1 .. L /\ w[j] = p[j] /\ j # i + 1
    BY <1>0, <1>4, <2>2
  <2>6. QED
    BY <1>0, <2>2, <2>3, <2>4, <2>5 DEF Path, Distinct
<1>8. Min(S) = L
  BY <1>5, <1>6, <1>7, MinIs
<1>9. Cut(w) = SubSeq(w, 1, L)
  BY <1>8 DEF Cut
<1>10. \A i \in 1 .. L : w[i] = p[i]
  BY <1>0, <1>4
<1>11. /\ SubSeq(w, 1, L) \in Seq(Cluster) /\ Len(SubSeq(w, 1, L)) = L
       /\ \A i \in 1 .. L : SubSeq(w, 1, L)[i] = p[i]
  <2>1. \A i \in 1 .. L : w[i] \in Cluster
    BY <1>1, <1>10
  <2>2. /\ SubSeq(w, 1, L) \in Seq(Cluster)
        /\ Len(SubSeq(w, 1, L)) = IF 1 <= L THEN L - 1 + 1 ELSE 0
        /\ \A i \in 1 .. L - 1 + 1 : SubSeq(w, 1, L)[i] = w[1 + i - 1]
    BY <2>1, SubSeqProperties
  <2>3. QED
    BY <1>0, <1>10, <2>2
<1>12. QED
  BY <1>0, <1>1, <1>3, <1>9, <1>11, SeqEqual

(* The rest of a path is a path. *)
LEMMA PathRest ==
  ASSUME NEW f, NEW p, Path(f, p), NEW m \in 1 .. Len(p)
  PROVE  /\ Path(f, SubSeq(p, m, Len(p)))
         /\ Len(SubSeq(p, m, Len(p))) = Len(p) - m + 1
         /\ \A i \in 1 .. Len(p) - m + 1 : SubSeq(p, m, Len(p))[i] = p[m + i - 1]
<1>0. PICK L \in Nat : L = Len(p) /\ m \in 1 .. L
  BY PathFacts
<1> DEFINE q == SubSeq(p, m, L)
           K == L - m + 1
<1>1. \A i \in m .. L : p[i] \in Cluster
  BY <1>0, PathFacts
<1>2. q \in Seq(Cluster) /\ Len(q) = K /\ (\A i \in 1 .. K : q[i] = p[m + i - 1]) /\ K \in Nat /\ K >= 1
  BY <1>0, <1>1, SubSeqProperties
<1> HIDE DEF q
<1>3. q # <<>>
  BY <1>2, EmptySeq
<1>4. ASSUME NEW i \in 1 .. K, NEW j \in 1 .. K, q[i] = q[j] PROVE i = j
  <2>1. m + i - 1 \in 1 .. L /\ m + j - 1 \in 1 .. L
    BY <1>0
  <2>a. p[m + i - 1] = p[m + j - 1] /\ Distinct(p)
    BY <1>2, <1>4 DEF Path
  <2>2. m + i - 1 = m + j - 1
    BY <1>0, <2>1, <2>a DEF Distinct
  <2>3. QED
    BY <1>0, <2>2
<1>5. ASSUME NEW i \in 1 .. K PROVE f[q[i]] = IF i = K THEN Eoc ELSE q[i + 1]
  <2>1. m + i - 1 \in 1 .. L /\ (i = K <=> m + i - 1 = L) /\ (m + i - 1) + 1 = m + (i + 1) - 1
    BY <1>0
  <2>2. f[p[m + i - 1]] = IF m + i - 1 = L THEN Eoc ELSE p[m + (i + 1) - 1]
    BY <1>0, <2>1 DEF Path
  <2>3. i # K => i + 1 \in 1 .. K
    BY <1>2
  <2>4. QED
    BY <1>2, <2>1, <2>2, <2>3
<1>6. Path(f, q)
  BY <1>2, <1>3, <1>4, <1>5 DEF Path, Distinct
<1>7. QED
  BY <1>0, <1>2, <1>6 DEF q

(* find_free_cluster finds free clusters, each once, and all of them. *)
LEMMA FreeFound ==
  ASSUME NEW f \in [Cluster -> FatValue]
  PROVE  /\ FreeClusters(f) \in Seq(Cluster) /\ Distinct(FreeClusters(f))
         /\ \A i \in 1 .. Len(FreeClusters(f)) : f[FreeClusters(f)[i]] = Free
<1> DEFINE S == {c \in Cluster : f[c] = Free}
           r == Among(Scan, S)
<1>0. PICK N \in Nat : N = LastCluster - 1
  BY Sizes32
<1>1. Scan \in [1 .. N -> Cluster] /\ \A i \in 1 .. N : Scan[i] = i + 1
  BY <1>0, Sizes32 DEF Scan
<1>2. Scan \in Seq(Cluster) /\ Len(Scan) = N
  BY <1>1, ArrayIsSeq
<1>3. Scan \in Seq(Int)
  BY <1>2, SeqMonotonic, Sizes32
<1>4. Ascending(Scan)
  BY <1>1, <1>2 DEF Ascending
<1>5. r \in Seq(Cluster) /\ \A m \in 1 .. Len(r) : \E n \in 1 .. Len(Scan) : r[m] = Scan[n] /\ Scan[n] \in S
  BY <1>2, AmongIn
<1>6. Ascending(r)
  BY <1>3, <1>4, AmongAscending
<1>7. r = FreeClusters(f)
  BY DEF FreeClusters
<1> HIDE DEF r
<1>8. \A i \in 1 .. Len(r) : r[i] \in Cluster /\ f[r[i]] = Free
  BY <1>5
<1>9. Len(r) \in Nat
  BY <1>5, LenProperties
<1>10. Distinct(r)
  <2> SUFFICES ASSUME NEW i \in 1 .. Len(r), NEW j \in 1 .. Len(r), r[i] = r[j] PROVE i = j
    BY DEF Distinct
  <2>1. r[i] \in Int /\ r[j] \in Int
    BY <1>8, Sizes32
  <2>2. ~(r[i] < r[j]) /\ ~(r[j] < r[i])
    BY <2>1
  <2>3. ~(i < j) /\ ~(j < i)
    BY <1>6, <2>2 DEF Ascending
  <2>4. QED
    BY <2>3, <1>9
<1>11. QED
  BY <1>5, <1>7, <1>8, <1>10

-----------------------------------------------------------------------------
(* Where the n-th entry of a directory lies. *)
Nth(n) == ((n - 1) \div DirSlots) + 1
Sth(n) == ((n - 1) % DirSlots) + 1

(* Multiplication by a number of slots. *)
LEMMA Products ==
  ASSUME NEW a \in Nat, NEW b \in Nat, NEW s \in Nat
  PROVE  /\ a * s \in Nat /\ (a + 1) * s = a * s + s /\ s * a = a * s
         /\ a <= b => a * s <= b * s
  OBVIOUS

(* Quotient and remainder, from a sum. *)
LEMMA QuotIs ==
  ASSUME NEW n \in Nat, NEW s \in Nat, s >= 1, NEW q \in Nat, NEW r \in 0 .. s - 1, n = q * s + r
  PROVE  n \div s = q /\ n % s = r
  OBVIOUS

(* Quotient and remainder, to a sum. *)
LEMMA QuotRem ==
  ASSUME NEW n \in Nat, NEW s \in Nat, s >= 1
  PROVE  /\ n \div s \in Nat /\ n % s \in 0 .. s - 1
         /\ n = (n \div s) * s + (n % s)
<1> DEFINE P == {m \in 0 .. n : \E q \in Nat, r \in 0 .. s - 1 : m = q * s + r}
<1>1. 0 \in P
  <2>1. 0 \in 0 .. n /\ 0 \in 0 .. s - 1 /\ 0 \in Nat /\ 0 = 0 * s + 0
    OBVIOUS
  <2>2. QED
    BY <2>1
<1>2. ASSUME NEW m \in 0 .. n - 1, m \in P PROVE m + 1 \in P
  <2>1. PICK q \in Nat, r \in 0 .. s - 1 : m = q * s + r
    BY <1>2
  <2>2. q * s \in Nat /\ (q + 1) * s = q * s + s
    BY Products
  <2>3. CASE r < s - 1
    <3>1. r + 1 \in 0 .. s - 1 /\ m + 1 = q * s + (r + 1) /\ m + 1 \in 0 .. n
      BY <2>1, <2>2, <2>3
    <3>2. QED
      BY <3>1
  <2>4. CASE r = s - 1
    <3>1. 0 \in 0 .. s - 1 /\ q + 1 \in Nat /\ m + 1 = (q + 1) * s + 0 /\ m + 1 \in 0 .. n
      BY <2>1, <2>2, <2>4
    <3>2. QED
      BY <3>1
  <2>5. QED
    BY <2>3, <2>4
<1> HIDE DEF P
<1>3. n \in P
  BY <1>1, <1>2, UpTo
<1>4. PICK q \in Nat, r \in 0 .. s - 1 : n = q * s + r
  BY <1>3 DEF P
<1>5. n \div s = q /\ n % s = r
  BY <1>4, QuotIs
<1>6. QED
  BY <1>4, <1>5

(* The cluster and slot of the n-th entry. *)
LEMMA PlaceIs ==
  ASSUME NEW n \in Nat, n >= 1
  PROVE  \E q \in Nat, r \in 0 .. DirSlots - 1 :
           Nth(n) = q + 1 /\ Sth(n) = r + 1 /\ n = q * DirSlots + r + 1
<1>0. PICK s \in Nat : s = DirSlots /\ s >= 1
  BY Sizes32
<1>1. PICK k \in Nat : k = n - 1
  OBVIOUS
<1>2. k \div s \in Nat /\ k % s \in 0 .. s - 1 /\ k = (k \div s) * s + (k % s)
  BY <1>0, QuotRem
<1>3. PICK q \in Nat, r \in 0 .. s - 1 : q = k \div s /\ r = k % s /\ k = q * s + r
  BY <1>2
<1>4. q * s \in Nat
  BY Products
<1>5. Nth(n) = q + 1 /\ Sth(n) = r + 1 /\ n = q * s + r + 1
  BY <1>0, <1>1, <1>3, <1>4 DEF Nth, Sth
<1>6. QED
  BY <1>0, <1>5

(* An entry of K clusters lies in one of them, in one of its slots. *)
LEMMA Places ==
  ASSUME NEW K \in Nat, NEW n \in 1 .. K * DirSlots
  PROVE  n \in Nat /\ n >= 1 /\ Nth(n) \in 1 .. K /\ Sth(n) \in 1 .. DirSlots
<1>0. PICK s \in Nat : s = DirSlots /\ s >= 1
  BY Sizes32
<1>1. K * s \in Nat
  BY Products
<1>2. n \in Nat /\ n >= 1 /\ n <= K * s
  BY <1>0, <1>1
<1>3. PICK q \in Nat, r \in 0 .. s - 1 : Nth(n) = q + 1 /\ Sth(n) = r + 1 /\ n = q * s + r + 1
  BY <1>0, <1>2, PlaceIs
<1>4. q * s \in Nat /\ (K <= q => K * s <= q * s)
  BY Products
<1>5. q < K
  BY <1>1, <1>2, <1>3, <1>4
<1>6. QED
  BY <1>0, <1>2, <1>3, <1>5

(* Two entries do not lie in the same place. *)
LEMMA PlaceOnce ==
  ASSUME NEW m \in Nat, m >= 1, NEW n \in Nat, n >= 1, Nth(m) = Nth(n), Sth(m) = Sth(n)
  PROVE  m = n
<1>0. PICK s \in Nat : s = DirSlots /\ s >= 1
  BY Sizes32
<1>1. PICK q \in Nat, r \in 0 .. s - 1 : Nth(n) = q + 1 /\ Sth(n) = r + 1 /\ n = q * s + r + 1
  BY <1>0, PlaceIs
<1>2. PICK qq \in Nat, rr \in 0 .. s - 1 : Nth(m) = qq + 1 /\ Sth(m) = rr + 1 /\ m = qq * s + rr + 1
  BY <1>0, PlaceIs
<1>3. q = qq /\ r = rr
  BY <1>0, <1>1, <1>2
<1>4. QED
  BY <1>1, <1>2, <1>3

(* The entries of the cluster after the K-th. *)
LEMMA NextPlaces ==
  ASSUME NEW K \in Nat
  PROVE  /\ K * DirSlots \in Nat /\ (K + 1) * DirSlots = K * DirSlots + DirSlots
         /\ \A n \in (K * DirSlots + 1) .. ((K + 1) * DirSlots) : Nth(n) = K + 1
         /\ Nth(K * DirSlots + 1) = K + 1 /\ Sth(K * DirSlots + 1) = 1
<1>0. PICK s \in Nat : s = DirSlots /\ s >= 1
  BY Sizes32
<1>1. PICK M \in Nat : M = K * s /\ (K + 1) * s = M + s
  BY Products
<1>2. ASSUME NEW n \in (M + 1) .. (M + s) PROVE Nth(n) = K + 1 /\ Sth(n) = n - M
  <2>1. PICK r \in 0 .. s - 1 : r = (n - 1) - M /\ n - 1 \in Nat
    OBVIOUS
  <2>2. n - 1 = K * s + r
    BY <1>1, <2>1
  <2>3. (n - 1) \div s = K /\ (n - 1) % s = r
    BY <1>0, <2>1, <2>2, QuotIs
  <2>4. QED
    BY <1>0, <2>1, <2>3 DEF Nth, Sth
<1>3. M + 1 \in (M + 1) .. (M + s) /\ (M + 1) - M = 1
  BY <1>0
<1>4. QED
  BY <1>0, <1>1, <1>2, <1>3

(* A directory as the clusters D of its chain: its entries. *)
Slots(D) == 1 .. (Len(D) * DirSlots)
EntryAt(D, b, n) == b[D[Nth(n)]].dir[Sth(n)]
EntryFor(D, b, n) == [cluster |-> D[Nth(n)], slot |-> Sth(n), entry |-> EntryAt(D, b, n)]

DirLaid(f, b, D) ==
  /\ Path(f, D) /\ D[1] = Root
  /\ \A i \in 1 .. Len(D) : b[D[i]] \in DirBlock
  /\ \A m, n \in Slots(D) : m < n /\ EntryAt(D, b, m) = End => EntryAt(D, b, n) \in Marks

(* Each name in N has at most one entry, the at[name]-th. *)
Named(b, D, at, N) ==
  \A n \in Slots(D) : EntryAt(D, b, n) \notin Marks /\ EntryAt(D, b, n).name \in N =>
    at[EntryAt(D, b, n).name] = n

(* The file name, last written as w: absent, or laid out along the path p. *)
FileLaid(f, b, D, p, a, name, w) ==
  \/ p = <<>> /\ a = 0 /\ w.size = 0
  \/ /\ a \in Slots(D) /\ EntryAt(D, b, a) = [name |-> name, first |-> p[1], size |-> w.size]
     /\ Path(f, p) /\ Len(p) = Max({1, w.size})
     /\ \A k \in 1 .. w.size : b[p[k]] = FileData(name, w.version, k)

Apart(D, P, N) ==
  \A x \in N : Ran(P[x]) \cap Ran(D) = {} /\ \A y \in N : x # y => Ran(P[x]) \cap Ran(P[y]) = {}

Laid(v, D, P, at, W, N) ==
  /\ DirLaid(v.fat[1], v.block, D)
  /\ Named(v.block, D, at, N)
  /\ \A x \in N : FileLaid(v.fat[1], v.block, D, P[x], at[x], x, W[x])
  /\ Apart(D, P, N)

Expect(w, name) == [n \in 1 .. w.size |-> FileData(name, w.version, n)]
Good(v, W, x) ==
  \A name \in FileName \ {x} : ReadFile(v.fat[1], v.block, name) = Expect(W[name], name)

History == [FileName -> [size : Nat, version : 0 .. MaxWrites]]

(* The entries of a directory that is laid out. *)
LEMMA DirFacts ==
  ASSUME NEW f, NEW b, NEW D, DirLaid(f, b, D)
  PROVE  /\ Len(D) \in Nat /\ Len(D) >= 1 /\ Len(D) * DirSlots \in Nat /\ Len(D) * DirSlots >= 1
         /\ \A n \in Slots(D) : /\ n \in Nat /\ n >= 1 /\ Nth(n) \in 1 .. Len(D) /\ Sth(n) \in 1 .. DirSlots
                                /\ D[Nth(n)] \in Cluster /\ D[Nth(n)] \in Ran(D)
                                /\ EntryAt(D, b, n) \in Marks \cup FileEntry
<1>0. Path(f, D) /\ \A i \in 1 .. Len(D) : b[D[i]] \in DirBlock
  BY DEF DirLaid
<1>1. PICK L \in Nat : L = Len(D) /\ L >= 1
  BY <1>0, PathFacts
<1>2. PICK s \in Nat : s = DirSlots /\ s >= 1
  BY Sizes32
<1>3. L * s \in Nat /\ 1 * s <= L * s
  BY <1>1, Products
<1>4. L * s >= 1
  BY <1>2, <1>3
<1>5. ASSUME NEW n \in Slots(D)
      PROVE  /\ n \in Nat /\ n >= 1 /\ Nth(n) \in 1 .. Len(D) /\ Sth(n) \in 1 .. DirSlots
             /\ D[Nth(n)] \in Cluster /\ D[Nth(n)] \in Ran(D)
             /\ EntryAt(D, b, n) \in Marks \cup FileEntry
  <2>1. n \in 1 .. L * DirSlots
    BY <1>1 DEF Slots
  <2>2. n \in Nat /\ n >= 1 /\ Nth(n) \in 1 .. Len(D) /\ Sth(n) \in 1 .. DirSlots
    BY <1>1, <2>1, Places
  <2>3. D[Nth(n)] \in Cluster
    BY <1>0, <2>2, PathFacts
  <2>4. D[Nth(n)] \in Ran(D)
    BY <2>2 DEF Ran
  <2>5. b[D[Nth(n)]] \in DirBlock
    BY <1>0, <2>2
  <2>6. EntryAt(D, b, n) \in Marks \cup FileEntry
    BY <2>2, <2>5 DEF DirBlock, EntryAt
  <2>7. QED
    BY <2>2, <2>3, <2>4, <2>6
<1>6. QED
  BY <1>1, <1>2, <1>3, <1>4, <1>5

(* A file's entry is not a mark. *)
LEMMA NotMark ==
  ASSUME NEW e \in FileEntry
  PROVE  e \notin Marks /\ e.name \in FileName /\ e.first \in Cluster /\ e.size \in Nat
<1>1. e.name \in FileName /\ e.first \in Cluster /\ e.size \in Nat
  BY DEF FileEntry
<1>2. \A m \in Marks : m.first = 0
  BY DEF Marks, End, Deleted, Skipped, Mark
<1>3. QED
  BY <1>1, <1>2, Sizes32

(* A search looks at the first K entries: all of them, or those up to the  *)
(* first End, after which there are only marks.                            *)
LEMMA SearchedAre ==
  ASSUME NEW f, NEW b, NEW D, DirLaid(f, b, D)
  PROVE  \E K \in Nat :
           /\ DOMAIN Searched(f, b) = 1 .. K /\ K >= 1 /\ K <= Len(D) * DirSlots
           /\ \A n \in 1 .. K : Searched(f, b)[n] = EntryFor(D, b, n)
           /\ \A n \in 1 .. K : n < K => EntryAt(D, b, n) # End
           /\ \A n \in Slots(D) : n > K => EntryAt(D, b, n) \in Marks
           /\ K < Len(D) * DirSlots => EntryAt(D, b, K) = End
<1>0. PICK T \in Nat : T = Len(D) * DirSlots /\ T >= 1 /\ Slots(D) = 1 .. T
  BY DirFacts DEF Slots
<1>1. Chain(f, Root) = D
  <2>1. Path(f, D) /\ D[1] = Root
    BY DEF DirLaid
  <2>2. QED
    BY <2>1, ChainAlong
<1> DEFINE es == EntriesAlong(D, b)
<1>2. DOMAIN es = 1 .. T /\ \A n \in 1 .. T : es[n] = EntryFor(D, b, n)
  BY <1>0 DEF EntriesAlong, EntryFor, EntryAt, Nth, Sth
<1>3. Searched(f, b) = UpToEnd(es)
  BY <1>1 DEF Searched
<1> HIDE DEF es
<1>4. \A n \in 1 .. T : es[n].entry = EntryAt(D, b, n)
  BY <1>2 DEF EntryFor
<1> DEFINE ends == {n \in DOMAIN es : es[n].entry = End}
<1>5. CASE ends = {}
  <2>1. UpToEnd(es) = es
    BY <1>5 DEF UpToEnd
  <2>2. \A n \in 1 .. T : EntryAt(D, b, n) # End
    BY <1>2, <1>4, <1>5
  <2>3. QED
    BY <1>0, <1>2, <1>3, <2>1, <2>2
<1>6. CASE ends # {}
  <2>1. ends \subseteq Nat
    BY <1>2
  <2>2. PICK K \in ends : K = Min(ends) /\ \A n \in ends : K <= n
    BY <1>6, <2>1, MinIn
  <2>3. K \in 1 .. T /\ EntryAt(D, b, K) = End
    BY <1>2, <1>4, <2>2
  <2>4. UpToEnd(es) = SubSeq(es, 1, K)
    BY <1>6, <2>2 DEF UpToEnd
  <2> DEFINE A == {es[n] : n \in 1 .. T}
             r == SubSeq(es, 1, K)
  <2>5. \A i \in 1 .. K : es[i] \in A
    BY <2>3
  <2>6. r \in Seq(A) /\ Len(r) = K /\ \A i \in 1 .. K : r[i] = es[i]
    <3>1. /\ r \in Seq(A) /\ Len(r) = (IF 1 <= K THEN K - 1 + 1 ELSE 0)
          /\ \A i \in 1 .. K - 1 + 1 : r[i] = es[1 + i - 1]
      <4>1. 1 \in Int /\ K \in Int
        BY <2>3
      <4> HIDE DEF A
      <4>2. QED
        BY <2>5, <4>1, SubSeqProperties
    <3> HIDE DEF r, A
    <3>2. QED
      BY <2>3, <3>1
  <2>7. DOMAIN r = 1 .. K
    <3> HIDE DEF r, A
    <3>1. QED
      BY <2>6, LenProperties
  <2>8. Searched(f, b) = r
    BY <1>3, <2>4
  <2> HIDE DEF r, A
  <2>9. \A n \in 1 .. K : r[n] = EntryFor(D, b, n)
    BY <1>2, <2>3, <2>6
  <2>10. \A n \in 1 .. K : n < K => EntryAt(D, b, n) # End
    <3>1. ASSUME NEW n \in 1 .. K, n < K, EntryAt(D, b, n) = End PROVE FALSE
      <4>1. n \in 1 .. T
        BY <2>3
      <4>2. n \in ends
        BY <1>2, <1>4, <3>1, <4>1
      <4> HIDE DEF ends
      <4>3. K <= n
        BY <2>2, <4>2
      <4>4. QED
        BY <2>3, <3>1, <4>1, <4>3
    <3>2. QED
      BY <3>1
  <2>11. \A n \in Slots(D) : n > K => EntryAt(D, b, n) \in Marks
    BY <1>0, <2>3 DEF DirLaid
  <2>12. K \in Nat /\ K >= 1 /\ K <= Len(D) * DirSlots
    BY <1>0, <2>3
  <2>13. QED
    BY <2>3, <2>7, <2>8, <2>9, <2>10, <2>11, <2>12
<1>7. QED
  BY <1>5, <1>6
(* The search for a name finds its one entry, if it has one. *)
LEMMA MatchesAre ==
  ASSUME NEW v, NEW D, NEW P, NEW at, NEW W, NEW N, Laid(v, D, P, at, W, N), NEW x \in N
  PROVE  Matches(Searched(v.fat[1], v.block), x) = IF at[x] = 0 THEN {} ELSE {at[x]}
<1> DEFINE f == v.fat[1]
           b == v.block
           es == Searched(f, b)
<1>0. DirLaid(f, b, D) /\ Named(b, D, at, N) /\ FileLaid(f, b, D, P[x], at[x], x, W[x])
  BY DEF Laid
<1> HIDE DEF f, b
<1>1. PICK K \in Nat :
         /\ DOMAIN es = 1 .. K /\ K <= Len(D) * DirSlots
         /\ \A n \in 1 .. K : es[n] = EntryFor(D, b, n)
         /\ \A n \in Slots(D) : n > K => EntryAt(D, b, n) \in Marks
  BY <1>0, SearchedAre
<1> HIDE DEF es
<1>2. Len(D) * DirSlots \in Nat /\ \A n \in 1 .. K : n \in Slots(D) /\ es[n].entry = EntryAt(D, b, n)
  BY <1>0, <1>1, DirFacts DEF Slots, EntryFor
<1>3. ASSUME NEW n \in Matches(es, x) PROVE n = at[x] /\ at[x] # 0
  <2>1. n \in 1 .. K /\ EntryAt(D, b, n) \notin Marks /\ EntryAt(D, b, n).name = x
    BY <1>1, <1>2 DEF Matches, Live
  <2>2. n \in Slots(D)
    BY <1>2, <2>1
  <2>3. QED
    BY <1>0, <2>1, <2>2 DEF Named
<1>4. ASSUME at[x] # 0 PROVE at[x] \in Matches(es, x)
  <2>1. at[x] \in Slots(D) /\ EntryAt(D, b, at[x]) = [name |-> x, first |-> P[x][1], size |-> W[x].size] /\ Path(f, P[x])
    BY <1>0, <1>4 DEF FileLaid
  <2>2. P[x][1] # 0
    BY <2>1, PathFacts
  <2>3. EntryAt(D, b, at[x]) \notin Marks /\ EntryAt(D, b, at[x]).name = x
    BY <2>1, <2>2 DEF Marks, End, Deleted, Skipped, Mark
  <2>4. at[x] \in 1 .. K
    BY <1>1, <1>2, <2>1, <2>3 DEF Slots
  <2>5. QED
    BY <1>1, <1>2, <2>3, <2>4 DEF Matches, Live
<1>5. QED
  <2>1. Matches(es, x) = IF at[x] = 0 THEN {} ELSE {at[x]}
    BY <1>3, <1>4
  <2>2. QED
    BY <2>1 DEF es, f, b

(* A file takes at least one cluster. *)
LEMMA MaxOne ==
  ASSUME NEW n \in Nat
  PROVE  /\ Max({1, n}) \in Nat /\ Max({1, n}) >= 1 /\ Max({1, n}) >= n
         /\ n >= 1 => Max({1, n}) = n
         /\ n = 0 => Max({1, n}) = 1
<1>1. CASE n >= 1
  <2>1. Max({1, n}) = n
    BY <1>1, MaxIs
  <2>2. QED
    BY <1>1, <2>1
<1>2. CASE n = 0
  <2>1. Max({1, n}) = 1
    BY <1>2, MaxIs
  <2>2. QED
    BY <1>2, <2>1
<1>3. QED
  BY <1>1, <1>2

FirstBlocks(b, p, size) == [n \in 1 .. size |-> b[p[n]]]

(* read_from: the first size clusters of the path. *)
LEMMA ReadEntryIs ==
  ASSUME NEW f, NEW b, NEW p, Path(f, p), NEW size \in Nat, size <= Len(p), NEW e,
         e.first = p[1], e.size = size
  PROVE  ReadEntry(f, b, e) = FirstBlocks(b, p, size)
<1>0. PICK L \in Nat : L = Len(p) /\ size <= L /\ \A i \in 1 .. L : p[i] \in Cluster
  BY PathFacts
<1>a. Walk(f, p[1], size) = [i \in 1 .. size |-> IF i <= Len(p) THEN p[i] ELSE 0]
  BY WalkAlong
<1>1. PICK w : w = Walk(f, p[1], size) /\ w = [i \in 1 .. size |-> IF i <= Len(p) THEN p[i] ELSE 0]
  BY <1>a
<1>2. w = [i \in 1 .. size |-> p[i]]
  BY <1>0, <1>1
<1>3. w \in [1 .. size -> Cluster] /\ DOMAIN w = 1 .. size /\ \A i \in 1 .. size : w[i] = p[i] /\ w[i] \in Cluster
  BY <1>0, <1>2
<1>4. w \in Seq(Cluster) /\ Len(w) = size
  BY <1>3, ArrayIsSeq
<1>5. Among(w, Cluster) = w
  BY <1>3, <1>4, AmongAll
<1>6. ReadEntry(f, b, e) = Along(w, b)
  BY <1>1, <1>5 DEF ReadEntry
<1>7. Along(w, b) = [n \in 1 .. size |-> b[p[n]]]
  BY <1>3 DEF Along
<1>8. QED
  BY <1>6, <1>7 DEF FirstBlocks

(* A laid-out file reads back as it was written. *)
LEMMA ReadsBack ==
  ASSUME NEW v, NEW D, NEW P, NEW at, NEW W \in History, NEW N \in SUBSET FileName, Laid(v, D, P, at, W, N), NEW x \in N
  PROVE  ReadFile(v.fat[1], v.block, x) = Expect(W[x], x)
<1> DEFINE f == v.fat[1]
           b == v.block
           es == Searched(f, b)
<1>0. DirLaid(f, b, D) /\ FileLaid(f, b, D, P[x], at[x], x, W[x])
  BY DEF Laid
<1>a. Matches(es, x) = IF at[x] = 0 THEN {} ELSE {at[x]}
  BY MatchesAre
<1>b. W[x].size \in Nat /\ x \in FileName
  BY DEF History
<1> HIDE DEF f, b
<1>1. PICK K \in Nat :
         /\ DOMAIN es = 1 .. K /\ K <= Len(D) * DirSlots
         /\ \A n \in 1 .. K : es[n] = EntryFor(D, b, n)
  BY <1>0, SearchedAre
<1> HIDE DEF es
<1>2. CASE at[x] = 0
  <2>1. W[x].size = 0
    BY <1>0, <1>2, DirFacts DEF FileLaid
  <2>2. ReadFile(f, b, x) = <<>>
    BY <1>a, <1>2 DEF ReadFile, ReadIn, es
  <2>3. Expect(W[x], x) = <<>>
    BY <2>1 DEF Expect
  <2>4. QED
    BY <2>2, <2>3 DEF f, b
<1>3. CASE at[x] # 0
  <2>1. /\ at[x] \in Slots(D) /\ EntryAt(D, b, at[x]) = [name |-> x, first |-> P[x][1], size |-> W[x].size]
        /\ Path(f, P[x]) /\ Len(P[x]) = Max({1, W[x].size})
        /\ \A k \in 1 .. W[x].size : b[P[x][k]] = FileData(x, W[x].version, k)
    BY <1>0, <1>3 DEF FileLaid
  <2>2. at[x] \in Int /\ Matches(es, x) = {at[x]}
    BY <1>0, <1>a, <1>3, <2>1, DirFacts
  <2>3. Min({at[x]}) = at[x]
    BY <2>2, MinIs
  <2>4. at[x] \in 1 .. K
    BY <1>1, <2>2 DEF Matches, Live
  <2>5. es[at[x]].entry = EntryAt(D, b, at[x])
    BY <1>1, <2>4 DEF EntryFor
  <2>6. ReadFile(f, b, x) = ReadEntry(f, b, EntryAt(D, b, at[x]))
    <3>1. ReadFile(f, b, x) = ReadIn(f, b, es, {at[x]})
      BY <2>2 DEF ReadFile, es
    <3>2. ReadIn(f, b, es, {at[x]}) = ReadEntry(f, b, es[Min({at[x]})].entry)
      BY DEF ReadIn
    <3>3. QED
      BY <2>3, <2>5, <3>1, <3>2
  <2>7. W[x].size <= Len(P[x])
    BY <1>b, <2>1, MaxOne
  <2>8. ReadFile(f, b, x) = [n \in 1 .. W[x].size |-> b[P[x][n]]]
    <3> DEFINE e == EntryAt(D, b, at[x])
    <3>1. e.first = P[x][1] /\ e.size = W[x].size
      BY <2>1
    <3> HIDE DEF e
    <3>2. ReadEntry(f, b, e) = [n \in 1 .. W[x].size |-> b[P[x][n]]]
      <4>1. PICK z \in Nat : z = W[x].size
        BY <1>b
      <4>2. PICK p : p = P[x]
        OBVIOUS
      <4>3. Path(f, p) /\ z <= Len(p) /\ e.first = p[1] /\ e.size = z
        BY <2>1, <2>7, <3>1, <4>1, <4>2
      <4>4. ReadEntry(f, b, e) = FirstBlocks(b, p, z)
        <5>1. Path(f, p)
          BY <4>3
        <5>2. z \in Nat /\ z <= Len(p) /\ e.first = p[1] /\ e.size = z
          BY <4>1, <4>3
        <5>3. QED
          BY <5>1, <5>2, ReadEntryIs
      <4>5. QED
        BY <4>1, <4>2, <4>4 DEF FirstBlocks
    <3>3. QED
      BY <2>6, <3>2 DEF e
  <2>9. [n \in 1 .. W[x].size |-> b[P[x][n]]] = Expect(W[x], x)
    BY <2>1 DEF Expect
  <2>10. QED
    BY <2>8, <2>9 DEF f, b
<1>4. QED
  BY <1>2, <1>3

-----------------------------------------------------------------------------
Used(D, P, N) == Ran(D) \cup UNION {Ran(P[y]) : y \in N}

(* A path is a path in any FAT that agrees on its clusters. *)
LEMMA PathFrame ==
  ASSUME NEW f, NEW g, NEW p, Path(f, p), \A c \in Ran(p) : g[c] = f[c]
  PROVE  Path(g, p)
<1>1. \A i \in 1 .. Len(p) : p[i] \in Ran(p)
  BY DEF Ran
<1>2. QED
  BY <1>1 DEF Path

(* A directory's entries depend on its clusters only. *)
LEMMA EntryFrame ==
  ASSUME NEW f, NEW b, NEW D, DirLaid(f, b, D), NEW e, \A c \in Ran(D) : e[c] = b[c]
  PROVE  \A n \in Slots(D) : EntryAt(D, e, n) = EntryAt(D, b, n)
<1>1. \A n \in Slots(D) : D[Nth(n)] \in Ran(D)
  BY DirFacts
<1>2. QED
  BY <1>1 DEF EntryAt

(* So does a directory. *)
LEMMA DirFrame ==
  ASSUME NEW f, NEW b, NEW D, DirLaid(f, b, D), NEW g, NEW e, \A c \in Ran(D) : g[c] = f[c] /\ e[c] = b[c]
  PROVE  DirLaid(g, e, D)
<1>1. Path(f, D) /\ D[1] = Root /\ \A i \in 1 .. Len(D) : b[D[i]] \in DirBlock
  BY DEF DirLaid
<1>2. Path(g, D)
  BY <1>1, PathFrame
<1>3. \A i \in 1 .. Len(D) : e[D[i]] \in DirBlock
  BY <1>1 DEF Ran
<1>4. \A n \in Slots(D) : EntryAt(D, e, n) = EntryAt(D, b, n)
  BY EntryFrame
<1>5. QED
  BY <1>1, <1>2, <1>3, <1>4 DEF DirLaid

(* A file depends on its entry and its clusters. *)
LEMMA FileFrame ==
  ASSUME NEW f, NEW b, NEW D, DirLaid(f, b, D), NEW p, NEW a, NEW x, NEW w, w.size \in Nat,
         FileLaid(f, b, D, p, a, x, w),
         NEW g, NEW e, a \in Slots(D) => EntryAt(D, e, a) = EntryAt(D, b, a),
         \A c \in Ran(p) : g[c] = f[c] /\ e[c] = b[c]
  PROVE  FileLaid(g, e, D, p, a, x, w)
<1>1. CASE p = <<>> /\ a = 0 /\ w.size = 0
  BY <1>1 DEF FileLaid
<1>2. CASE ~(p = <<>> /\ a = 0 /\ w.size = 0)
  <2>1. /\ a \in Slots(D) /\ EntryAt(D, b, a) = [name |-> x, first |-> p[1], size |-> w.size]
        /\ Path(f, p) /\ Len(p) = Max({1, w.size})
        /\ \A k \in 1 .. w.size : b[p[k]] = FileData(x, w.version, k)
    BY <1>2 DEF FileLaid
  <2>2. Path(g, p)
    BY <2>1, PathFrame
  <2>3. \A k \in 1 .. w.size : p[k] \in Ran(p)
    <3>1. Len(p) \in Nat /\ w.size <= Len(p)
      BY <2>1, MaxOne
    <3>2. QED
      BY <3>1 DEF Ran
  <2>4. \A k \in 1 .. w.size : e[p[k]] = FileData(x, w.version, k)
    BY <2>1, <2>3
  <2>5. EntryAt(D, e, a) = [name |-> x, first |-> p[1], size |-> w.size]
    BY <2>1
  <2>6. QED
    BY <2>1, <2>2, <2>4, <2>5 DEF FileLaid
<1>3. QED
  BY <1>1, <1>2

(* A layout depends on the clusters it uses. *)
LEMMA LaidFrame ==
  ASSUME NEW v, NEW u, NEW D, NEW P, NEW at, NEW W \in History, NEW N \in SUBSET FileName,
         Laid(v, D, P, at, W, N),
         \A c \in Used(D, P, N) : u.fat[1][c] = v.fat[1][c] /\ u.block[c] = v.block[c]
  PROVE  Laid(u, D, P, at, W, N)
<1> DEFINE f == v.fat[1]
           b == v.block
           g == u.fat[1]
           e == u.block
<1>0. /\ DirLaid(f, b, D) /\ Named(b, D, at, N) /\ Apart(D, P, N)
      /\ \A x \in N : FileLaid(f, b, D, P[x], at[x], x, W[x])
  BY DEF Laid
<1>1. /\ \A c \in Ran(D) : g[c] = f[c] /\ e[c] = b[c]
      /\ \A x \in N : \A c \in Ran(P[x]) : g[c] = f[c] /\ e[c] = b[c]
  BY DEF Used
<1> HIDE DEF f, b, g, e
<1>2. DirLaid(g, e, D)
  BY <1>0, <1>1, DirFrame
<1>3. \A n \in Slots(D) : EntryAt(D, e, n) = EntryAt(D, b, n)
  BY <1>0, <1>1, EntryFrame
<1>4. Named(e, D, at, N)
  BY <1>0, <1>3 DEF Named
<1>5. ASSUME NEW x \in N PROVE FileLaid(g, e, D, P[x], at[x], x, W[x])
  <2>1. PICK w : w = W[x] /\ w.size \in Nat
    BY DEF History
  <2>2. PICK p, a : p = P[x] /\ a = at[x]
    OBVIOUS
  <2>3. FileLaid(f, b, D, p, a, x, w) /\ \A c \in Ran(p) : g[c] = f[c] /\ e[c] = b[c]
    BY <1>0, <1>1, <2>1, <2>2
  <2>4. FileLaid(g, e, D, p, a, x, w)
    BY <1>0, <1>3, <2>1, <2>2, <2>3, FileFrame
  <2>5. QED
    BY <2>1, <2>2, <2>4
<1>6. QED
  BY <1>0, <1>2, <1>4, <1>5 DEF Laid, g, e

(* A layout of some files is one of fewer. *)
LEMMA LaidFewer ==
  ASSUME NEW v, NEW D, NEW P, NEW at, NEW W, NEW N, NEW M \in SUBSET N, Laid(v, D, P, at, W, N)
  PROVE  Laid(v, D, P, at, W, M)
<1>1. Named(v.block, D, at, N) => Named(v.block, D, at, M)
  BY DEF Named
<1>2. Apart(D, P, N) => Apart(D, P, M)
  BY DEF Apart
<1>3. QED
  BY <1>1, <1>2 DEF Laid

(* Files that are laid out read back as last written. *)
LEMMA LaidGood ==
  ASSUME NEW v, NEW D, NEW P, NEW at, NEW W \in History, NEW x, Laid(v, D, P, at, W, FileName \ {x})
  PROVE  Good(v, W, x)
<1>1. PICK N \in SUBSET FileName : N = FileName \ {x}
  OBVIOUS
<1>2. Laid(v, D, P, at, W, N)
  BY <1>1
<1>3. \A y \in N : ReadFile(v.fat[1], v.block, y) = Expect(W[y], y)
  BY <1>2, ReadsBack
<1>4. QED
  BY <1>1, <1>3 DEF Good

-----------------------------------------------------------------------------
(* Writes that keep every file but x readable all the way. *)
Kept(v, ops, W, x) ==
  ops \in Seq(Op) /\ \A n \in 0 .. Len(ops) : Good(Track(v, ops)[n], W, x)

(* No writes keep the files that are there. *)
LEMMA KeptNone ==
  ASSUME NEW v \in Vol, NEW W, NEW x, Good(v, W, x)
  PROVE  Kept(v, <<>>, W, x)
  BY NoWrites DEF Kept

(* Writes that keep the files, after writes that do. *)
LEMMA KeptJoin ==
  ASSUME NEW v \in Vol, NEW a, NEW b, NEW W, NEW x, Kept(v, a, W, x), Kept(After(v, a), b, W, x)
  PROVE  Kept(v, a \o b, W, x)
<1>0. a \in Seq(Op) /\ b \in Seq(Op)
  BY DEF Kept
<1>1. PICK M \in Nat, N \in Nat : M = Len(a) /\ N = Len(b)
  BY <1>0, LenProperties
<1>2. /\ a \o b \in Seq(Op) /\ Len(a \o b) = M + N
      /\ \A n \in 0 .. M : Track(v, a \o b)[n] = Track(v, a)[n]
      /\ \A n \in 0 .. N : Track(v, a \o b)[M + n] = Track(After(v, a), b)[n]
  BY <1>0, <1>1, TrackJoin
<1>3. ASSUME NEW n \in 0 .. M + N PROVE Good(Track(v, a \o b)[n], W, x)
  <2>1. CASE n <= M
    <3>1. n \in 0 .. M
      BY <2>1
    <3>2. QED
      BY <1>1, <1>2, <3>1 DEF Kept
  <2>2. CASE n > M
    <3>1. PICK m \in 0 .. N : n = M + m
      <4>1. n - M \in 0 .. N /\ n = M + (n - M)
        BY <2>2
      <4>2. QED
        BY <4>1
    <3>2. QED
      BY <1>1, <1>2, <3>1 DEF Kept
  <2>3. n <= M \/ n > M
    OBVIOUS
  <2>4. QED
    BY <2>1, <2>2, <2>3, Zenon
<1>4. QED
  BY <1>2, <1>3 DEF Kept

(* Once the first write is done, the others keep the files. *)
LEMMA KeptTail ==
  ASSUME NEW v \in Vol, NEW ops, NEW W, NEW x, Kept(v, ops, W, x), ops # <<>>
  PROVE  Wrote(v, Head(ops)) \in Vol /\ Kept(Wrote(v, Head(ops)), Tail(ops), W, x)
<1>0. ops \in Seq(Op)
  BY DEF Kept
<1>1. /\ Wrote(v, Head(ops)) \in Vol
      /\ Tail(ops) \in Seq(Op) /\ Len(Tail(ops)) + 1 = Len(ops)
      /\ \A n \in 0 .. Len(Tail(ops)) : Track(v, ops)[n + 1] = Track(Wrote(v, Head(ops)), Tail(ops))[n]
  BY <1>0, TrackTail
<1>2. PICK N \in Nat : N = Len(Tail(ops)) /\ Len(ops) = N + 1
  BY <1>0, <1>1, LenProperties
<1>3. \A n \in 0 .. N : n + 1 \in 0 .. N + 1
  OBVIOUS
<1>4. \A n \in 0 .. N : Good(Track(v, ops)[n + 1], W, x)
  BY <1>2, <1>3 DEF Kept
<1>5. QED
  BY <1>1, <1>2, <1>4 DEF Kept

(* Before the first write the files are there. *)
LEMMA KeptHere ==
  ASSUME NEW v \in Vol, NEW ops, NEW W, NEW x, Kept(v, ops, W, x)
  PROVE  Good(v, W, x)
<1>0. ops \in Seq(Op)
  BY DEF Kept
<1>1. Tracks(Track(v, ops), v, ops) /\ Len(ops) \in Nat
  BY <1>0, TrackExists, LenProperties
<1>2. Track(v, ops)[0] = v /\ 0 \in 0 .. Len(ops)
  BY <1>1 DEF Tracks
<1>3. QED
  BY <1>2 DEF Kept

(* Writes away from the directory and the other files keep both. *)
LEMMA KeptWithin ==
  ASSUME NEW v \in Vol, NEW D, NEW P, NEW at, NEW W \in History, NEW x,
         Laid(v, D, P, at, W, FileName \ {x}),
         NEW ops \in Seq(Op), NEW C, Within(ops, C), C \cap Used(D, P, FileName \ {x}) = {},
         Used(D, P, FileName \ {x}) \subseteq Cluster
  PROVE  /\ Kept(v, ops, W, x) /\ After(v, ops) \in Vol
         /\ Laid(After(v, ops), D, P, at, W, FileName \ {x})
<1> DEFINE N == FileName \ {x}
<1>1. /\ \A n \in 0 .. Len(ops) : Track(v, ops)[n] \in Vol /\ Agree(Track(v, ops)[n], v, C)
      /\ After(v, ops) \in Vol /\ Agree(After(v, ops), v, C)
  BY Frame
<1>2. N \in SUBSET FileName
  OBVIOUS
<1> HIDE DEF N
<1>3. ASSUME NEW u, Agree(u, v, C) PROVE Laid(u, D, P, at, W, N)
  <2>1. \A c \in Used(D, P, N) : u.fat[1][c] = v.fat[1][c] /\ u.block[c] = v.block[c]
    BY <1>3, Sizes32 DEF Agree, N
  <2>2. Laid(v, D, P, at, W, N)
    BY DEF N
  <2>3. QED
    BY <1>2, <2>1, <2>2, LaidFrame
<1>4. \A u : Agree(u, v, C) => Good(u, W, x)
  BY <1>3, LaidGood DEF N
<1>5. QED
  BY <1>1, <1>3, <1>4 DEF Kept, N

-----------------------------------------------------------------------------
(* The copies of the FAT agree, and nothing is allocated but D and P. *)
Full(v, D, P) ==
  /\ \A k \in Copy : v.fat[k] = v.fat[1]
  /\ \A c \in Cluster : v.fat[1][c] # Free => c \in Used(D, P, FileName)

Maps(P, at) == P \in [FileName -> Seq(Cluster)] /\ at \in [FileName -> Nat]

Ready(v, D, P, at, W) ==
  /\ v \in Vol /\ Maps(P, at) /\ W \in History
  /\ Laid(v, D, P, at, W, FileName) /\ Full(v, D, P)

Sound(v, W) == \E D, P, at : Ready(v, D, P, at, W)

(* What a write of x may change: all but the directory and the other files. *)
Rest(D, P, x) == Cluster \ Used(D, P, FileName \ {x})

(* x has a chain Q of n clusters, and nothing else is allocated in the rest. *)
Sized(u, D, P, x, Q, n) ==
  /\ u \in Vol /\ Path(u.fat[1], Q) /\ Len(Q) = n /\ Ran(Q) \subseteq Rest(D, P, x)
  /\ \A k \in Copy : u.fat[k] = u.fat[1]
  /\ \A c \in Rest(D, P, x) : u.fat[1][c] # Free => c \in Ran(Q)

(* The clusters of a sequence. *)
LEMMA RanFacts ==
  ASSUME NEW s \in Seq(Cluster)
  PROVE  /\ Ran(s) \subseteq Cluster /\ Ran(<<>>) = {}
         /\ \A i \in 1 .. Len(s) : s[i] \in Ran(s) /\ s[i] \in Cluster
         /\ Len(s) \in Nat
<1>1. \A i \in 1 .. Len(s) : s[i] \in Cluster
  BY ElementOfSeq
<1>2. Len(s) \in Nat
  BY LenProperties
<1>3. Ran(<<>>) = {}
  BY EmptySeq DEF Ran
<1>4. QED
  BY <1>1, <1>2, <1>3 DEF Ran

(* What the directory and the files use is allocated. *)
LEMMA UsedFacts ==
  ASSUME NEW v, NEW D, NEW P, NEW at, NEW W, NEW N \in SUBSET FileName, Maps(P, at), Laid(v, D, P, at, W, N)
  PROVE  /\ Used(D, P, N) \subseteq Cluster
         /\ \A c \in Used(D, P, N) : v.fat[1][c] # Free
<1>1. Path(v.fat[1], D) /\ \A y \in N : P[y] = <<>> \/ Path(v.fat[1], P[y])
  BY DEF Laid, DirLaid, FileLaid
<1>2. ASSUME NEW c \in Ran(D) PROVE c \in Cluster /\ v.fat[1][c] # Free
  <2>1. PICK i \in 1 .. Len(D) : c = D[i]
    BY DEF Ran
  <2>2. QED
    BY <1>1, <2>1, PathFacts
<1>3. ASSUME NEW y \in N, NEW c \in Ran(P[y]) PROVE c \in Cluster /\ v.fat[1][c] # Free
  <2>1. PICK p : p = P[y] /\ p \in Seq(Cluster)
    BY DEF Maps
  <2>2. p # <<>>
    BY <2>1, RanFacts
  <2>3. Path(v.fat[1], p)
    BY <1>1, <2>1, <2>2
  <2>4. PICK i \in 1 .. Len(p) : c = p[i]
    BY <2>1 DEF Ran
  <2>5. QED
    BY <2>3, <2>4, PathFacts
<1>4. QED
  BY <1>2, <1>3 DEF Used

(* The FAT copies agree after writes that leave them equal where they      *)
(* write.                                                                  *)
LEMMA CopiesAgree ==
  ASSUME NEW v \in Vol, NEW u \in Vol, NEW C, Agree(u, v, C),
         \A k \in Copy : v.fat[k] = v.fat[1],
         \A c \in C \cap Cluster, k \in Copy : u.fat[k][c] = u.fat[1][c]
  PROVE  \A k \in Copy : u.fat[k] = u.fat[1]
<1> SUFFICES ASSUME NEW k \in Copy PROVE u.fat[k] = u.fat[1]
  OBVIOUS
<1>1. 1 \in Copy
  BY Sizes32
<1>2. u.fat[k] \in [Cluster -> FatValue] /\ u.fat[1] \in [Cluster -> FatValue]
  BY <1>1 DEF Vol
<1>3. ASSUME NEW c \in Cluster PROVE u.fat[k][c] = u.fat[1][c]
  <2>1. CASE c \in C
    BY <2>1
  <2>2. CASE c \notin C
    <3>1. u.fat[k][c] = v.fat[k][c] /\ u.fat[1][c] = v.fat[1][c]
      BY <1>1, <2>2 DEF Agree
    <3>2. QED
      BY <3>1
  <2>3. QED
    BY <2>1, <2>2
<1>4. QED
  BY <1>2, <1>3

(* The first n of the free clusters. *)
LEMMA TakenFacts ==
  ASSUME NEW cs \in Seq(Cluster), Distinct(cs), NEW n \in Nat
  PROVE  /\ Taken(cs, n) \in Seq(Cluster) /\ Distinct(Taken(cs, n)) /\ Ran(Taken(cs, n)) \subseteq Ran(cs)
         /\ Len(Taken(cs, n)) = IF n <= Len(cs) THEN n ELSE Len(cs)
<1>0. PICK L \in Nat : L = Len(cs)
  BY LenProperties
<1>1. PICK m \in Nat : m = (IF n <= L THEN n ELSE L) /\ m <= L
  BY <1>0
<1>2. Min({n, L}) = m
  <2> DEFINE S == {n, L}
  <2>1. S \subseteq Int /\ m \in S /\ \A y \in S : m <= y
    BY <1>1
  <2> HIDE DEF S
  <2>2. Min(S) = m
    BY <2>1, MinIs
  <2>3. QED
    BY <2>2 DEF S
<1>3. \A i \in 1 .. m : i \in 1 .. L /\ cs[i] \in Cluster /\ cs[i] \in Ran(cs)
  BY <1>0, <1>1, RanFacts
<1> DEFINE t == SubSeq(cs, 1, m)
<1>4. /\ t \in Seq(Cluster) /\ Len(t) = (IF 1 <= m THEN m - 1 + 1 ELSE 0)
      /\ \A i \in 1 .. m - 1 + 1 : t[i] = cs[1 + i - 1]
  BY <1>3, SubSeqProperties
<1>5. t = Taken(cs, n)
  BY <1>0, <1>2 DEF Taken
<1> HIDE DEF t
<1>6. Len(t) = m /\ \A i \in 1 .. m : t[i] = cs[i]
  BY <1>1, <1>4
<1>7. Distinct(t)
  BY <1>0, <1>3, <1>6 DEF Distinct
<1>8. Ran(t) \subseteq Ran(cs)
  BY <1>3, <1>6 DEF Ran
<1>9. QED
  BY <1>0, <1>1, <1>4, <1>5, <1>6, <1>7, <1>8

(* Clusters strung together are a path in every copy. *)
LEMMA StrungPath ==
  ASSUME NEW u \in Vol, NEW cs \in Seq(Cluster), cs # <<>>, Distinct(cs), Strung(u, cs, Len(cs))
  PROVE  /\ Path(u.fat[1], cs)
         /\ \A c \in Ran(cs), k \in Copy : u.fat[k][c] = u.fat[1][c]
<1>1. 1 \in Copy
  BY Sizes32
<1>2. \A i \in 1 .. Len(cs), k \in Copy : u.fat[k][cs[i]] = IF i = Len(cs) THEN Eoc ELSE cs[i + 1]
  BY DEF Strung
<1>3. Path(u.fat[1], cs)
  BY <1>1, <1>2 DEF Path
<1>4. ASSUME NEW c \in Ran(cs), NEW k \in Copy PROVE u.fat[k][c] = u.fat[1][c]
  <2>1. PICK i \in 1 .. Len(cs) : c = cs[i]
    BY DEF Ran
  <2>2. QED
    BY <1>1, <1>2, <2>1
<1>5. QED
  BY <1>3, <1>4

(* The free clusters are nobody's. *)
LEMMA RoomFacts ==
  ASSUME NEW v \in Vol, NEW D, NEW P, NEW at, NEW W, Maps(P, at), Laid(v, D, P, at, W, FileName), NEW x
  PROVE  /\ FreeClusters(v.fat[1]) \in Seq(Cluster) /\ Distinct(FreeClusters(v.fat[1]))
         /\ Ran(FreeClusters(v.fat[1])) \cap Used(D, P, FileName) = {}
         /\ Ran(FreeClusters(v.fat[1])) \subseteq Rest(D, P, x)
         /\ \A c \in Ran(FreeClusters(v.fat[1])) : v.fat[1][c] = Free
<1>1. v.fat[1] \in [Cluster -> FatValue]
  BY Sizes32 DEF Vol
<1> DEFINE r == FreeClusters(v.fat[1])
<1>2. r \in Seq(Cluster) /\ Distinct(r) /\ \A i \in 1 .. Len(r) : v.fat[1][r[i]] = Free
  BY <1>1, FreeFound
<1> HIDE DEF r
<1>3. \A c \in Ran(r) : v.fat[1][c] = Free /\ c \in Cluster
  BY <1>2, RanFacts DEF Ran
<1>4. \A c \in Used(D, P, FileName) : v.fat[1][c] # Free
  BY UsedFacts
<1>5. Used(D, P, FileName \ {x}) \subseteq Used(D, P, FileName)
  BY DEF Used
<1>6. QED
  BY <1>2, <1>3, <1>4, <1>5 DEF Rest, r

(* What a write of x may change holds x's own chain and free clusters. *)
LEMMA RestFacts ==
  ASSUME NEW v, NEW D, NEW P, NEW at, NEW W, Ready(v, D, P, at, W), NEW x \in FileName
  PROVE  /\ \A c \in Rest(D, P, x) : v.fat[1][c] # Free => c \in Ran(P[x])
         /\ Ran(P[x]) \subseteq Rest(D, P, x)
         /\ Used(D, P, FileName \ {x}) \subseteq Cluster
         /\ Rest(D, P, x) \cap Used(D, P, FileName \ {x}) = {}
         /\ Rest(D, P, x) \subseteq Cluster
<1>1. Maps(P, at) /\ Laid(v, D, P, at, W, FileName) /\ Full(v, D, P)
  BY DEF Ready
<1>2. Used(D, P, FileName) \subseteq Cluster
  BY <1>1, UsedFacts
<1>3. Used(D, P, FileName) = Used(D, P, FileName \ {x}) \cup Ran(P[x])
  BY DEF Used
<1>4. Ran(P[x]) \cap Used(D, P, FileName \ {x}) = {}
  BY <1>1 DEF Laid, Apart, Used
<1>5. \A c \in Rest(D, P, x) : v.fat[1][c] # Free => c \in Used(D, P, FileName)
  BY <1>1 DEF Full, Rest
<1>6. QED
  BY <1>2, <1>3, <1>4, <1>5 DEF Rest

(* When a chain is sized: its writes kept to the rest, and what they left  *)
(* allocated is on it.                                                     *)
LEMMA SizedFrom ==
  ASSUME NEW v, NEW D, NEW P, NEW at, NEW W, Ready(v, D, P, at, W), NEW x \in FileName,
         NEW u \in Vol, NEW C \in SUBSET Rest(D, P, x), Agree(u, v, C),
         NEW Q, Path(u.fat[1], Q), Ran(Q) \subseteq Rest(D, P, x),
         \A c \in C, k \in Copy : u.fat[k][c] = u.fat[1][c],
         \A c \in C \cup Ran(P[x]) : u.fat[1][c] # Free => c \in Ran(Q)
  PROVE  Sized(u, D, P, x, Q, Len(Q))
<1>1. v \in Vol /\ \A k \in Copy : v.fat[k] = v.fat[1]
  BY DEF Ready, Full
<1>2. \A k \in Copy : u.fat[k] = u.fat[1]
  BY <1>1, CopiesAgree
<1>3. ASSUME NEW c \in Rest(D, P, x), u.fat[1][c] # Free PROVE c \in Ran(Q)
  <2>1. CASE c \in C \cup Ran(P[x])
    BY <1>3, <2>1
  <2>2. CASE c \notin C \cup Ran(P[x])
    <3>1. v.fat[1][c] = Free /\ c \in Cluster
      BY <2>2, RestFacts
    <3>2. u.fat[1][c] = v.fat[1][c]
      BY <2>2, <3>1, Sizes32 DEF Agree
    <3>3. QED
      BY <1>3, <3>1, <3>2
  <2>3. QED
    BY <2>1, <2>2
<1>4. QED
  BY <1>2, <1>3 DEF Sized

(* What sizing the chain of x does: within the rest, and if it fits the    *)
(* file has its chain.                                                     *)
Sizing(v, s, D, P, x, needed) ==
  /\ s.ops \in Seq(Op) /\ Within(s.ops, Rest(D, P, x)) /\ s.fits \in BOOLEAN
  /\ s.fits => \E Q : Q[1] = s.first /\ Sized(After(v, s.ops), D, P, x, Q, needed)

(* write_file's new chain for a file that has none. *)
LEMMA NewChainDoes ==
  ASSUME NEW v, NEW D, NEW P, NEW at, NEW W, Ready(v, D, P, at, W), NEW x \in FileName,
         P[x] = <<>>, NEW needed \in Nat, needed >= 1
  PROVE  Sizing(v, NewChain(v.fat[1], needed), D, P, x, needed)
<1> DEFINE room == FreeClusters(v.fat[1])
           cs == Taken(room, needed)
           ops == AllocateChain(cs)
           s == NewChain(v.fat[1], needed)
           u == After(v, ops)
<1>0. v \in Vol /\ Maps(P, at) /\ Laid(v, D, P, at, W, FileName)
  BY DEF Ready
<1>1. room \in Seq(Cluster) /\ Distinct(room) /\ Ran(room) \subseteq Rest(D, P, x)
  BY <1>0, RoomFacts
<1> HIDE DEF room
<1>2. cs \in Seq(Cluster) /\ Distinct(cs) /\ Ran(cs) \subseteq Rest(D, P, x)
  BY <1>1, TakenFacts
<1>3. s = [ops |-> ops, first |-> IF cs = <<>> THEN 0 ELSE cs[1], fits |-> Len(cs) = needed]
  BY DEF NewChain, room
<1>4. s.ops = ops /\ s.fits = (Len(cs) = needed) /\ s.first = IF cs = <<>> THEN 0 ELSE cs[1]
  BY <1>3
<1> HIDE DEF cs, s
<1>5. ops \in Seq(Op) /\ Within(ops, Ran(cs)) /\ u \in Vol /\ Strung(u, cs, Len(cs))
  BY <1>0, <1>2, AllocateChainDoes
<1> HIDE DEF ops, u
<1>6. Within(ops, Rest(D, P, x))
  BY <1>2, <1>5, WithinMore
<1>7. Agree(u, v, Ran(cs))
  BY <1>0, <1>5, Frame DEF u
<1>8. ASSUME Len(cs) = needed PROVE cs[1] = s.first /\ Sized(u, D, P, x, cs, needed)
  <2>1. cs # <<>>
    BY <1>8, EmptySeq
  <2>2. Path(u.fat[1], cs) /\ \A c \in Ran(cs), k \in Copy : u.fat[k][c] = u.fat[1][c]
    BY <1>2, <1>5, <2>1, StrungPath
  <2>3. Ran(P[x]) = {}
    BY <1>2, RanFacts
  <2>4. Sized(u, D, P, x, cs, Len(cs))
    BY <1>2, <1>5, <1>7, <2>2, <2>3, SizedFrom
  <2>5. QED
    BY <1>4, <1>8, <2>1, <2>4
<1>9. QED
  BY <1>4, <1>5, <1>6, <1>8 DEF Sizing, s, u

(* A path whose last cluster is linked to another path is one path. *)
LEMMA JoinPath ==
  ASSUME NEW f, NEW p, Path(f, p), NEW h, NEW e, Path(h, e), Ran(p) \cap Ran(e) = {},
         NEW g, g[p[Len(p)]] = e[1],
         \A c \in Ran(p) \ {p[Len(p)]} : g[c] = f[c],
         \A c \in Ran(e) : g[c] = h[c]
  PROVE  /\ Path(g, p \o e) /\ Len(p \o e) = Len(p) + Len(e) /\ Ran(p \o e) = Ran(p) \cup Ran(e)
         /\ \A i \in 1 .. Len(p) : (p \o e)[i] = p[i]
         /\ \A i \in 1 .. Len(e) : (p \o e)[Len(p) + i] = e[i]
<1>0. /\ p \in Seq(Cluster) /\ Distinct(p) /\ e \in Seq(Cluster) /\ Distinct(e)
      /\ \A i \in 1 .. Len(p) : f[p[i]] = IF i = Len(p) THEN Eoc ELSE p[i + 1]
      /\ \A i \in 1 .. Len(e) : h[e[i]] = IF i = Len(e) THEN Eoc ELSE e[i + 1]
  BY DEF Path
<1>1. PICK M \in Nat, N \in Nat : M = Len(p) /\ N = Len(e) /\ M >= 1 /\ N >= 1
  BY PathFacts
<1> DEFINE q == p \o e
<1>2. /\ q \in Seq(Cluster) /\ Len(q) = M + N
      /\ \A i \in 1 .. M + N : q[i] = IF i <= M THEN p[i] ELSE e[i - M]
  BY <1>0, <1>1, ConcatProperties
<1> HIDE DEF q
<1>3. /\ \A i \in 1 .. M : q[i] = p[i] /\ q[i] \in Ran(p)
      /\ \A i \in 1 .. N : q[M + i] = e[i] /\ q[M + i] \in Ran(e)
  <2>1. ASSUME NEW i \in 1 .. M PROVE q[i] = p[i] /\ q[i] \in Ran(p)
    BY <1>1, <1>2 DEF Ran
  <2>2. ASSUME NEW i \in 1 .. N PROVE q[M + i] = e[i] /\ q[M + i] \in Ran(e)
    <3>1. M + i \in 1 .. M + N /\ ~(M + i <= M) /\ (M + i) - M = i
      OBVIOUS
    <3>2. q[M + i] = e[i]
      BY <1>2, <3>1
    <3>3. QED
      BY <1>1, <3>2 DEF Ran
  <2>3. QED
    BY <2>1, <2>2
<1>4. ASSUME NEW i \in 1 .. M + N
      PROVE  i \in 1 .. M \/ \E j \in 1 .. N : i = M + j
  <2>1. CASE i <= M
    BY <2>1
  <2>2. CASE i > M
    <3>1. i - M \in 1 .. N /\ i = M + (i - M)
      BY <2>2
    <3>2. QED
      BY <3>1
  <2>3. QED
    BY <2>1, <2>2
<1>5. ASSUME NEW i \in 1 .. M + N, NEW j \in 1 .. M + N, q[i] = q[j] PROVE i = j
  <2>1. CASE i \in 1 .. M /\ j \in 1 .. M
    BY <1>0, <1>1, <1>3, <1>5, <2>1 DEF Distinct
  <2>2. CASE i \in 1 .. M /\ j \notin 1 .. M
    <3>1. PICK b \in 1 .. N : j = M + b
      BY <1>4, <2>2
    <3>2. q[i] \in Ran(p) /\ q[j] \in Ran(e)
      BY <1>3, <2>2, <3>1
    <3>3. QED
      BY <1>5, <3>2
  <2>3. CASE i \notin 1 .. M /\ j \in 1 .. M
    <3>1. PICK a \in 1 .. N : i = M + a
      BY <1>4, <2>3
    <3>2. q[j] \in Ran(p) /\ q[i] \in Ran(e)
      BY <1>3, <2>3, <3>1
    <3>3. QED
      BY <1>5, <3>2
  <2>4. CASE i \notin 1 .. M /\ j \notin 1 .. M
    <3>1. PICK a \in 1 .. N : i = M + a
      BY <1>4, <2>4
    <3>2. PICK b \in 1 .. N : j = M + b
      BY <1>4, <2>4
    <3>3. e[a] = e[b]
      BY <1>3, <1>5, <3>1, <3>2
    <3>4. QED
      BY <1>0, <1>1, <3>1, <3>2, <3>3 DEF Distinct
  <2>5. QED
    BY <2>1, <2>2, <2>3, <2>4, Zenon
<1>6. ASSUME NEW i \in 1 .. M + N PROVE g[q[i]] = IF i = M + N THEN Eoc ELSE q[i + 1]
  <2>1. CASE i < M
    <3>1. i \in 1 .. M /\ i + 1 \in 1 .. M /\ i # M /\ i # M + N /\ M \in 1 .. M
      BY <2>1
    <3>2. q[i] = p[i] /\ q[i + 1] = p[i + 1] /\ p[i] \in Ran(p)
      BY <1>3, <3>1
    <3>3. p[i] # p[M]
      BY <1>0, <1>1, <3>1 DEF Distinct
    <3>4. g[p[i]] = f[p[i]] /\ f[p[i]] = p[i + 1]
      BY <1>0, <1>1, <3>1, <3>2, <3>3
    <3>5. QED
      BY <3>1, <3>2, <3>4
  <2>2. CASE i = M
    <3>1. M \in 1 .. M /\ 1 \in 1 .. N /\ M # M + N
      BY <1>1
    <3>2. q[i] = p[M] /\ q[i + 1] = e[1]
      BY <1>3, <2>2, <3>1
    <3>3. QED
      BY <1>1, <2>2, <3>1, <3>2
  <2>3. CASE i > M
    <3>1. PICK j \in 1 .. N : i = M + j
      BY <1>4, <2>3
    <3>2. q[i] = e[j] /\ e[j] \in Ran(e)
      BY <1>3, <3>1
    <3>3. g[e[j]] = IF j = N THEN Eoc ELSE e[j + 1]
      BY <1>0, <1>1, <3>2
    <3>4. i = M + N <=> j = N
      BY <3>1
    <3>5. j # N => q[i + 1] = e[j + 1]
      <4>1. ASSUME j # N PROVE q[i + 1] = e[j + 1]
        <5>1. j + 1 \in 1 .. N /\ i + 1 = M + (j + 1)
          BY <3>1, <4>1
        <5>2. QED
          BY <1>3, <5>1
      <4>2. QED
        BY <4>1
    <3>6. QED
      BY <3>2, <3>3, <3>4, <3>5
  <2>4. QED
    BY <2>1, <2>2, <2>3
<1>7. q # <<>>
  BY <1>1, <1>2, EmptySeq
<1>8. Path(g, q)
  BY <1>2, <1>5, <1>6, <1>7 DEF Path, Distinct
<1>9. Ran(q) = Ran(p) \cup Ran(e)
  <2>1. ASSUME NEW c \in Ran(q) PROVE c \in Ran(p) \cup Ran(e)
    <3>1. PICK i \in 1 .. M + N : c = q[i]
      BY <1>2 DEF Ran
    <3>2. QED
      BY <1>3, <1>4, <3>1
  <2>2. ASSUME NEW c \in Ran(p) PROVE c \in Ran(q)
    <3>1. PICK i \in 1 .. M : c = p[i]
      BY <1>1 DEF Ran
    <3>2. i \in 1 .. M + N /\ c = q[i]
      BY <1>1, <1>3, <3>1
    <3>3. QED
      BY <1>2, <3>2 DEF Ran
  <2>3. ASSUME NEW c \in Ran(e) PROVE c \in Ran(q)
    <3>1. PICK i \in 1 .. N : c = e[i]
      BY <1>1 DEF Ran
    <3>2. M + i \in 1 .. M + N /\ c = q[M + i]
      BY <1>1, <1>3, <3>1
    <3>3. QED
      BY <1>2, <3>2 DEF Ran
  <2>4. QED
    BY <2>1, <2>2, <2>3
<1>10. QED
  BY <1>1, <1>2, <1>3, <1>8, <1>9 DEF q

(* u with x as the entry of cluster c in every FAT. *)
Put(t, u, c, x) ==
  /\ t.block = u.block
  /\ \A k \in Copy, d \in Cluster : t.fat[k][d] = IF d = c THEN x ELSE u.fat[k][d]

(* set_fat_entry, cluster by cluster. *)
LEMMA SetEntry ==
  ASSUME NEW u \in Vol, NEW c \in Cluster, NEW x \in FatValue
  PROVE  /\ SetFatEntry(c, x) \in Seq(Op) /\ Within(SetFatEntry(c, x), {c})
         /\ After(u, SetFatEntry(c, x)) \in Vol
         /\ Put(After(u, SetFatEntry(c, x)), u, c, x)
<1> DEFINE ops == SetFatEntry(c, x)
           t == After(u, ops)
<1>1. ops \in Seq(Op) /\ Within(ops, {c}) /\ FatSet(t, u, c, x)
  BY SetFatEntryDoes
<1> HIDE DEF ops
<1>2. t \in Vol
  BY <1>1, TrackExists
<1> HIDE DEF t
<1>3. t.block = u.block /\ \A k \in Copy : t.fat[k] = [u.fat[k] EXCEPT ![c] = x]
  BY <1>1 DEF FatSet
<1>4. \A k \in Copy : u.fat[k] \in [Cluster -> FatValue]
  BY DEF Vol
<1>5. \A k \in Copy, d \in Cluster : t.fat[k][d] = IF d = c THEN x ELSE u.fat[k][d]
  BY <1>3, <1>4
<1>6. QED
  BY <1>1, <1>2, <1>3, <1>5 DEF Put, t, ops

(* resize_chain of a chain that is too short. *)
LEMMA GrowDoes ==
  ASSUME NEW v, NEW D, NEW P, NEW at, NEW W, Ready(v, D, P, at, W), NEW x \in FileName,
         NEW p, p = P[x], Path(v.fat[1], p), NEW missing \in Nat, missing >= 1,
         NEW room, room = FreeClusters(v.fat[1])
  PROVE  Sizing(v, [ops |-> Grown(p[Len(p)], Taken(room, missing), missing), first |-> p[1],
                    fits |-> Len(room) >= missing], D, P, x, Len(p) + missing)
<1>0. v \in Vol /\ Maps(P, at) /\ Laid(v, D, P, at, W, FileName) /\ \A k \in Copy : v.fat[k] = v.fat[1]
  BY DEF Ready, Full
<1>1. /\ room \in Seq(Cluster) /\ Distinct(room) /\ Ran(room) \subseteq Rest(D, P, x)
      /\ \A c \in Ran(room) : v.fat[1][c] = Free
  BY <1>0, RoomFacts
<1>2. PICK e : /\ e = Taken(room, missing) /\ e \in Seq(Cluster) /\ Distinct(e) /\ Ran(e) \subseteq Ran(room)
               /\ Len(e) = IF missing <= Len(room) THEN missing ELSE Len(room)
  BY <1>1, TakenFacts
<1>3. PICK L \in Nat, R \in Nat : L = Len(p) /\ L >= 1 /\ R = Len(room)
  BY <1>1, PathFacts, LenProperties
<1>4. /\ p[L] \in Cluster /\ p[L] \in Ran(p) /\ Ran(p) \subseteq Rest(D, P, x) /\ Ran(p) \subseteq Cluster
      /\ \A c \in Ran(p) : v.fat[1][c] # Free
  <2>1. L \in 1 .. L
    BY <1>3
  <2>2. p[L] \in Cluster /\ p[L] \in Ran(p)
    BY <1>3, <2>1, PathFacts DEF Ran
  <2>3. Ran(p) \subseteq Rest(D, P, x)
    BY RestFacts
  <2>4. ASSUME NEW c \in Ran(p) PROVE v.fat[1][c] # Free
    <3>1. PICK i \in 1 .. Len(p) : c = p[i]
      BY DEF Ran
    <3>2. QED
      BY <3>1, PathFacts
  <2>5. QED
    BY <2>2, <2>3, <2>4 DEF Rest
<1> DEFINE a == AllocateChain(e)
           u == After(v, a)
           l == IF Len(e) < missing THEN <<>> ELSE SetFatEntry(p[L], e[1])
           ops == a \o l
           t == After(u, l)
<1>5. a \in Seq(Op) /\ Within(a, Ran(e)) /\ u \in Vol /\ Strung(u, e, Len(e))
  BY <1>0, <1>2, AllocateChainDoes
<1>6. Agree(u, v, Ran(e))
  BY <1>0, <1>5, Frame
<1>7. Grown(p[Len(p)], Taken(room, missing), missing) = ops
  BY <1>2, <1>3 DEF Grown
<1> HIDE DEF a, u, ops
<1>8. Len(e) \in Nat /\ (Len(e) < missing <=> ~(R >= missing))
  BY <1>2, <1>3
<1>9. Within(a, Rest(D, P, x))
  BY <1>1, <1>2, <1>5, WithinMore
<1>10. CASE Len(e) < missing
  <2>1. l \in Seq(Op) /\ Within(l, Rest(D, P, x))
    BY <1>10, WithinEmpty
  <2> HIDE DEF l
  <2>2. ops \in Seq(Op) /\ Within(ops, Rest(D, P, x))
    BY <1>5, <1>9, <2>1, WithinJoin DEF ops
  <2>3. (Len(room) >= missing) = FALSE
    BY <1>3, <1>8, <1>10
  <2>4. PICK s : s = [ops |-> Grown(p[Len(p)], Taken(room, missing), missing), first |-> p[1],
                      fits |-> Len(room) >= missing]
    OBVIOUS
  <2>5. s.ops = ops /\ s.fits = FALSE
    BY <1>7, <2>3, <2>4
  <2>6. Sizing(v, s, D, P, x, Len(p) + missing)
    BY <2>2, <2>5 DEF Sizing
  <2>7. QED
    BY <2>4, <2>6
<1>11. CASE ~(Len(e) < missing)
  <2>1. l = SetFatEntry(p[L], e[1]) /\ Len(e) = missing /\ R >= missing
    BY <1>2, <1>3, <1>8, <1>11
  <2>2. e # <<>> /\ 1 \in 1 .. Len(e)
    BY <1>8, <2>1, EmptySeq
  <2>3. e[1] \in Cluster /\ e[1] \in FatValue
    BY <1>2, <2>2, RanFacts DEF FatValue
  <2>4. Path(u.fat[1], e) /\ \A c \in Ran(e), k \in Copy : u.fat[k][c] = u.fat[1][c]
    BY <1>2, <1>5, <2>2, StrungPath
  <2>5. /\ l \in Seq(Op) /\ Within(l, {p[L]}) /\ t \in Vol
        /\ \A k \in Copy, d \in Cluster : t.fat[k][d] = IF d = p[L] THEN e[1] ELSE u.fat[k][d]
    <3> HIDE DEF l
    <3>1. PICK o : o = SetFatEntry(p[L], e[1])
      OBVIOUS
    <3>2. /\ o \in Seq(Op) /\ Within(o, {p[L]}) /\ After(u, o) \in Vol
          /\ Put(After(u, o), u, p[L], e[1])
      <4>1. p[L] \in Cluster /\ u \in Vol /\ e[1] \in FatValue
        BY <1>4, <1>5, <2>3
      <4>2. QED
        BY <3>1, <4>1, SetEntry
    <3>3. l = o
      BY <2>1, <3>1
    <3>4. QED
      BY <3>2, <3>3 DEF Put
  <2> HIDE DEF l, t
  <2>6. {p[L]} \subseteq Rest(D, P, x)
    BY <1>4
  <2>7. ops \in Seq(Op) /\ Within(ops, Rest(D, P, x)) /\ After(v, ops) = t
    <3>1. Within(l, Rest(D, P, x))
      BY <2>5, <2>6, WithinMore
    <3>2. QED
      BY <1>0, <1>5, <1>9, <2>5, <3>1, WithinJoin, AfterJoin DEF ops, u, t
  <2>8. Ran(p) \cap Ran(e) = {} /\ Ran(e) \subseteq Rest(D, P, x) /\ Ran(e) \subseteq Cluster
    BY <1>1, <1>2, <1>4, RestFacts
  <2>9. 1 \in Copy
    BY Sizes32
  <2>10. \A k \in Copy, c \in Cluster \ Ran(e) : u.fat[k][c] = v.fat[k][c]
    BY <1>6 DEF Agree
  <2>11. t.fat[1][p[Len(p)]] = e[1]
    BY <1>3, <1>4, <2>5, <2>9
  <2>12. \A c \in Ran(p) \ {p[Len(p)]} : t.fat[1][c] = v.fat[1][c]
    BY <1>3, <1>4, <2>5, <2>8, <2>9, <2>10
  <2>13. \A c \in Ran(e) : t.fat[1][c] = u.fat[1][c]
    BY <1>4, <2>5, <2>8, <2>9
  <2>14. PICK Q : /\ Q = p \o e /\ Path(t.fat[1], Q) /\ Len(Q) = L + missing /\ Ran(Q) = Ran(p) \cup Ran(e)
                  /\ Q[1] = p[1]
    <3>1. /\ Path(t.fat[1], p \o e) /\ Len(p \o e) = Len(p) + Len(e) /\ Ran(p \o e) = Ran(p) \cup Ran(e)
          /\ \A i \in 1 .. Len(p) : (p \o e)[i] = p[i]
      BY <2>4, <2>8, <2>11, <2>12, <2>13, JoinPath
    <3>2. 1 \in 1 .. Len(p)
      BY <1>3
    <3>3. QED
      BY <1>3, <2>1, <3>1, <3>2
  <2>15. PICK C \in SUBSET Rest(D, P, x) : C = Ran(e) \cup {p[L]}
    BY <2>6, <2>8
  <2>16. Agree(t, v, C)
    <3>1. Within(ops, C)
      <4>1. Within(a, C) /\ Within(l, C)
        BY <1>5, <2>5, <2>15, WithinMore
      <4>2. QED
        BY <1>5, <2>5, <4>1, WithinJoin DEF ops
    <3>2. QED
      BY <1>0, <2>7, <3>1, Frame
  <2>17. \A c \in C, k \in Copy : t.fat[k][c] = t.fat[1][c]
    BY <1>4, <2>4, <2>5, <2>8, <2>9, <2>15
  <2>18. C \cup Ran(P[x]) \subseteq Ran(Q) /\ Ran(Q) \subseteq Rest(D, P, x)
    BY <1>4, <2>8, <2>14, <2>15
  <2>19. Sized(t, D, P, x, Q, Len(Q))
    BY <2>5, <2>14, <2>16, <2>17, <2>18, SizedFrom
  <2>20. Sized(t, D, P, x, Q, Len(p) + missing) /\ Q[1] = p[1]
    BY <1>3, <2>14, <2>19
  <2>21. QED
    BY <1>3, <1>7, <2>1, <2>7, <2>20 DEF Sizing
<1>12. QED
  BY <1>10, <1>11

(* The clusters of p after the n-th, and that they are free. *)
Beyond(p, n) == {p[i] : i \in (n + 1) .. Len(p)}
Freed(u, C) == \A c \in C, k \in Copy : u.fat[k][c] = Free

(* resize_chain of a chain that is too long: free the tail. *)
LEMMA TailFreed ==
  ASSUME NEW v \in Vol, NEW p, Path(v.fat[1], p), NEW n \in 1 .. Len(p)
  PROVE  \E a \in Seq(Op) :
           /\ Shrunk(v.fat[1], p[n]) = a \o SetFatEntry(p[n], Eoc)
           /\ Within(a, Beyond(p, n)) /\ After(v, a) \in Vol /\ Freed(After(v, a), Beyond(p, n))
<1> DEFINE f == v.fat[1]
<1>0. PICK L \in Nat : L = Len(p) /\ L >= 1 /\ n \in 1 .. L /\ n \in Nat
  BY PathFacts
<1>1. CASE n = L
  <2>1. ~Link(f[p[n]])
    BY <1>0, <1>1, PathFacts
  <2>2. Shrunk(f, p[n]) = <<>> \o SetFatEntry(p[n], Eoc)
    BY <2>1 DEF Shrunk
  <2>3. Beyond(p, n) = {}
    BY <1>0, <1>1 DEF Beyond
  <2>4. <<>> \in Seq(Op) /\ Within(<<>>, Beyond(p, n)) /\ After(v, <<>>) \in Vol
    BY WithinEmpty, NoWrites
  <2>5. Freed(After(v, <<>>), Beyond(p, n))
    BY <2>3 DEF Freed
  <2>6. QED
    BY <2>2, <2>4, <2>5
<1>2. CASE n # L
  <2>0. n < L /\ n + 1 \in 1 .. L
    BY <1>0, <1>2
  <2>1. f[p[n]] = p[n + 1] /\ Link(f[p[n]])
    BY <1>0, <2>0, PathFacts
  <2> DEFINE tail == SubSeq(p, n + 1, L)
             a == FreeEach(tail)
  <2>2. /\ Path(f, tail) /\ Len(tail) = L - (n + 1) + 1
        /\ \A i \in 1 .. L - (n + 1) + 1 : tail[i] = p[n + 1 + i - 1]
    BY <1>0, <2>0, PathRest
  <2> HIDE DEF tail
  <2>3. Len(tail) = L - n /\ L - n \in Nat /\ L - n >= 1 /\ \A i \in 1 .. L - n : tail[i] = p[n + i]
    BY <1>0, <2>0, <2>2
  <2>4. tail[1] = p[n + 1]
    BY <2>3
  <2>5. Chain(f, f[p[n]]) = tail
    BY <2>1, <2>2, <2>4, ChainAlong
  <2>6. FreeChainFrom(f, f[p[n]]) = a
    BY <2>5 DEF FreeChainFrom, FreeEach
  <2>7. Shrunk(f, p[n]) = a \o SetFatEntry(p[n], Eoc)
    BY <2>1, <2>6 DEF Shrunk
  <2>8. Ran(tail) = Beyond(p, n)
    <3>1. ASSUME NEW i \in 1 .. L - n PROVE tail[i] \in Beyond(p, n)
      <4>1. n + i \in (n + 1) .. L
        BY <1>0
      <4>2. QED
        BY <1>0, <2>3, <4>1 DEF Beyond
    <3>2. ASSUME NEW i \in (n + 1) .. L PROVE p[i] \in Ran(tail)
      <4>1. i - n \in 1 .. L - n /\ n + (i - n) = i
        BY <1>0
      <4>2. tail[i - n] = p[i]
        BY <2>3, <4>1
      <4>3. QED
        BY <2>3, <4>1, <4>2 DEF Ran
    <3>3. QED
      BY <1>0, <2>3, <3>1, <3>2 DEF Ran, Beyond
  <2>9. tail \in Seq(Cluster)
    BY <2>2 DEF Path
  <2>10. /\ a \in Seq(Op) /\ Within(a, Ran(tail)) /\ After(v, a) \in Vol
         /\ \A i \in 1 .. Len(tail), k \in Copy : After(v, a).fat[k][tail[i]] = Free
    BY <2>9, FreeEachDoes
  <2> HIDE DEF a
  <2>11. Freed(After(v, a), Ran(tail))
    BY <2>10 DEF Freed, Ran
  <2>12. QED
    BY <2>7, <2>8, <2>10, <2>11
<1>3. QED
  BY <1>1, <1>2

(* Then end the chain. *)
LEMMA ShrinkDoes ==
  ASSUME NEW v, NEW D, NEW P, NEW at, NEW W, Ready(v, D, P, at, W), NEW x \in FileName,
         NEW p, p = P[x], Path(v.fat[1], p), NEW n \in 1 .. Len(p)
  PROVE  Sizing(v, [ops |-> Shrunk(v.fat[1], p[n]), first |-> p[1], fits |-> TRUE], D, P, x, n)
<1>0. v \in Vol /\ p \in Seq(Cluster) /\ Distinct(p) /\ p # <<>>
  BY DEF Ready, Path
<1>1. PICK L \in Nat : L = Len(p) /\ L >= 1 /\ n \in 1 .. L /\ n \in Nat /\ n >= 1
  BY PathFacts
<1>2. PICK a \in Seq(Op) :
           /\ Shrunk(v.fat[1], p[n]) = a \o SetFatEntry(p[n], Eoc)
           /\ Within(a, Beyond(p, n)) /\ After(v, a) \in Vol /\ Freed(After(v, a), Beyond(p, n))
  BY <1>0, TailFreed
<1>3. \A i \in 1 .. L : p[i] \in Cluster /\ p[i] \in Ran(p)
  BY <1>0, <1>1, RanFacts
<1>4. Ran(p) \subseteq Rest(D, P, x) /\ Ran(p) \subseteq Cluster
  BY <1>0, RestFacts, RanFacts
<1>5. Beyond(p, n) \subseteq Ran(p)
  BY <1>1, <1>3 DEF Beyond
<1>6. \A i \in 1 .. n : i \in 1 .. L /\ p[i] \notin Beyond(p, n)
  <2> SUFFICES ASSUME NEW i \in 1 .. n, p[i] \in Beyond(p, n) PROVE FALSE
    BY <1>1
  <2>1. PICK j \in (n + 1) .. L : p[i] = p[j]
    BY <1>1 DEF Beyond
  <2>2. i \in 1 .. L /\ j \in 1 .. L /\ i # j
    BY <1>1
  <2>3. QED
    BY <1>0, <1>1, <2>1, <2>2 DEF Distinct
<1> DEFINE u == After(v, a)
           l == SetFatEntry(p[n], Eoc)
           t == After(u, l)
           ops == a \o l
           Q == SubSeq(p, 1, n)
<1>7. Agree(u, v, Beyond(p, n))
  BY <1>0, <1>2, Frame
<1>8. l \in Seq(Op) /\ Within(l, {p[n]}) /\ t \in Vol /\ Put(t, u, p[n], Eoc)
  <2>1. p[n] \in Cluster /\ Eoc \in FatValue /\ u \in Vol
    BY <1>1, <1>2, <1>3 DEF FatValue
  <2> HIDE DEF u
  <2>2. QED
    BY <2>1, SetEntry
<1>9. ops \in Seq(Op) /\ Within(ops, Ran(p)) /\ After(v, ops) = t
  <2>1. {p[n]} \subseteq Ran(p)
    BY <1>1, <1>3
  <2>2. Within(a, Ran(p))
    BY <1>2, <1>5, WithinMore
  <2> HIDE DEF l
  <2>3. Within(l, Ran(p))
    BY <1>8, <2>1, WithinMore
  <2>4. QED
    BY <1>0, <1>2, <1>8, <2>2, <2>3, WithinJoin, AfterJoin
<1> HIDE DEF l, t, u, ops
<1>10. Agree(t, v, Ran(p))
  BY <1>0, <1>9, Frame
<1>11. Within(ops, Rest(D, P, x))
  BY <1>4, <1>9, WithinMore
<1>12. /\ Q \in Seq(Cluster) /\ Len(Q) = n /\ \A i \in 1 .. n : Q[i] = p[i]
  <2>1. /\ Q \in Seq(Cluster) /\ Len(Q) = (IF 1 <= n THEN n - 1 + 1 ELSE 0)
        /\ \A i \in 1 .. n - 1 + 1 : Q[i] = p[1 + i - 1]
    BY <1>3, <1>6, SubSeqProperties
  <2>2. QED
    BY <1>1, <2>1
<1> HIDE DEF Q
<1>13. \A k \in Copy, d \in Cluster : t.fat[k][d] = IF d = p[n] THEN Eoc ELSE u.fat[k][d]
  BY <1>8 DEF Put
<1>14. 1 \in Copy
  BY Sizes32
<1>15. ASSUME NEW i \in 1 .. n, NEW k \in Copy
       PROVE  t.fat[k][p[i]] = IF i = n THEN Eoc ELSE v.fat[k][p[i]]
  <2>1. i \in 1 .. L /\ p[i] \in Cluster /\ p[i] \notin Beyond(p, n)
    BY <1>3, <1>6
  <2>2. u.fat[k][p[i]] = v.fat[k][p[i]]
    BY <1>7, <2>1 DEF Agree
  <2>3. i # n => p[i] # p[n]
    BY <1>0, <1>1, <2>1 DEF Distinct
  <2>4. QED
    BY <1>13, <2>1, <2>2, <2>3
<1>16. Path(t.fat[1], Q)
  <2>1. Q # <<>>
    BY <1>1, <1>12, EmptySeq
  <2>2. Distinct(Q)
    BY <1>0, <1>1, <1>6, <1>12 DEF Distinct
  <2>3. ASSUME NEW i \in 1 .. n PROVE t.fat[1][Q[i]] = IF i = n THEN Eoc ELSE Q[i + 1]
    <3>1. CASE i = n
      BY <1>12, <1>14, <1>15, <3>1
    <3>2. CASE i # n
      <4>1. i \in 1 .. L /\ i + 1 \in 1 .. n /\ i < L
        BY <1>1, <3>2
      <4>2. v.fat[1][p[i]] = p[i + 1]
        BY <1>1, <4>1, PathFacts
      <4>3. QED
        BY <1>12, <1>14, <1>15, <3>2, <4>1, <4>2
    <3>3. QED
      BY <3>1, <3>2
  <2>4. QED
    BY <1>12, <2>1, <2>2, <2>3 DEF Path
<1>17. Ran(Q) \subseteq Ran(p) /\ \A i \in 1 .. n : p[i] \in Ran(Q)
  BY <1>3, <1>6, <1>12 DEF Ran
<1>18. ASSUME NEW c \in Ran(p)
       PROVE  /\ \A k \in Copy : t.fat[k][c] = t.fat[1][c]
              /\ t.fat[1][c] # Free => c \in Ran(Q)
  <2>1. PICK i \in 1 .. L : c = p[i] /\ c \in Cluster
    BY <1>1, <1>3 DEF Ran
  <2>2. CASE i \in 1 .. n
    <3>1. \A k \in Copy : v.fat[k] = v.fat[1]
      BY DEF Ready, Full
    <3>2. \A k \in Copy : t.fat[k][c] = t.fat[1][c]
      BY <1>14, <1>15, <2>1, <2>2, <3>1
    <3>3. QED
      BY <1>17, <2>1, <2>2, <3>2
  <2>3. CASE i \notin 1 .. n
    <3>1. i \in (n + 1) .. L
      BY <1>1, <2>3
    <3>2. c \in Beyond(p, n)
      BY <1>1, <2>1, <3>1 DEF Beyond
    <3>3. c # p[n]
      BY <1>1, <1>6, <3>2
    <3>4. \A k \in Copy : t.fat[k][c] = Free
      BY <1>2, <1>13, <2>1, <3>2, <3>3 DEF Freed, u
    <3>5. QED
      BY <1>14, <3>4
  <2>4. QED
    BY <2>2, <2>3
<1>19. Sized(t, D, P, x, Q, Len(Q))
  <2>1. PICK C \in SUBSET Rest(D, P, x) : C = Ran(p)
    BY <1>4
  <2>2. Agree(t, v, C) /\ t \in Vol /\ Ran(Q) \subseteq Rest(D, P, x)
    BY <1>4, <1>8, <1>10, <1>17, <2>1
  <2>3. \A c \in C, k \in Copy : t.fat[k][c] = t.fat[1][c]
    BY <1>18, <2>1
  <2>4. \A c \in C \cup Ran(P[x]) : t.fat[1][c] # Free => c \in Ran(Q)
    BY <1>18, <2>1
  <2>5. QED
    BY <1>16, <2>2, <2>3, <2>4, SizedFrom
<1>20. Q[1] = p[1] /\ Sized(t, D, P, x, Q, n)
  BY <1>1, <1>12, <1>19
<1>21. PICK s : s = [ops |-> Shrunk(v.fat[1], p[n]), first |-> p[1], fits |-> TRUE]
  OBVIOUS
<1>22. s.ops = ops /\ s.first = p[1] /\ s.fits = TRUE
  BY <1>2, <1>21 DEF ops, l
<1>23. Sizing(v, s, D, P, x, n)
  BY <1>9, <1>11, <1>20, <1>22 DEF Sizing
<1>24. QED
  BY <1>21, <1>23

(* resize_chain, either way: a chain of exactly the clusters needed, or no *)
(* space.                                                                  *)
LEMMA ResizeDoes ==
  ASSUME NEW v, NEW D, NEW P, NEW at, NEW W, Ready(v, D, P, at, W), NEW x \in FileName,
         NEW p, p = P[x], Path(v.fat[1], p), NEW needed \in Nat, needed >= 1
  PROVE  Sizing(v, ResizeChain(v.fat[1], p[1], needed), D, P, x, needed)
<1> DEFINE f == v.fat[1]
           w == Walk(f, p[1], needed)
           Some == {i \in DOMAIN w : w[i] # 0}
           None == {i \in DOMAIN w : w[i] = 0}
           room == FreeClusters(f)
<1>0. PICK L \in Nat : L = Len(p) /\ L >= 1 /\ \A i \in 1 .. L : p[i] # 0
  BY PathFacts
<1>1. w = [i \in 1 .. needed |-> IF i <= Len(p) THEN p[i] ELSE 0]
  BY WalkAlong
<1>2. ResizeChain(f, p[1], needed) = Resized(f, w, w[Max(Some)], Cardinality(None), room)
  BY DEF ResizeChain, ResizeAlong
<1> HIDE DEF w, room, f
<1>3. DOMAIN w = 1 .. needed /\ \A i \in 1 .. needed : w[i] = IF i <= L THEN p[i] ELSE 0
  BY <1>0, <1>1
<1>4. w[1] = p[1]
  BY <1>0, <1>3
<1>5. CASE needed <= L
  <2>1. \A i \in 1 .. needed : w[i] = p[i] /\ w[i] # 0
    BY <1>0, <1>3, <1>5
  <2>2. Some = 1 .. needed /\ None = {}
    BY <1>3, <2>1
  <2> HIDE DEF Some, None
  <2>3. Max(Some) = needed
    <3>1. Some \subseteq Int /\ needed \in Some /\ \A y \in Some : y <= needed
      BY <2>2
    <3>2. QED
      BY <3>1, MaxIs
  <2>4. Cardinality(None) = 0
    BY <2>2, FS_EmptySet
  <2>5. w[Max(Some)] = p[needed]
    BY <2>1, <2>3
  <2>6. ResizeChain(f, p[1], needed) = [ops |-> Shrunk(f, p[needed]), first |-> p[1], fits |-> TRUE]
    BY <1>2, <1>4, <2>4, <2>5 DEF Resized
  <2>7. needed \in 1 .. Len(p)
    BY <1>0, <1>5
  <2>8. Sizing(v, [ops |-> Shrunk(f, p[needed]), first |-> p[1], fits |-> TRUE], D, P, x, needed)
    BY <2>7, ShrinkDoes DEF f
  <2>9. QED
    BY <2>6, <2>8 DEF f
<1>6. CASE ~(needed <= L)
  <2>0. PICK m \in Nat : m = needed - L /\ m >= 1 /\ L + m = needed
    <3>1. needed - L \in Nat /\ needed - L >= 1 /\ L + (needed - L) = needed
      BY <1>0, <1>6
    <3>2. QED
      BY <3>1
  <2>1. \A i \in 1 .. needed : IF i <= L THEN w[i] = p[i] /\ w[i] # 0 ELSE w[i] = 0
    BY <1>0, <1>3, <1>6
  <2>2. Some = 1 .. L /\ None = (L + 1) .. needed
    <3>1. ASSUME NEW i \in 1 .. L PROVE i \in Some
      <4>1. i \in 1 .. needed /\ i <= L
        BY <1>6
      <4>2. QED
        BY <1>3, <2>1, <4>1
    <3>2. ASSUME NEW i \in (L + 1) .. needed PROVE i \in None
      <4>1. i \in 1 .. needed /\ ~(i <= L)
        OBVIOUS
      <4>2. QED
        BY <1>3, <2>1, <4>1
    <3>3. ASSUME NEW i \in Some PROVE i \in 1 .. L
      BY <1>3, <2>1
    <3>4. ASSUME NEW i \in None PROVE i \in (L + 1) .. needed
      BY <1>3, <2>1
    <3> HIDE DEF Some, None
    <3>5. QED
      BY <3>1, <3>2, <3>3, <3>4
  <2> HIDE DEF Some, None
  <2>3. Max(Some) = L
    <3>1. Some \subseteq Int /\ L \in Some /\ \A y \in Some : y <= L
      BY <1>0, <2>2
    <3>2. QED
      BY <3>1, MaxIs
  <2>4. Cardinality(None) = m
    <3>1. Cardinality((L + 1) .. needed) = IF L + 1 > needed THEN 0 ELSE needed - (L + 1) + 1
      BY FS_Interval
    <3>2. QED
      BY <2>0, <2>2, <3>1
  <2>5. w[Max(Some)] = p[L]
    BY <1>0, <1>3, <1>6, <2>3
  <2>6. ResizeChain(f, p[1], needed) =
          [ops |-> Grown(p[L], Taken(room, m), m), first |-> p[1], fits |-> Len(room) >= m]
    BY <1>2, <1>4, <2>0, <2>4, <2>5 DEF Resized
  <2>7. Sizing(v, [ops |-> Grown(p[Len(p)], Taken(room, m), m), first |-> p[1],
                   fits |-> Len(room) >= m], D, P, x, Len(p) + m)
    BY <2>0, GrowDoes DEF room, f
  <2>8. QED
    BY <1>0, <2>0, <2>6, <2>7 DEF f
<1>7. QED
  BY <1>5, <1>6

FirstOf(p) == IF p = <<>> THEN 0 ELSE p[1]

(* The chain of x, found or new, is sized. *)
LEMMA SizingDoes ==
  ASSUME NEW v, NEW D, NEW P, NEW at, NEW W, Ready(v, D, P, at, W), NEW x \in FileName,
         NEW needed \in Nat, needed >= 1, NEW first, first = FirstOf(P[x])
  PROVE  Sizing(v, IF first # 0 THEN ResizeChain(v.fat[1], first, needed) ELSE NewChain(v.fat[1], needed),
                D, P, x, needed)
<1>1. CASE P[x] = <<>>
  <2>1. first = 0
    BY <1>1 DEF FirstOf
  <2>2. Sizing(v, NewChain(v.fat[1], needed), D, P, x, needed)
    BY <1>1, NewChainDoes
  <2>3. QED
    BY <2>1, <2>2
<1>2. CASE P[x] # <<>>
  <2>1. PICK p : p = P[x]
    OBVIOUS
  <2>2. Path(v.fat[1], p)
    BY <1>2, <2>1 DEF Ready, Laid, FileLaid
  <2>3. first = p[1] /\ first # 0
    BY <1>2, <2>1, <2>2, PathFacts DEF FirstOf
  <2>4. Sizing(v, ResizeChain(v.fat[1], p[1], needed), D, P, x, needed)
    BY <2>1, <2>2, ResizeDoes
  <2>5. QED
    BY <2>3, <2>4
<1>3. QED
  BY <1>1, <1>2

-----------------------------------------------------------------------------
Filed(b, Q, x, size, z) == \A k \in 1 .. size : b[Q[k]] = FileData(x, z, k)

(* The data goes through the sized chain. *)
LEMMA FillDoes ==
  ASSUME NEW u, NEW D, NEW P, NEW x \in FileName, NEW Q, NEW n, Sized(u, D, P, x, Q, n),
         NEW size \in Nat, size <= n, NEW z \in 1 .. MaxWrites,
         NEW ops, ops = DataWrites(Walk(u.fat[1], Q[1], size), x, z)
  PROVE  /\ ops \in Seq(Op) /\ Within(ops, Rest(D, P, x))
         /\ Sized(After(u, ops), D, P, x, Q, n) /\ Filed(After(u, ops).block, Q, x, size, z)
<1>0. u \in Vol /\ Path(u.fat[1], Q) /\ Len(Q) = n /\ Ran(Q) \subseteq Rest(D, P, x)
  BY DEF Sized
<1>1. Q \in Seq(Cluster) /\ Distinct(Q)
  BY <1>0 DEF Path
<1>2. n \in Nat /\ \A i \in 1 .. n : Q[i] \in Cluster /\ Q[i] \in Ran(Q)
  BY <1>0, <1>1, RanFacts
<1> DEFINE w == Walk(u.fat[1], Q[1], size)
<1>3. w = [i \in 1 .. size |-> IF i <= Len(Q) THEN Q[i] ELSE 0]
  BY <1>0, WalkAlong
<1> HIDE DEF w
<1>4. w \in [1 .. size -> Cluster] /\ \A i \in 1 .. size : w[i] = Q[i] /\ i \in 1 .. n
  BY <1>0, <1>2, <1>3
<1>5. w \in Seq(Cluster) /\ Len(w) = size
  BY <1>4, ArrayIsSeq
<1>6. Distinct(w)
  BY <1>0, <1>1, <1>4, <1>5 DEF Distinct
<1>7. Ran(w) \subseteq Ran(Q)
  BY <1>2, <1>4, <1>5 DEF Ran
<1>8. ops = DataWrites(w, x, z)
  BY DEF w
<1>9. /\ ops \in Seq(Op) /\ Within(ops, Ran(w)) /\ After(u, ops) \in Vol /\ After(u, ops).fat = u.fat
      /\ \A i \in 1 .. size : After(u, ops).block[w[i]] = FileData(x, z, i)
  <2>1. u \in Vol /\ w \in Seq(Cluster) /\ Distinct(w) /\ Len(w) = size
    BY <1>0, <1>5, <1>6
  <2>2. QED
    BY <1>8, <2>1, DataWritesDo
<1>10. Within(ops, Rest(D, P, x))
  BY <1>0, <1>7, <1>9, WithinMore
<1>11. Sized(After(u, ops), D, P, x, Q, n)
  BY <1>9 DEF Sized
<1>12. Filed(After(u, ops).block, Q, x, size, z)
  BY <1>4, <1>9 DEF Filed
<1>13. QED
  BY <1>9, <1>10, <1>11, <1>12

(* The t-th slot of the directory can take the entry of x. *)
Opening(b, D, x, t) ==
  /\ t \in Slots(D)
  /\ EntryAt(D, b, t) \in Marks \/ EntryAt(D, b, t).name = x
  /\ \A n \in Slots(D) : EntryAt(D, b, n) \notin Marks /\ EntryAt(D, b, n).name = x => n = t
  /\ \A n \in Slots(D) : n < t => EntryAt(D, b, n) # End

(* A slot stays open while the directory's clusters are not written. *)
LEMMA OpeningFrame ==
  ASSUME NEW f, NEW b, NEW D, DirLaid(f, b, D), NEW x, NEW t, Opening(b, D, x, t),
         NEW e, \A c \in Ran(D) : e[c] = b[c]
  PROVE  Opening(e, D, x, t)
<1>1. \A n \in Slots(D) : EntryAt(D, e, n) = EntryAt(D, b, n)
  BY EntryFrame
<1>2. QED
  BY <1>1 DEF Opening

DirWrite(D, t, e) == [op |-> "dir", cluster |-> D[Nth(t)], slot |-> Sth(t), value |-> e]

(* The write of a directory entry changes that entry alone. *)
LEMMA EntryPut ==
  ASSUME NEW r \in Vol, NEW D, DirLaid(r.fat[1], r.block, D), NEW t \in Slots(D), NEW e \in FileEntry
  PROVE  /\ DirWrite(D, t, e) \in Op
         /\ Wrote(r, DirWrite(D, t, e)) \in Vol /\ Wrote(r, DirWrite(D, t, e)).fat = r.fat
         /\ \A n \in Slots(D) : EntryAt(D, Wrote(r, DirWrite(D, t, e)).block, n) =
                                  IF n = t THEN e ELSE EntryAt(D, r.block, n)
         /\ \A i \in 1 .. Len(D) : Wrote(r, DirWrite(D, t, e)).block[D[i]] \in DirBlock
         /\ \A c \in Cluster \ Ran(D) : Wrote(r, DirWrite(D, t, e)).block[c] = r.block[c]
<1> DEFINE w == DirWrite(D, t, e)
           q == Wrote(r, w)
           c0 == D[Nth(t)]
           b == r.block
<1>0. /\ \A n \in Slots(D) : /\ n \in Nat /\ n >= 1 /\ Nth(n) \in 1 .. Len(D) /\ Sth(n) \in 1 .. DirSlots
                             /\ D[Nth(n)] \in Cluster /\ D[Nth(n)] \in Ran(D)
      /\ Len(D) \in Nat
  BY DirFacts
<1>1. Path(r.fat[1], D) /\ \A i \in 1 .. Len(D) : b[D[i]] \in DirBlock
  BY DEF DirLaid
<1>2. Distinct(D) /\ D \in Seq(Cluster)
  BY <1>1 DEF Path
<1>3. w \in DirOp /\ w.op = "dir" /\ w.cluster = c0 /\ w.slot = Sth(t) /\ w.value = e
  BY <1>0 DEF DirWrite, DirOp
<1>4. w \in Op
  BY <1>3 DEF Op
<1>5. q \in Vol
  BY <1>4, WroteType
<1>6. q.fat = r.fat /\ q.block = [b EXCEPT ![c0] = [b[c0] EXCEPT !.dir[Sth(t)] = e]]
  BY <1>3 DEF Wrote, FatWrote, BlockWrote
<1>7. b \in [Cluster -> Block] /\ c0 \in Cluster /\ b[c0] \in DirBlock /\ c0 \in Ran(D)
  BY <1>0, <1>1 DEF Vol
<1> HIDE DEF w, q, b
<1>8. PICK d : d = [b[c0] EXCEPT !.dir[Sth(t)] = e]
  OBVIOUS
<1>9. /\ d \in DirBlock /\ d.dir[Sth(t)] = e
      /\ \A s \in 1 .. DirSlots : s # Sth(t) => d.dir[s] = b[c0].dir[s]
  BY <1>0, <1>7, <1>8 DEF DirBlock
<1>10. \A c \in Cluster : q.block[c] = IF c = c0 THEN d ELSE b[c]
  BY <1>6, <1>7, <1>8
<1> HIDE DEF c0
<1>11. ASSUME NEW n \in Slots(D) PROVE EntryAt(D, q.block, n) = IF n = t THEN e ELSE EntryAt(D, b, n)
  <2>1. D[Nth(n)] \in Cluster /\ Sth(n) \in 1 .. DirSlots
    BY <1>0
  <2>2. CASE n = t
    BY <1>9, <1>10, <2>1, <2>2 DEF EntryAt, c0
  <2>3. CASE n # t
    <3>1. CASE D[Nth(n)] = c0
      <4>1. Nth(n) = Nth(t)
        BY <1>0, <1>2, <3>1 DEF Distinct, c0
      <4>2. Sth(n) # Sth(t)
        BY <1>0, <2>3, <4>1, PlaceOnce
      <4>3. QED
        BY <1>9, <1>10, <2>1, <2>3, <3>1, <4>2 DEF EntryAt
    <3>2. CASE D[Nth(n)] # c0
      BY <1>10, <2>1, <2>3, <3>2 DEF EntryAt
    <3>3. QED
      BY <3>1, <3>2
  <2>4. QED
    BY <2>2, <2>3
<1>12. ASSUME NEW i \in 1 .. Len(D) PROVE q.block[D[i]] \in DirBlock
  <2>1. D[i] \in Cluster
    BY <1>2, RanFacts
  <2>2. QED
    BY <1>1, <1>9, <1>10, <2>1
<1>13. \A c \in Cluster \ Ran(D) : q.block[c] = b[c]
  BY <1>7, <1>10
<1>14. QED
  BY <1>4, <1>5, <1>6, <1>11, <1>12, <1>13 DEF q, b, w

(* The last write, of the directory entry, leaves the volume laid out with *)
(* x as written.                                                           *)
LEMMA ClosingDoes ==
  ASSUME NEW r, NEW D, NEW P, NEW at, NEW W \in History, NEW x \in FileName, Maps(P, at),
         Laid(r, D, P, at, W, FileName \ {x}),
         NEW Q, NEW size \in Nat, Sized(r, D, P, x, Q, Max({1, size})),
         NEW z \in 1 .. MaxWrites, Filed(r.block, Q, x, size, z),
         NEW t, Opening(r.block, D, x, t),
         NEW e, e = [name |-> x, first |-> Q[1], size |-> size]
  PROVE  /\ DirWrite(D, t, e) \in Op
         /\ Ready(Wrote(r, DirWrite(D, t, e)), D, [P EXCEPT ![x] = Q], [at EXCEPT ![x] = t],
                  [W EXCEPT ![x] = [size |-> size, version |-> z]])
<1> DEFINE N == FileName \ {x}
           w == DirWrite(D, t, e)
           q == Wrote(r, w)
           f == r.fat[1]
           b == r.block
           P2 == [P EXCEPT ![x] = Q]
           at2 == [at EXCEPT ![x] = t]
           W2 == [W EXCEPT ![x] = [size |-> size, version |-> z]]
<1>0. /\ r \in Vol /\ Path(f, Q) /\ Len(Q) = Max({1, size}) /\ Ran(Q) \subseteq Rest(D, P, x)
      /\ \A k \in Copy : r.fat[k] = r.fat[1]
      /\ \A c \in Rest(D, P, x) : f[c] # Free => c \in Ran(Q)
  BY DEF Sized
<1>1. DirLaid(f, b, D) /\ Named(b, D, at, N) /\ Apart(D, P, N) /\ \A y \in N : FileLaid(f, b, D, P[y], at[y], y, W[y])
  BY DEF Laid
<1>2. Q \in Seq(Cluster) /\ Q[1] \in Cluster
  <2>1. Q \in Seq(Cluster)
    BY <1>0 DEF Path
  <2>2. QED
    BY <1>0, <2>1, PathFacts
<1>3. e \in FileEntry
  BY <1>2 DEF FileEntry
<1>4. e \notin Marks /\ e.name = x /\ e # End
  BY <1>3, NotMark DEF Marks
<1>5. t \in Slots(D)
  BY DEF Opening
<1>6. /\ w \in Op /\ q \in Vol /\ q.fat = r.fat
      /\ \A n \in Slots(D) : EntryAt(D, q.block, n) = IF n = t THEN e ELSE EntryAt(D, b, n)
      /\ \A i \in 1 .. Len(D) : q.block[D[i]] \in DirBlock
      /\ \A c \in Cluster \ Ran(D) : q.block[c] = b[c]
  BY <1>0, <1>1, <1>3, <1>5, EntryPut
<1>7. /\ P2[x] = Q /\ at2[x] = t /\ W2[x] = [size |-> size, version |-> z]
      /\ \A y \in N : P2[y] = P[y] /\ at2[y] = at[y] /\ W2[y] = W[y]
  BY DEF Maps, History
<1>8. Maps(P2, at2) /\ W2 \in History
  <2>1. t \in Nat
    BY <1>1, <1>5, DirFacts
  <2>2. [size |-> size, version |-> z] \in [size : Nat, version : 0 .. MaxWrites]
    BY Sizes32
  <2>3. QED
    BY <1>2, <2>1, <2>2 DEF Maps, History
<1>9. FileName = N \cup {x} /\ N \subseteq FileName
  OBVIOUS
<1>a. x \notin N
  OBVIOUS
<1> HIDE DEF w, q, P2, at2, W2, N
<1>10. DirLaid(q.fat[1], q.block, D)
  <2>1. Path(q.fat[1], D) /\ D[1] = Root
    BY <1>1, <1>6 DEF DirLaid
  <2>2. ASSUME NEW m \in Slots(D), NEW n \in Slots(D), m < n, EntryAt(D, q.block, m) = End
        PROVE  EntryAt(D, q.block, n) \in Marks
    <3>1. m # t /\ EntryAt(D, b, m) = End
      BY <1>4, <1>6, <2>2
    <3>2. EntryAt(D, b, n) \in Marks
      BY <1>1, <2>2, <3>1 DEF DirLaid
    <3>3. n # t
      BY <2>2, <3>1 DEF Opening
    <3>4. QED
      BY <1>6, <3>2, <3>3
  <2>3. QED
    BY <1>6, <2>1, <2>2 DEF DirLaid
<1>11. Named(q.block, D, at2, FileName)
  <2> SUFFICES ASSUME NEW n \in Slots(D), EntryAt(D, q.block, n) \notin Marks,
                      EntryAt(D, q.block, n).name \in FileName
               PROVE  at2[EntryAt(D, q.block, n).name] = n
    BY DEF Named
  <2>1. CASE n = t
    BY <1>4, <1>5, <1>6, <1>7, <2>1
  <2>2. CASE n # t
    <3>1. PICK y \in FileName : y = EntryAt(D, b, n).name /\ EntryAt(D, q.block, n) = EntryAt(D, b, n)
      BY <1>6, <2>2
    <3>2. y # x
      BY <2>2, <3>1 DEF Opening
    <3>3. y \in N
      BY <1>9, <3>2
    <3>4. at[y] = n
      BY <1>1, <3>1, <3>3 DEF Named
    <3>5. QED
      BY <1>7, <3>1, <3>3, <3>4
  <2>3. QED
    BY <2>1, <2>2
<1>12. \A c \in Ran(Q) : c \in Cluster /\ c \notin Ran(D) /\ \A y \in N : c \notin Ran(P[y])
  BY <1>0 DEF Rest, Used, N
<1>13. ASSUME NEW y \in N PROVE FileLaid(q.fat[1], q.block, D, P2[y], at2[y], y, W2[y])
  <2>1. PICK p, a, v : p = P[y] /\ a = at[y] /\ v = W[y] /\ v.size \in Nat
    BY <1>9 DEF History
  <2>2. FileLaid(f, b, D, p, a, y, v)
    BY <1>1, <2>1
  <2>3. \A c \in Ran(p) : q.fat[1][c] = f[c] /\ q.block[c] = b[c]
    <3>1. p \in Seq(Cluster)
      BY <1>9, <2>1 DEF Maps
    <3>2. Ran(p) \subseteq Cluster /\ Ran(p) \cap Ran(D) = {}
      BY <1>1, <2>1, <3>1, RanFacts DEF Apart
    <3>3. QED
      BY <1>6, <3>2
  <2>4. a \in Slots(D) => EntryAt(D, q.block, a) = EntryAt(D, b, a)
    <3>1. SUFFICES ASSUME a \in Slots(D), a = t PROVE FALSE
      BY <1>6
    <3>2. a # 0
      BY <1>1, <3>1, DirFacts
    <3>3. EntryAt(D, b, a) = [name |-> y, first |-> p[1], size |-> v.size] /\ Path(f, p)
      BY <2>2, <3>2 DEF FileLaid
    <3>4. p[1] # 0
      BY <3>3, PathFacts
    <3>5. EntryAt(D, b, a) \notin Marks /\ EntryAt(D, b, a).name = y
      BY <3>3, <3>4 DEF Marks, End, Deleted, Skipped, Mark
    <3>6. y # x
      BY <1>a
    <3>7. QED
      BY <3>1, <3>5, <3>6 DEF Opening
  <2>5. FileLaid(q.fat[1], q.block, D, p, a, y, v)
    BY <1>1, <2>1, <2>2, <2>3, <2>4, FileFrame
  <2>6. QED
    BY <1>7, <2>1, <2>5
<1>14. FileLaid(q.fat[1], q.block, D, P2[x], at2[x], x, W2[x])
  <2>1. W2[x].size = size /\ W2[x].version = z
    BY <1>7
  <2>2. EntryAt(D, q.block, t) = [name |-> x, first |-> Q[1], size |-> size] /\ Path(q.fat[1], Q)
    BY <1>0, <1>5, <1>6
  <2>3. \A k \in 1 .. size : Q[k] \in Ran(Q)
    <3>1. size <= Len(Q) /\ Len(Q) \in Nat
      BY <1>0, MaxOne
    <3>2. QED
      BY <3>1 DEF Ran
  <2>4. \A k \in 1 .. size : q.block[Q[k]] = FileData(x, z, k)
    BY <1>6, <1>12, <2>3 DEF Filed
  <2>5. QED
    BY <1>0, <1>5, <1>7, <2>1, <2>2, <2>4 DEF FileLaid
<1>15. Apart(D, P2, FileName)
  <2>1. ASSUME NEW y \in FileName PROVE Ran(P2[y]) \cap Ran(D) = {}
    BY <1>1, <1>7, <1>9, <1>12 DEF Apart
  <2>2. ASSUME NEW y \in FileName, NEW j \in FileName, y # j PROVE Ran(P2[y]) \cap Ran(P2[j]) = {}
    <3>1. CASE y \in N /\ j \in N
      BY <1>1, <1>7, <2>2, <3>1 DEF Apart
    <3>2. CASE y = x
      BY <1>7, <1>9, <1>12, <2>2, <3>2
    <3>3. CASE j = x
      BY <1>7, <1>9, <1>12, <2>2, <3>3
    <3>4. QED
      BY <1>9, <3>1, <3>2, <3>3
  <2>3. QED
    BY <2>1, <2>2 DEF Apart
<1>16. Laid(q, D, P2, at2, W2, FileName)
  BY <1>9, <1>10, <1>11, <1>13, <1>14, <1>15 DEF Laid
<1>17. Full(q, D, P2)
  <2>1. ASSUME NEW c \in Cluster, q.fat[1][c] # Free PROVE c \in Used(D, P2, FileName)
    <3>1. CASE c \in Rest(D, P, x)
      BY <1>0, <1>6, <1>7, <2>1, <3>1 DEF Used
    <3>2. CASE c \notin Rest(D, P, x)
      <4>1. c \in Used(D, P, N)
        BY <3>2 DEF Rest, N
      <4>2. QED
        BY <1>7, <1>9, <4>1 DEF Used
    <3>3. QED
      BY <3>1, <3>2
  <2>2. QED
    BY <1>0, <1>6, <2>1 DEF Full
<1>18. QED
  BY <1>6, <1>8, <1>16, <1>17 DEF Ready, w, q, P2, at2, W2

-----------------------------------------------------------------------------
(* The entries of a directory with one more cluster. *)
Longer(E, D, c) ==
  /\ E \in Seq(Cluster) /\ Len(E) = Len(D) + 1 /\ E[Len(D) + 1] = c
  /\ \A i \in 1 .. Len(D) : E[i] = D[i]

(* A directory with one more cluster. *)
LEMMA OneMore ==
  ASSUME NEW D \in Seq(Cluster), NEW c \in Cluster
  PROVE  Longer(D \o <<c>>, D, c)
<1> DEFINE o == <<c>>
           E == D \o o
<1>0. PICK L \in Nat : L = Len(D)
  BY LenProperties
<1>1. o \in Seq(Cluster) /\ Len(o) = 1 /\ o[1] = c
  OBVIOUS
<1> HIDE DEF o
<1>2. /\ E \in Seq(Cluster) /\ Len(E) = L + 1
      /\ \A i \in 1 .. L + 1 : E[i] = IF i <= L THEN D[i] ELSE o[i - L]
  <2>1. /\ E \in Seq(Cluster) /\ Len(E) = Len(D) + Len(o)
        /\ \A i \in 1 .. Len(D) + Len(o) : E[i] = IF i <= Len(D) THEN D[i] ELSE o[i - Len(D)]
    BY <1>1, ConcatProperties
  <2> HIDE DEF E
  <2>2. QED
    BY <1>0, <1>1, <2>1
<1> HIDE DEF E
<1>3. L + 1 \in 1 .. L + 1 /\ ~(L + 1 <= L) /\ (L + 1) - L = 1
  OBVIOUS
<1>4. Longer(E, D, c)
  BY <1>0, <1>1, <1>2, <1>3 DEF Longer
<1>5. QED
  BY <1>4 DEF E, o

Widened(E, D, b, c) ==
  /\ Longer(E, D, c)
  /\ Slots(D) \subseteq Slots(E)
  /\ \A n \in Slots(D) : EntryAt(E, b, n) = EntryAt(D, b, n)
  /\ \A n \in Slots(E) \ Slots(D) : EntryAt(E, b, n) = End
  /\ \A m \in Slots(D), n \in Slots(E) \ Slots(D) : m < n

(* Its entries: those it had, then End. *)
LEMMA MoreEntries ==
  ASSUME NEW f, NEW b, NEW D, DirLaid(f, b, D), NEW c \in Cluster, b[c] = Zeroed,
         NEW E, Longer(E, D, c)
  PROVE  /\ Widened(E, D, b, c)
         /\ Len(D) * DirSlots + 1 \in Slots(E) \ Slots(D)
         /\ Nth(Len(D) * DirSlots + 1) = Len(D) + 1 /\ Sth(Len(D) * DirSlots + 1) = 1
<1>0. PICK L \in Nat, s \in Nat : L = Len(D) /\ s = DirSlots /\ s >= 1 /\ D \in Seq(Cluster)
  <2>1. Path(f, D)
    BY DEF DirLaid
  <2>2. QED
    BY <2>1, PathFacts, Sizes32 DEF Path
<1>1. /\ E \in Seq(Cluster) /\ Len(E) = L + 1 /\ E[L + 1] = c
      /\ \A i \in 1 .. L : E[i] = D[i]
  BY <1>0 DEF Longer
<1>2. PICK M \in Nat : /\ M = L * DirSlots /\ (L + 1) * DirSlots = M + s
                       /\ \A n \in (M + 1) .. (M + s) : Nth(n) = L + 1
                       /\ Nth(M + 1) = L + 1 /\ Sth(M + 1) = 1
  BY <1>0, NextPlaces
<1>3. Slots(D) = 1 .. M /\ Slots(E) = 1 .. M + s
  BY <1>0, <1>1, <1>2 DEF Slots
<1>4. ASSUME NEW n \in 1 .. M PROVE EntryAt(E, b, n) = EntryAt(D, b, n)
  <2>1. Nth(n) \in 1 .. L
    BY <1>0, <1>3, DirFacts
  <2>2. QED
    BY <1>1, <2>1 DEF EntryAt
<1>5. ASSUME NEW n \in (M + 1) .. (M + s) PROVE EntryAt(E, b, n) = End
  <2>1. n \in 1 .. (L + 1) * DirSlots /\ L + 1 \in Nat
    BY <1>2
  <2>2. Sth(n) \in 1 .. DirSlots
    BY <2>1, Places
  <2>3. E[Nth(n)] = c
    BY <1>1, <1>2
  <2>4. QED
    BY <2>2, <2>3, ZeroedBlock DEF EntryAt
<1>6. \A n \in Slots(E) \ Slots(D) : n \in (M + 1) .. (M + s)
  BY <1>3
<1>7. QED
  BY <1>0, <1>1, <1>2, <1>3, <1>4, <1>5, <1>6 DEF Widened

NoEnd(b, D) == \A n \in Slots(D) : EntryAt(D, b, n) # End

(* The first FAT of u with x as the entry of cluster c. *)
Linked(t, u, c, x) ==
  t.block = u.block /\ t.fat[1][c] = x /\ \A d \in Cluster \ {c} : t.fat[1][d] = u.fat[1][d]

(* The first FAT copy, after each write of set_fat_entry. *)
LEMMA EntryTrack ==
  ASSUME NEW u \in Vol, NEW c \in Cluster, NEW x \in FatValue, NEW n \in 1 .. NumFats
  PROVE  Linked(Track(u, SetFatEntry(c, x))[n], u, c, x)
<1>1. PICK s : s = Track(u, SetFatEntry(c, x))[n] /\ FirstSet(s, u, c, x)
  BY SetFatEntryDoes
<1>2. u.fat[1] \in [Cluster -> FatValue]
  BY Sizes32 DEF Vol
<1>3. Linked(s, u, c, x)
  BY <1>1, <1>2 DEF FirstSet, Linked
<1>4. QED
  BY <1>1, <1>3

Extended(t, D, P, at, W, c) ==
  Laid(t, D \o <<c>>, P, at, W, FileName) /\ Ran(D \o <<c>>) = Ran(D) \cup {c}

(* A chain of one cluster. *)
LEMMA OneCluster ==
  ASSUME NEW c \in Cluster, NEW o, o = <<c>>
  PROVE  o \in Seq(Cluster) /\ Len(o) = 1 /\ o[1] = c /\ Ran(o) = {c} /\ Distinct(o) /\ o # <<>>
<1>1. o \in Seq(Cluster) /\ Len(o) = 1 /\ o[1] = c /\ o # <<>>
  OBVIOUS
<1>2. \A i \in 1 .. Len(o) : i = 1
  BY <1>1
<1>3. 1 \in 1 .. Len(o)
  BY <1>1
<1>4. Ran(o) = {c}
  BY <1>1, <1>2, <1>3 DEF Ran
<1>5. Distinct(o)
  BY <1>2 DEF Distinct
<1>6. QED
  BY <1>1, <1>4, <1>5

(* The new cluster, linked to a directory without an End, lays out a       *)
(* longer one.                                                             *)
LEMMA ExtendLaid ==
  ASSUME NEW u, NEW D, NEW P, NEW at, NEW W \in History, Maps(P, at), Laid(u, D, P, at, W, FileName),
         NoEnd(u.block, D), NEW c \in Cluster, c \notin Used(D, P, FileName),
         u.fat[1][c] = Eoc, u.block[c] = Zeroed,
         NEW t, Linked(t, u, D[Len(D)], c)
  PROVE  Extended(t, D, P, at, W, c)
<1>a. PICK E : E = D \o <<c>>
  OBVIOUS
<1>b. /\ t.block = u.block /\ t.fat[1][D[Len(D)]] = c
      /\ \A d \in Cluster \ {D[Len(D)]} : t.fat[1][d] = u.fat[1][d]
  BY DEF Linked
<1> DEFINE f == u.fat[1]
           b == u.block
           g == t.fat[1]
<1>0. /\ DirLaid(f, b, D) /\ Named(b, D, at, FileName) /\ Apart(D, P, FileName)
      /\ \A y \in FileName : FileLaid(f, b, D, P[y], at[y], y, W[y])
  BY DEF Laid
<1>1. Path(f, D) /\ D[1] = Root /\ \A i \in 1 .. Len(D) : b[D[i]] \in DirBlock
  BY <1>0 DEF DirLaid
<1>2. /\ E \in Seq(Cluster) /\ Len(E) = Len(D) + 1 /\ E[Len(D) + 1] = c
      /\ \A i \in 1 .. Len(D) : E[i] = D[i]
      /\ Slots(D) \subseteq Slots(E)
      /\ \A n \in Slots(D) : EntryAt(E, b, n) = EntryAt(D, b, n)
      /\ \A n \in Slots(E) \ Slots(D) : EntryAt(E, b, n) = End
      /\ \A m \in Slots(D), n \in Slots(E) \ Slots(D) : m < n
  <2>1. D \in Seq(Cluster)
    BY <1>1 DEF Path
  <2>2. Longer(E, D, c)
    BY <1>a, <2>1, OneMore
  <2> HIDE DEF f, b
  <2>3. b[c] = Zeroed
    BY DEF b
  <2>4. Widened(E, D, b, c)
    BY <1>0, <2>2, <2>3, MoreEntries
  <2>5. QED
    BY <2>4 DEF Widened, Longer
<1>3. PICK L \in Nat : L = Len(D) /\ L >= 1
  BY <1>1, PathFacts
<1>4. Ran(D) \subseteq Cluster /\ D[L] \in Ran(D) /\ c \notin Ran(D)
  BY <1>1, <1>3, PathFacts DEF Used, Ran
<1>5. Path(g, E) /\ Ran(E) = Ran(D) \cup {c}
  <2> DEFINE o == <<c>>
  <2>1. o \in Seq(Cluster) /\ Len(o) = 1 /\ o[1] = c
    OBVIOUS
  <2>2. E = D \o o
    BY <1>a
  <2>3. Ran(o) = {c}
    BY OneCluster
  <2>4. o # <<>>
    BY OneCluster
  <2>5. Distinct(o)
    BY OneCluster
  <2> HIDE DEF o
  <2>6. Path(f, o)
    BY <2>1, <2>4, <2>5 DEF Path
  <2>7. Ran(D) \cap Ran(o) = {} /\ g[D[Len(D)]] = o[1]
    BY <1>b, <1>4, <2>1, <2>3
  <2>8. \A d \in Ran(D) \ {D[Len(D)]} : g[d] = f[d]
    BY <1>b, <1>4
  <2>9. \A d \in Ran(o) : g[d] = f[d]
    BY <1>b, <1>3, <1>4, <2>3
  <2> HIDE DEF f, g
  <2>10. Path(g, D \o o) /\ Ran(D \o o) = Ran(D) \cup Ran(o)
    BY <1>1, <2>6, <2>7, <2>8, <2>9, JoinPath
  <2>11. QED
    BY <2>2, <2>3, <2>10
<1> HIDE DEF f, g
<1>6. DirLaid(g, b, E)
  <2>1. 1 \in 1 .. L /\ E[1] = D[1]
    BY <1>2, <1>3
  <2>2. ASSUME NEW i \in 1 .. Len(E) PROVE b[E[i]] \in DirBlock
    <3>1. CASE i \in 1 .. L
      BY <1>1, <1>2, <1>3, <3>1
    <3>2. CASE i \notin 1 .. L
      <4>1. i = L + 1
        BY <1>2, <1>3, <3>2
      <4>2. QED
        BY <1>2, <1>3, <4>1, ZeroedBlock
    <3>3. QED
      BY <3>1, <3>2
  <2>3. ASSUME NEW m \in Slots(E), NEW n \in Slots(E), m < n, EntryAt(E, b, m) = End
        PROVE  EntryAt(E, b, n) \in Marks
    <3>1. m \notin Slots(D)
      BY <1>2, <2>3 DEF NoEnd
    <3>2. n \notin Slots(D)
      <4>1. SUFFICES ASSUME n \in Slots(D) PROVE FALSE
        OBVIOUS
      <4>2. n < m /\ m \in Int /\ n \in Int
        BY <1>2, <3>1, <4>1 DEF Slots
      <4>3. QED
        BY <2>3, <4>2
    <3>3. QED
      BY <1>2, <3>2 DEF Marks
  <2>4. QED
    BY <1>1, <1>5, <2>1, <2>2, <2>3 DEF DirLaid
<1>7. Named(b, E, at, FileName)
  <2> SUFFICES ASSUME NEW n \in Slots(E), EntryAt(E, b, n) \notin Marks, EntryAt(E, b, n).name \in FileName
               PROVE  at[EntryAt(E, b, n).name] = n
    BY DEF Named
  <2>1. n \in Slots(D)
    BY <1>2 DEF Marks
  <2>2. EntryAt(E, b, n) = EntryAt(D, b, n)
    BY <1>2, <2>1
  <2>3. QED
    BY <1>0, <2>1, <2>2 DEF Named
<1>8. ASSUME NEW y \in FileName PROVE FileLaid(g, b, E, P[y], at[y], y, W[y])
  <2>1. CASE P[y] = <<>> /\ at[y] = 0 /\ W[y].size = 0
    BY <2>1 DEF FileLaid
  <2>2. CASE ~(P[y] = <<>> /\ at[y] = 0 /\ W[y].size = 0)
    <3>1. /\ at[y] \in Slots(D) /\ EntryAt(D, b, at[y]) = [name |-> y, first |-> P[y][1], size |-> W[y].size]
          /\ Path(f, P[y]) /\ Len(P[y]) = Max({1, W[y].size})
          /\ \A k \in 1 .. W[y].size : b[P[y][k]] = FileData(y, W[y].version, k)
      BY <1>0, <2>2 DEF FileLaid
    <3>2. at[y] \in Slots(E) /\ EntryAt(E, b, at[y]) = EntryAt(D, b, at[y])
      BY <1>2, <3>1
    <3>3. Ran(P[y]) \subseteq Cluster /\ D[L] \notin Ran(P[y])
      BY <1>0, <1>4, <3>1, PathFacts DEF Apart
    <3>4. \A d \in Ran(P[y]) : g[d] = f[d]
      BY <1>b, <1>3, <3>3 DEF f, g
    <3>5. Path(g, P[y])
      BY <3>1, <3>4, PathFrame
    <3>6. QED
      BY <3>1, <3>2, <3>5 DEF FileLaid
  <2>3. QED
    BY <2>1, <2>2
<1>9. Apart(E, P, FileName)
  <2>1. \A y \in FileName : c \notin Ran(P[y])
    BY DEF Used
  <2>2. QED
    BY <1>0, <1>5, <2>1 DEF Apart
<1>10. QED
  BY <1>a, <1>b, <1>5, <1>6, <1>7, <1>8, <1>9 DEF Extended, Laid, g

(* write_file on a full directory adds a cluster, and its first slot is    *)
(* open for x.                                                             *)
LEMMA ExtendDoes ==
  ASSUME NEW v, NEW D, NEW P, NEW at, NEW W, Ready(v, D, P, at, W), NoEnd(v.block, D),
         NEW c \in Ran(FreeClusters(v.fat[1])), NEW x \in FileName, at[x] = 0,
         NEW ops, ops = ExtendDirectory(v.fat[1], c)
  PROVE  /\ Kept(v, ops, W, x)
         /\ \E E : /\ Ready(After(v, ops), E, P, at, W)
                   /\ \E t : /\ Opening(After(v, ops).block, E, x, t)
                             /\ E[Nth(t)] = c /\ Sth(t) = 1
<1> DEFINE f == v.fat[1]
           N == FileName \ {x}
           o == <<c>>
           E == D \o o
<1>0. /\ v \in Vol /\ Maps(P, at) /\ W \in History /\ Laid(v, D, P, at, W, FileName) /\ Full(v, D, P)
      /\ \A k \in Copy : v.fat[k] = v.fat[1]
  BY DEF Ready, Full
<1>1. c \notin Used(D, P, FileName) /\ c \in Cluster /\ f[c] = Free
  BY <1>0, RoomFacts, RanFacts
<1>2. N \in SUBSET FileName /\ Used(D, P, N) \subseteq Used(D, P, FileName) /\ FileName \in SUBSET FileName
  BY DEF Used
<1>3. Used(D, P, FileName) \subseteq Cluster
  BY <1>0, <1>2, UsedFacts
<1>4. DirLaid(f, v.block, D) /\ Path(f, D) /\ D[1] = Root
  BY <1>0 DEF Laid, DirLaid
<1>5. PICK L \in Nat : L = Len(D) /\ L >= 1 /\ D[L] \in Cluster /\ D[L] \in Ran(D) /\ D \in Seq(Cluster)
  BY <1>4, PathFacts, RanFacts DEF Path, Ran
<1>6. ops = AllocateChain(o) \o SetFatEntry(D[L], c)
  <2>1. Chain(f, Root) = D
    BY <1>4, ChainAlong
  <2>2. QED
    BY <1>5, <2>1 DEF ExtendDirectory
<1>7. o \in Seq(Cluster) /\ Len(o) = 1 /\ o[1] = c
  BY <1>1
<1>8. E = D \o <<c>>
  OBVIOUS
<1>9. Ran(o) = {c} /\ Distinct(o) /\ o # <<>>
  BY <1>1, OneCluster
<1> HIDE DEF o, f, E, N
<1> DEFINE a == AllocateChain(o)
           u == After(v, a)
           l == SetFatEntry(D[L], c)
           t == After(u, l)
<1>10. a \in Seq(Op) /\ Within(a, {c}) /\ u \in Vol /\ Strung(u, o, Len(o))
  <2>1. a \in Seq(Op) /\ Within(a, Ran(o)) /\ u \in Vol /\ Strung(u, o, Len(o))
    BY <1>0, <1>7, <1>9, AllocateChainDoes
  <2>2. QED
    BY <1>9, <2>1
<1>11. Path(u.fat[1], o) /\ \A k \in Copy : u.fat[k][c] = u.fat[1][c]
  <2>1. Path(u.fat[1], o) /\ \A d \in Ran(o), k \in Copy : u.fat[k][d] = u.fat[1][d]
    <3> HIDE DEF u
    <3>1. QED
      BY <1>7, <1>9, <1>10, StrungPath
  <2>2. QED
    BY <1>9, <2>1
<1>12. u.fat[1][c] = Eoc /\ u.block[c] = Zeroed
  <2>1. 1 \in 1 .. Len(o) /\ 1 \in Copy
    BY <1>7, Sizes32
  <2>2. QED
    BY <1>7, <1>10, <2>1 DEF Strung
<1>13. Agree(u, v, {c})
  BY <1>0, <1>10, Frame
<1>14. Kept(v, a, W, x)
  <2>1. Laid(v, D, P, at, W, N)
    BY <1>0, <1>2, LaidFewer
  <2>2. {c} \cap Used(D, P, N) = {} /\ Used(D, P, N) \subseteq Cluster
    BY <1>1, <1>2, <1>3
  <2> HIDE DEF a
  <2>3. QED
    BY <1>0, <1>10, <2>1, <2>2, KeptWithin DEF N
<1> HIDE DEF a
<1>15. \A d \in Used(D, P, FileName) : u.fat[1][d] = v.fat[1][d] /\ u.block[d] = v.block[d]
  BY <1>1, <1>3, <1>13, Sizes32 DEF Agree
<1>16. Laid(u, D, P, at, W, FileName)
  BY <1>0, <1>2, <1>15, LaidFrame
<1>17. NoEnd(u.block, D)
  <2>1. \A d \in Ran(D) : u.block[d] = v.block[d]
    BY <1>15 DEF Used
  <2>2. \A n \in Slots(D) : EntryAt(D, u.block, n) = EntryAt(D, v.block, n)
    BY <1>4, <2>1, EntryFrame
  <2>3. QED
    BY <2>2 DEF NoEnd
<1> HIDE DEF u
<1>18. u.fat[1] \in [Cluster -> FatValue] /\ c \in FatValue
  BY <1>1, <1>10, Sizes32 DEF Vol, FatValue
<1>19. ASSUME NEW s, Linked(s, u, D[L], c)
       PROVE  Laid(s, E, P, at, W, FileName) /\ Ran(E) = Ran(D) \cup {c}
  <2>1. Linked(s, u, D[Len(D)], c)
    BY <1>5, <1>19
  <2>2. Extended(s, D, P, at, W, c)
    BY <1>0, <1>1, <1>12, <1>16, <1>17, <2>1, ExtendLaid
  <2>3. QED
    BY <1>8, <2>2 DEF Extended
<1>20. /\ l \in Seq(Op) /\ Len(l) = NumFats
       /\ \A n \in 1 .. NumFats : Linked(Track(u, l)[n], u, D[L], c)
  <2>1. l \in Seq(Op) /\ Len(l) = NumFats
    BY <1>5, <1>10, <1>18, SetFatEntryDoes
  <2>2. QED
    BY <1>5, <1>10, <1>18, <2>1, EntryTrack
<1>21. t \in Vol /\ Put(t, u, D[L], c)
  BY <1>5, <1>10, <1>18, SetEntry
<1> HIDE DEF l
<1>22. Kept(u, l, W, x)
  <2>1. ASSUME NEW n \in 0 .. Len(l) PROVE Good(Track(u, l)[n], W, x)
    <3>1. CASE n = 0
      <4>1. Track(u, l)[0] = u
        BY <1>10, <1>20, TrackExists DEF Tracks
      <4>2. Laid(u, D, P, at, W, N)
        BY <1>2, <1>16, LaidFewer
      <4>3. QED
        BY <1>0, <3>1, <4>1, <4>2, LaidGood DEF N
    <3>2. CASE n # 0
      <4>1. n \in 1 .. NumFats
        BY <1>20, <3>2
      <4>2. PICK s : s = Track(u, l)[n] /\ Linked(s, u, D[L], c)
        BY <1>20, <4>1
      <4>3. Laid(s, E, P, at, W, FileName)
        BY <1>19, <4>2
      <4>4. Laid(s, E, P, at, W, N)
        BY <1>2, <4>3, LaidFewer
      <4>5. QED
        BY <1>0, <4>2, <4>4, LaidGood DEF N
    <3>3. QED
      BY <3>1, <3>2
  <2>2. QED
    BY <1>20, <2>1 DEF Kept
<1>23. Kept(v, ops, W, x) /\ After(v, ops) = t
  <2>1. ops = a \o l
    BY <1>6 DEF a, l
  <2>2. Kept(v, a \o l, W, x)
    BY <1>0, <1>14, <1>22, KeptJoin DEF u
  <2>3. After(v, a \o l) = After(After(v, a), l)
    BY <1>0, <1>10, <1>20, AfterJoin
  <2>4. QED
    BY <2>1, <2>2, <2>3 DEF u
<1> HIDE DEF t
<1>24. /\ t.block = u.block /\ \A k \in Copy, d \in Cluster : t.fat[k][d] = IF d = D[L] THEN c ELSE u.fat[k][d]
  BY <1>21 DEF Put
<1>25. Linked(t, u, D[L], c)
  <2>1. \A d \in Cluster : t.fat[1][d] = IF d = D[L] THEN c ELSE u.fat[1][d]
    BY <1>24, Sizes32
  <2>2. QED
    BY <1>5, <1>24, <2>1 DEF Linked
<1>26. Laid(t, E, P, at, W, FileName) /\ Ran(E) = Ran(D) \cup {c}
  BY <1>19, <1>24, <1>25
<1>27. \A k \in Copy : t.fat[k] = t.fat[1]
  <2>1. \A k \in Copy : u.fat[k] = u.fat[1]
    BY <1>0, <1>10, <1>11, <1>13, CopiesAgree
  <2>2. ASSUME NEW k \in Copy PROVE t.fat[k] = t.fat[1]
    <3>1. t.fat[k] \in [Cluster -> FatValue] /\ t.fat[1] \in [Cluster -> FatValue] /\ 1 \in Copy
      BY <1>21, Sizes32 DEF Vol
    <3>2. \A d \in Cluster : t.fat[k][d] = t.fat[1][d]
      BY <1>24, <2>1, <3>1
    <3>3. QED
      BY <3>1, <3>2
  <2>3. QED
    BY <2>2
<1>28. ASSUME NEW d \in Cluster, t.fat[1][d] # Free PROVE d \in Used(E, P, FileName)
  <2>1. CASE d = c \/ d = D[L]
    BY <1>5, <1>26, <2>1 DEF Used
  <2>2. CASE ~(d = c \/ d = D[L])
    <3>1. t.fat[1][d] = v.fat[1][d]
      <4>1. t.fat[1][d] = u.fat[1][d]
        BY <1>24, <2>2, Sizes32
      <4>2. u.fat[1][d] = v.fat[1][d]
        BY <1>13, <2>2, Sizes32 DEF Agree
      <4>3. QED
        BY <4>1, <4>2
    <3>2. d \in Used(D, P, FileName)
      BY <1>0, <1>28, <3>1 DEF Full
    <3>3. QED
      BY <1>26, <3>2 DEF Used
  <2>3. QED
    BY <2>1, <2>2
<1>29. Ready(t, E, P, at, W)
  BY <1>0, <1>21, <1>26, <1>27, <1>28 DEF Ready, Full
<1>30. \E n : Opening(t.block, E, x, n) /\ E[Nth(n)] = c /\ Sth(n) = 1
  <2> DEFINE n == L * DirSlots + 1
  <2>1. Longer(E, D, c) /\ DirLaid(u.fat[1], u.block, D)
    BY <1>1, <1>5, <1>8, <1>16, OneMore DEF Laid
  <2>2. /\ Widened(E, D, u.block, c) /\ n \in Slots(E) \ Slots(D)
        /\ Nth(n) = L + 1 /\ Sth(n) = 1
    BY <1>1, <1>5, <1>12, <2>1, MoreEntries
  <2>3. E[Nth(n)] = c
    BY <1>5, <2>1, <2>2 DEF Longer
  <2>4. EntryAt(E, u.block, n) = End /\ End \in Marks
    BY <2>2 DEF Widened, Marks
  <2>5. ASSUME NEW m \in Slots(E), EntryAt(E, u.block, m) \notin Marks, EntryAt(E, u.block, m).name = x
        PROVE  FALSE
    <3>1. Named(u.block, E, at, FileName)
      BY <1>24, <1>26 DEF Laid
    <3>2. at[x] = m
      BY <2>5, <3>1 DEF Named
    <3>3. m >= 1
      BY DEF Slots
    <3>4. QED
      BY <3>2, <3>3
  <2>6. ASSUME NEW m \in Slots(E), m < n PROVE EntryAt(E, u.block, m) # End
    <3>1. m \in Slots(D)
      <4>1. L * DirSlots \in Nat
        BY <1>5, <2>1, DirFacts
      <4>2. QED
        BY <1>5, <2>6, <4>1 DEF Slots
    <3>2. QED
      BY <1>17, <2>2, <3>1 DEF Widened, NoEnd
  <2> HIDE DEF n
  <2>7. Opening(t.block, E, x, n)
    BY <1>24, <2>2, <2>4, <2>5, <2>6 DEF Opening
  <2>8. QED
    BY <2>2, <2>3, <2>7
<1>31. QED
  BY <1>23, <1>29, <1>30

-----------------------------------------------------------------------------
(* The slot write_file chooses is open for x, or the directory is full. *)
LEMMA SlotFound ==
  ASSUME NEW v, NEW D, NEW P, NEW at, NEW W, Ready(v, D, P, at, W), NEW x \in FileName,
         NEW es, es = Searched(v.fat[1], v.block), NEW found, found = Matches(es, x)
  PROVE  /\ (IF found = {} THEN 0 ELSE es[Max(found)].entry.first) = FirstOf(P[x])
         /\ \/ SlotFor(es, found).cluster = 0 /\ at[x] = 0 /\ NoEnd(v.block, D)
            \/ \E t : /\ Opening(v.block, D, x, t)
                      /\ SlotFor(es, found) = [cluster |-> D[Nth(t)], slot |-> Sth(t)]
<1> DEFINE f == v.fat[1]
           b == v.block
           T == Len(D) * DirSlots
<1>0. Laid(v, D, P, at, W, FileName) /\ Maps(P, at)
  BY DEF Ready
<1>1. /\ DirLaid(f, b, D) /\ Named(b, D, at, FileName)
      /\ FileLaid(f, b, D, P[x], at[x], x, W[x])
  BY <1>0 DEF Laid
<1>2. found = IF at[x] = 0 THEN {} ELSE {at[x]}
  BY <1>0, MatchesAre
<1> HIDE DEF f, b
<1>3. PICK K \in Nat :
         /\ DOMAIN es = 1 .. K /\ K >= 1 /\ K <= Len(D) * DirSlots
         /\ \A n \in 1 .. K : es[n] = EntryFor(D, b, n)
         /\ \A n \in 1 .. K : n < K => EntryAt(D, b, n) # End
         /\ \A n \in Slots(D) : n > K => EntryAt(D, b, n) \in Marks
         /\ K < Len(D) * DirSlots => EntryAt(D, b, K) = End
  BY <1>1, SearchedAre DEF f, b
<1>4. T \in Nat /\ Slots(D) = 1 .. T /\ K <= T
  BY <1>1, <1>3, DirFacts DEF Slots
<1>5. \A n \in 1 .. K : /\ n \in Slots(D) /\ es[n].entry = EntryAt(D, b, n)
                        /\ es[n].cluster = D[Nth(n)] /\ es[n].slot = Sth(n)
  <2> SUFFICES ASSUME NEW n \in 1 .. K
               PROVE  /\ n \in Slots(D) /\ es[n].entry = EntryAt(D, b, n)
                      /\ es[n].cluster = D[Nth(n)] /\ es[n].slot = Sth(n)
    OBVIOUS
  <2>1. n \in Slots(D)
    BY <1>3, <1>4
  <2>2. es[n] = EntryFor(D, b, n)
    BY <1>3
  <2>3. QED
    BY <2>1, <2>2 DEF EntryFor
<1> HIDE DEF T
<1>6. CASE at[x] # 0
  <2>1. /\ at[x] \in Slots(D) /\ EntryAt(D, b, at[x]) = [name |-> x, first |-> P[x][1], size |-> W[x].size]
        /\ Path(f, P[x])
    BY <1>1, <1>6 DEF FileLaid
  <2>2. P[x][1] # 0 /\ P[x] # <<>>
    <3>1. P[x] # <<>>
      BY <2>1 DEF Path
    <3>2. QED
      BY <2>1, <3>1, PathFacts
  <2>3. EntryAt(D, b, at[x]) \notin Marks /\ EntryAt(D, b, at[x]).name = x /\ EntryAt(D, b, at[x]).first = P[x][1]
    BY <2>1, <2>2 DEF Marks, End, Deleted, Skipped, Mark
  <2>4. at[x] \in 1 .. K
    BY <1>3, <1>4, <2>1, <2>3
  <2>5. Max(found) = at[x] /\ found # {}
    <3>1. found \subseteq Int /\ at[x] \in found /\ \A y \in found : y <= at[x]
      BY <1>2, <1>6, <2>4
    <3>2. QED
      BY <3>1, MaxIs
  <2>6. es[Max(found)].entry.first = FirstOf(P[x])
    BY <1>5, <2>2, <2>3, <2>4, <2>5 DEF FirstOf
  <2>7. SlotFor(es, found) = [cluster |-> D[Nth(at[x])], slot |-> Sth(at[x])]
    BY <1>5, <2>4, <2>5 DEF SlotFor
  <2>8. Opening(b, D, x, at[x])
    <3>1. ASSUME NEW n \in Slots(D), EntryAt(D, b, n) \notin Marks, EntryAt(D, b, n).name = x PROVE n = at[x]
      BY <1>1, <3>1 DEF Named
    <3>2. ASSUME NEW n \in Slots(D), n < at[x], EntryAt(D, b, n) = End PROVE FALSE
      BY <1>1, <2>1, <2>3, <3>2 DEF DirLaid
    <3>3. QED
      BY <2>1, <2>3, <3>1, <3>2 DEF Opening
  <2>9. QED
    BY <2>5, <2>6, <2>7, <2>8 DEF b
<1>7. CASE at[x] = 0
  <2>1. found = {}
    BY <1>2, <1>7
  <2>2. FirstOf(P[x]) = 0
    <3>1. at[x] \notin Slots(D)
      BY <1>4, <1>7
    <3>2. P[x] = <<>>
      BY <1>1, <3>1 DEF FileLaid
    <3>3. QED
      BY <3>2 DEF FirstOf
  <2>3. ASSUME NEW n \in Slots(D), EntryAt(D, b, n) \notin Marks, EntryAt(D, b, n).name = x PROVE FALSE
    <3>1. at[x] = n
      BY <1>1, <2>3 DEF Named
    <3>2. QED
      BY <1>4, <1>7, <3>1
  <2> DEFINE open == {n \in DOMAIN es : es[n].entry \in {Deleted, End}}
  <2>4. open = {n \in 1 .. K : EntryAt(D, b, n) \in {Deleted, End}}
    BY <1>3, <1>5
  <2>5. CASE open = {}
    <3>1. SlotFor(es, found) = [cluster |-> 0, slot |-> 1]
      BY <2>1, <2>5 DEF SlotFor
    <3>2. EntryAt(D, b, K) # End
      BY <1>3, <2>4, <2>5
    <3>3. K = T
      BY <1>3, <1>4, <3>2 DEF T
    <3>4. NoEnd(b, D)
      BY <1>4, <2>4, <2>5, <3>3 DEF NoEnd
    <3>5. QED
      BY <1>7, <2>1, <2>2, <3>1, <3>4 DEF b
  <2>6. CASE open # {}
    <3>1. open \subseteq Nat
      BY <2>4
    <3>2. PICK t \in open : t = Min(open)
      BY <2>6, <3>1, MinIn
    <3>3. t \in 1 .. K /\ EntryAt(D, b, t) \in {Deleted, End}
      BY <2>4, <3>2
    <3>4. SlotFor(es, found) = [cluster |-> es[Min(open)].cluster, slot |-> es[Min(open)].slot]
      BY <2>1, <2>6 DEF SlotFor
    <3>5. SlotFor(es, found) = [cluster |-> D[Nth(t)], slot |-> Sth(t)]
      BY <1>5, <3>2, <3>3, <3>4
    <3>6. ASSUME NEW n \in Slots(D), n < t PROVE EntryAt(D, b, n) # End
      <4>1. n \in 1 .. K /\ n < K
        BY <1>4, <3>3, <3>6
      <4>2. QED
        BY <1>3, <4>1
    <3>7. Opening(b, D, x, t)
      BY <1>5, <2>3, <3>3, <3>6 DEF Opening, Marks
    <3>8. QED
      BY <2>1, <2>2, <3>5, <3>7 DEF b
  <2>7. QED
    BY <2>5, <2>6
<1>8. QED
  BY <1>6, <1>7

(* One write between two volumes that hold the other files. *)
LEMMA KeptOne ==
  ASSUME NEW r \in Vol, NEW w \in Op, NEW W, NEW x, Good(r, W, x), Good(Wrote(r, w), W, x)
  PROVE  <<w>> \in Seq(Op) /\ Kept(r, <<w>>, W, x) /\ After(r, <<w>>) = Wrote(r, w)
<1> DEFINE ops == <<w>>
<1>1. ops \in Seq(Op) /\ Len(ops) = 1 /\ ops[1] = w
  OBVIOUS
<1> HIDE DEF ops
<1>2. PICK g : g = Track(r, ops) /\ Tracks(g, r, ops)
  BY <1>1, TrackExists
<1>3. g[0] = r /\ g[1] = Wrote(r, w)
  BY <1>1, <1>2 DEF Tracks
<1>4. After(r, ops) = g[1]
  BY <1>1, <1>2 DEF After
<1>5. \A n \in 0 .. 1 : n = 0 \/ n = 1
  OBVIOUS
<1>6. Kept(r, ops, W, x)
  BY <1>1, <1>2, <1>3, <1>5 DEF Kept
<1>7. QED
  BY <1>1, <1>3, <1>4, <1>6 DEF ops

Updated(W, x, size, z) == [W EXCEPT ![x] = [size |-> size, version |-> z]]

Planned(v, plan, W, x, size, z) ==
  /\ Kept(v, plan.ops, W, x) /\ plan.fits \in BOOLEAN
  /\ plan.fits => Sound(After(v, plan.ops), Updated(W, x, size, z))

(* The history of a completed write. *)
LEMMA UpdatedFacts ==
  ASSUME NEW W \in History, NEW x \in FileName, NEW size \in Nat, NEW z \in 1 .. MaxWrites
  PROVE  Updated(W, x, size, z) \in History /\ \A y \in FileName \ {x} : Updated(W, x, size, z)[y] = W[y]
BY Sizes32 DEF Updated, History

(* A volume laid out for that history holds the other files as they were. *)
LEMMA GoodUpdated ==
  ASSUME NEW q, NEW D, NEW P, NEW at, NEW W \in History, NEW x \in FileName, NEW size \in Nat,
         NEW z \in 1 .. MaxWrites, Ready(q, D, P, at, Updated(W, x, size, z))
  PROVE  Good(q, W, x)
<1> DEFINE U == Updated(W, x, size, z)
<1>1. U \in History /\ \A y \in FileName \ {x} : U[y] = W[y]
  BY UpdatedFacts
<1> HIDE DEF U
<1>2. Laid(q, D, P, at, U, FileName)
  BY DEF Ready, U
<1>3. Laid(q, D, P, at, U, FileName \ {x})
  BY <1>2, LaidFewer
<1>4. Good(q, U, x)
  BY <1>1, <1>3, LaidGood
<1>5. QED
  BY <1>1, <1>4 DEF Good

(* Size, fill, and write the entry: the other files are kept throughout,   *)
(* and if it fits the volume is laid out with x as written.                *)
LEMMA FillPlan ==
  ASSUME NEW v \in Vol, NEW dirOps, NEW W, NEW x \in FileName, Kept(v, dirOps, W, x),
         NEW s, s = After(v, dirOps), NEW D, NEW P, NEW at, Ready(s, D, P, at, W),
         NEW t, Opening(s.block, D, x, t),
         NEW size \in Nat, NEW z \in 1 .. MaxWrites,
         NEW target, target = [cluster |-> D[Nth(t)], slot |-> Sth(t)],
         NEW first, first = FirstOf(P[x])
  PROVE  Planned(v, SizeAndFill(s.fat[1], dirOps, target, first, x, size, z), W, x, size, z)
<1> DEFINE n == Max({1, size})
           N == FileName \ {x}
<1>1. n \in Nat /\ n >= 1 /\ size <= n
  BY MaxOne
<1> HIDE DEF n, N
<1>2. PICK sized : sized = IF first # 0 THEN ResizeChain(s.fat[1], first, n) ELSE NewChain(s.fat[1], n)
  OBVIOUS
<1>3. Sizing(s, sized, D, P, x, n)
  BY <1>1, <1>2, SizingDoes
<1> SUFFICES ASSUME NEW plan, plan = SizeAndFill(s.fat[1], dirOps, target, first, x, size, z)
             PROVE  Planned(v, plan, W, x, size, z)
  OBVIOUS
<1>4. plan = Filled(s.fat[1], dirOps, target, sized, x, size, z)
  BY <1>2 DEF SizeAndFill, n
<1>5. dirOps \in Seq(Op) /\ s \in Vol /\ W \in History /\ Maps(P, at) /\ Laid(s, D, P, at, W, FileName)
  BY DEF Kept, Ready
<1>6. Laid(s, D, P, at, W, N)
  BY <1>5, LaidFewer DEF N
<1>7. /\ Used(D, P, N) \subseteq Cluster /\ Rest(D, P, x) \cap Used(D, P, N) = {}
  BY RestFacts DEF N
<1>8. sized.ops \in Seq(Op) /\ Within(sized.ops, Rest(D, P, x)) /\ sized.fits \in BOOLEAN
  BY <1>3 DEF Sizing
<1> DEFINE u == After(s, sized.ops)
<1>9. Kept(s, sized.ops, W, x) /\ u \in Vol /\ Laid(u, D, P, at, W, N)
  BY <1>5, <1>6, <1>7, <1>8, KeptWithin DEF N
<1>10. Kept(v, dirOps \o sized.ops, W, x) /\ After(v, dirOps \o sized.ops) = u
  BY <1>5, <1>8, <1>9, KeptJoin, AfterJoin
<1> HIDE DEF u
<1>11. CASE ~sized.fits
  <2>1. Filled(s.fat[1], dirOps, target, sized, x, size, z) = [ops |-> dirOps \o sized.ops, fits |-> FALSE]
    BY <1>11 DEF Filled
  <2>2. plan.ops = dirOps \o sized.ops /\ plan.fits = FALSE
    BY <1>4, <2>1
  <2>3. QED
    BY <1>10, <2>2 DEF Planned
<1>12. CASE sized.fits
  <2>1. PICK Q : Q[1] = sized.first /\ Sized(u, D, P, x, Q, n)
    BY <1>3, <1>12 DEF Sizing, u
  <2>2. AfterWrites(s.fat[1], sized.ops) = u.fat[1]
    BY <1>5, <1>8, AfterWritesIs DEF u
  <2> DEFINE data == DataWrites(Walk(u.fat[1], Q[1], size), x, z)
             r == After(u, data)
             e == [name |-> x, first |-> Q[1], size |-> size]
             w == DirWrite(D, t, e)
  <2>3. /\ data \in Seq(Op) /\ Within(data, Rest(D, P, x))
        /\ Sized(r, D, P, x, Q, n) /\ Filed(r.block, Q, x, size, z)
    BY <1>1, <2>1, FillDoes
  <2>4. Kept(u, data, W, x) /\ r \in Vol /\ Laid(r, D, P, at, W, N)
    BY <1>5, <1>7, <1>9, <2>3, KeptWithin DEF N
  <2>5. Kept(v, (dirOps \o sized.ops) \o data, W, x) /\ After(v, (dirOps \o sized.ops) \o data) = r
    <3>1. dirOps \o sized.ops \in Seq(Op)
      BY <1>10 DEF Kept
    <3>2. QED
      BY <1>10, <2>3, <2>4, <3>1, KeptJoin, AfterJoin
  <2>6. Filled(s.fat[1], dirOps, target, sized, x, size, z) =
          [ops |-> ((dirOps \o sized.ops) \o data) \o <<w>>, fits |-> TRUE]
    BY <1>12, <2>1, <2>2 DEF Filled, DirWrite
  <2> HIDE DEF data, r
  <2>7. Opening(r.block, D, x, t)
    <3>1. Agree(u, s, Rest(D, P, x))
      BY <1>5, <1>8, Frame DEF u
    <3>2. Agree(r, u, Rest(D, P, x))
      BY <1>9, <2>3, Frame DEF r
    <3>3. Ran(D) \subseteq Cluster \ Rest(D, P, x)
      BY <1>7 DEF Used, Rest, N
    <3>4. \A c \in Ran(D) : r.block[c] = s.block[c]
      BY <3>1, <3>2, <3>3 DEF Agree
    <3>5. DirLaid(s.fat[1], s.block, D)
      BY <1>5 DEF Laid
    <3>6. QED
      BY <3>4, <3>5, OpeningFrame
  <2>8. w \in Op /\ Ready(Wrote(r, w), D, [P EXCEPT ![x] = Q], [at EXCEPT ![x] = t], Updated(W, x, size, z))
    BY <1>5, <2>3, <2>4, <2>7, ClosingDoes DEF Updated, N, n
  <2> HIDE DEF w
  <2>9. Good(Wrote(r, w), W, x)
    BY <1>5, <2>8, GoodUpdated
  <2>10. Good(r, W, x)
    BY <1>5, <2>4, LaidGood DEF N
  <2>11. <<w>> \in Seq(Op) /\ Kept(r, <<w>>, W, x) /\ After(r, <<w>>) = Wrote(r, w)
    BY <2>4, <2>8, <2>9, <2>10, KeptOne
  <2> DEFINE pre == (dirOps \o sized.ops) \o data
  <2>12. pre \in Seq(Op) /\ Kept(v, pre, W, x) /\ After(v, pre) = r
    BY <2>5 DEF Kept
  <2> HIDE DEF pre
  <2>13. Kept(v, pre \o <<w>>, W, x) /\ After(v, pre \o <<w>>) = Wrote(r, w)
    BY <2>11, <2>12, KeptJoin, AfterJoin
  <2>14. Sound(After(v, pre \o <<w>>), Updated(W, x, size, z))
    BY <2>8, <2>13 DEF Sound
  <2> DEFINE ops == pre \o <<w>>
  <2>15. plan = [ops |-> ops, fits |-> TRUE]
    BY <1>4, <2>6 DEF pre
  <2> HIDE DEF ops
  <2>16. plan.ops = ops /\ plan.fits = TRUE
    BY <2>15
  <2>17. QED
    BY <2>13, <2>14, <2>16 DEF Planned, ops
<1>13. QED
  BY <1>8, <1>11, <1>12

(* The same for the whole of write_file, on any volume that is laid out. *)
LEMMA WriteDoes ==
  ASSUME NEW v, NEW W, Sound(v, W), NEW x \in FileName, NEW size \in Nat, NEW z \in 1 .. MaxWrites,
         NEW es, es = Searched(v.fat[1], v.block),
         NEW plan, plan = WritesIn(v.fat[1], es, Matches(es, x), x, size, z)
  PROVE  Planned(v, plan, W, x, size, z)
<1>1. PICK D, P, at : Ready(v, D, P, at, W)
  BY DEF Sound
<1>2. v \in Vol /\ W \in History /\ Maps(P, at) /\ Laid(v, D, P, at, W, FileName)
  BY <1>1 DEF Ready
<1>3. Good(v, W, x)
  BY <1>2, LaidFewer, LaidGood
<1> DEFINE found == Matches(es, x)
           target == SlotFor(es, found)
           first == IF found = {} THEN 0 ELSE es[Max(found)].entry.first
           room == FreeClusters(v.fat[1])
<1>4. plan = WritesFrom(v.fat[1], room, target, first, x, size, z)
  BY DEF WritesIn
<1>5. /\ first = FirstOf(P[x])
      /\ \/ target.cluster = 0 /\ at[x] = 0 /\ NoEnd(v.block, D)
         \/ \E t : /\ Opening(v.block, D, x, t)
                   /\ target = [cluster |-> D[Nth(t)], slot |-> Sth(t)]
  BY <1>1, SlotFound
<1> HIDE DEF found, target, first, room
<1>6. <<>> \in Seq(Op) /\ Kept(v, <<>>, W, x) /\ After(v, <<>>) = v
  BY <1>2, <1>3, KeptNone, NoWrites
<1>7. ASSUME NEW t, Opening(v.block, D, x, t), target = [cluster |-> D[Nth(t)], slot |-> Sth(t)]
      PROVE  Planned(v, plan, W, x, size, z)
  <2>1. D[Nth(t)] \in Cluster
    <3>1. DirLaid(v.fat[1], v.block, D) /\ t \in Slots(D)
      BY <1>2, <1>7 DEF Laid, Opening
    <3>2. QED
      BY <3>1, DirFacts
  <2>2. target.cluster # 0
    BY <1>7, <2>1, Sizes32
  <2>3. plan = SizeAndFill(v.fat[1], <<>>, target, first, x, size, z)
    BY <1>4, <2>2 DEF WritesFrom
  <2>4. QED
    BY <1>1, <1>2, <1>5, <1>6, <1>7, <2>3, FillPlan
<1>8. ASSUME target.cluster = 0, at[x] = 0, NoEnd(v.block, D)
      PROVE  Planned(v, plan, W, x, size, z)
  <2>1. CASE room = <<>>
    <3>1. plan = [ops |-> <<>>, fits |-> FALSE]
      BY <1>4, <1>8, <2>1 DEF WritesFrom
    <3>2. plan.ops = <<>> /\ plan.fits = FALSE
      BY <3>1
    <3>3. QED
      BY <1>6, <3>2 DEF Planned
  <2>2. CASE room # <<>>
    <3>1. room \in Seq(Cluster)
      BY <1>2, RoomFacts DEF room
    <3>2. room[1] \in Ran(room)
      BY <2>2, <3>1 DEF Ran
    <3> DEFINE c == room[1]
               ops == ExtendDirectory(v.fat[1], c)
               s == After(v, ops)
    <3>3. c \in Ran(FreeClusters(v.fat[1]))
      BY <3>2 DEF room
    <3> HIDE DEF c
    <3>4. /\ Kept(v, ops, W, x)
          /\ \E E : /\ Ready(s, E, P, at, W)
                    /\ \E t : Opening(s.block, E, x, t) /\ E[Nth(t)] = c /\ Sth(t) = 1
      BY <1>1, <1>8, <3>3, ExtendDoes
    <3>5. PICK E, t : Ready(s, E, P, at, W) /\ Opening(s.block, E, x, t) /\ E[Nth(t)] = c /\ Sth(t) = 1
      BY <3>4
    <3>6. ops \in Seq(Op)
      BY <3>4 DEF Kept
    <3>7. AfterWrites(v.fat[1], ops) = s.fat[1]
      BY <1>2, <3>6, AfterWritesIs
    <3>8. plan = SizeAndFill(AfterWrites(v.fat[1], ops), ops, [cluster |-> c, slot |-> 1], first, x, size, z)
      BY <1>4, <1>8, <2>2 DEF WritesFrom, c
    <3> HIDE DEF ops, s
    <3>9. plan = SizeAndFill(s.fat[1], ops, [cluster |-> E[Nth(t)], slot |-> Sth(t)], first, x, size, z)
      BY <3>5, <3>7, <3>8
    <3>10. QED
      BY <1>2, <1>5, <3>4, <3>5, <3>9, FillPlan DEF s
  <2>3. QED
    BY <2>1, <2>2
<1>9. QED
  BY <1>5, <1>7, <1>8

-----------------------------------------------------------------------------
Card == [fat |-> fat, block |-> block]

Fresh(v) ==
  /\ v.fat = [k \in Copy |-> [c \in Cluster |-> IF c = Root THEN Eoc ELSE Free]]
  /\ \E es \in InitialRoot : v.block = [c \in Cluster |-> IF c = Root THEN [dir |-> es] ELSE Zeroed]

InCall(v, ops, cl, W) ==
  /\ cl.name \in FileName /\ cl.size \in Nat /\ cl.version \in 1 .. MaxWrites /\ cl.fits \in BOOLEAN
  /\ Kept(v, ops, W, cl.name)
  /\ cl.fits => Sound(After(v, ops), Updated(W, cl.name, cl.size, cl.version))

(* While no call has failed: between calls the volume is laid out, and in a *)
(* call every block write still to come keeps the other files and the last  *)
(* one leaves it laid out again.  After the first that failed the other     *)
(* files are what they were.                                                *)
FatInv ==
  /\ health \in {"sound", "wounded", "reused"} /\ version \in 0 .. MaxWrites
  /\ health # "reused" => Card \in Vol /\ wrote \in History
  /\ health = "sound" /\ call = Idle => pending = <<>> /\ Sound(Card, wrote)
  /\ health = "sound" /\ call # Idle => InCall(Card, pending, call, wrote)
  /\ health = "wounded" => call = Idle /\ pending = <<>> /\ Good(Card, wrote, victim)

(* A fresh volume is laid out: a directory of one cluster, and no file. *)
LEMMA FreshSound ==
  ASSUME NEW v, Fresh(v), v = [fat |-> v.fat, block |-> v.block], NEW W, W = [n \in FileName |-> Nothing]
  PROVE  v \in Vol /\ W \in History /\ Sound(v, W)
<1> DEFINE D == <<Root>>
           P == [x \in FileName |-> <<>>]
           at == [x \in FileName |-> 0]
           f == v.fat[1]
           b == v.block
<1>1. PICK es \in [1 .. DirSlots -> Marks] :
         b = [c \in Cluster |-> IF c = Root THEN [dir |-> es] ELSE Zeroed]
  BY FatAssumption DEF Fresh
<1>2. \A k \in Copy : v.fat[k] = [c \in Cluster |-> IF c = Root THEN Eoc ELSE Free]
  BY DEF Fresh
<1>3. [dir |-> es] \in DirBlock
  BY <1>1 DEF DirBlock
<1>4. b \in [Cluster -> Block]
  BY <1>1, <1>3, ZeroedBlock, Blocks
<1>5. v.fat \in [Copy -> [Cluster -> FatValue]]
  BY DEF Fresh, FatValue
<1>6. v \in Vol
  BY <1>4, <1>5 DEF Vol
<1>7. W \in History
  BY Sizes32 DEF History, Nothing
<1>8. Maps(P, at)
  BY DEF Maps
<1>9. D \in Seq(Cluster) /\ Len(D) = 1 /\ D[1] = Root /\ Ran(D) = {Root}
  BY Sizes32 DEF Ran
<1>10. f = [c \in Cluster |-> IF c = Root THEN Eoc ELSE Free]
  BY <1>2, Sizes32
<1>11. Path(f, D)
  <2>1. \A i \in 1 .. 1 : i = 1
    OBVIOUS
  <2>2. Distinct(D) /\ D # <<>>
    BY <1>9, <2>1 DEF Distinct
  <2>3. f[Root] = Eoc
    BY <1>10, Sizes32
  <2>4. \A i \in 1 .. Len(D) : f[D[i]] = IF i = Len(D) THEN Eoc ELSE D[i + 1]
    BY <1>9, <2>1, <2>3
  <2>5. QED
    BY <1>9, <2>2, <2>4 DEF Path
<1> HIDE DEF D, f, b
<1>12. b[Root] = [dir |-> es]
  BY <1>1, Sizes32
<1>13. ASSUME NEW n \in Slots(D) PROVE n \in Nat /\ n >= 1 /\ EntryAt(D, b, n) \in Marks
  <2>1. n \in 1 .. 1 * DirSlots
    BY <1>9, <1>13 DEF Slots
  <2>2. n \in Nat /\ n >= 1 /\ Nth(n) \in 1 .. 1 /\ Sth(n) \in 1 .. DirSlots
    BY <2>1, Places
  <2>3. Nth(n) = 1
    BY <2>2
  <2>4. EntryAt(D, b, n) = es[Sth(n)]
    <3>1. b[D[Nth(n)]] = [dir |-> es]
      BY <1>9, <1>12, <2>3
    <3>2. b[D[Nth(n)]].dir = es
      BY <3>1
    <3>3. QED
      BY <3>2 DEF EntryAt
  <2>5. QED
    BY <1>1, <2>2, <2>4
<1>14. DirLaid(f, b, D)
  <2>1. \A i \in 1 .. Len(D) : b[D[i]] \in DirBlock
    BY <1>3, <1>9, <1>12
  <2>2. QED
    BY <1>9, <1>11, <1>13, <2>1 DEF DirLaid
<1>15. Named(b, D, at, FileName)
  BY <1>13 DEF Named
<1>16. ASSUME NEW x \in FileName PROVE FileLaid(f, b, D, P[x], at[x], x, W[x])
  <2>1. P[x] = <<>> /\ at[x] = 0 /\ W[x].size = 0
    BY DEF Nothing
  <2>2. QED
    BY <2>1 DEF FileLaid
<1>17. Apart(D, P, FileName)
  <2>1. \A x \in FileName : Ran(P[x]) = {}
    BY DEF Ran
  <2>2. QED
    BY <2>1 DEF Apart
<1>18. Laid(v, D, P, at, W, FileName)
  BY <1>14, <1>15, <1>16, <1>17 DEF Laid, f, b
<1>19. Full(v, D, P)
  <2>1. \A k \in Copy : v.fat[k] = v.fat[1]
    BY <1>2, Sizes32
  <2>2. ASSUME NEW c \in Cluster, f[c] # Free PROVE c \in Used(D, P, FileName)
    <3>1. c = Root
      BY <1>10, <2>2
    <3>2. QED
      BY <1>9, <3>1 DEF Used
  <2>3. QED
    BY <2>1, <2>2 DEF Full, f
<1>20. Ready(v, D, P, at, W)
  BY <1>6, <1>7, <1>8, <1>18, <1>19 DEF Ready
<1>21. QED
  BY <1>6, <1>7, <1>20 DEF Sound

(* The invariant holds on a fresh volume. *)
LEMMA FatStarts == FatInit => FatInv
<1> SUFFICES ASSUME FatInit PROVE FatInv
  OBVIOUS
<1>1. Card.fat = fat /\ Card.block = block /\ Card = [fat |-> Card.fat, block |-> Card.block]
  BY DEF Card
<1>2. Fresh(Card)
  BY <1>1 DEF FatInit, Fresh
<1>3. Card \in Vol /\ wrote \in History /\ Sound(Card, wrote)
  BY <1>1, <1>2, FreshSound DEF FatInit
<1>4. pending = <<>> /\ call = Idle /\ version = 0 /\ health = "sound"
  BY DEF FatInit
<1>5. QED
  BY <1>3, <1>4, Sizes32 DEF FatInv

(* A call of write_file begins. *)
LEMMA WriteFileKeeps ==
  ASSUME FatInv, NEW x \in FileName, NEW size \in Sizes, WriteFile(x, size)
  PROVE  FatInv'
<1>0. call = Idle /\ version < MaxWrites /\ version \in 0 .. MaxWrites /\ Sizes \subseteq Nat /\ MaxWrites \in Nat
  BY Sizes32 DEF FatInv, WriteFile
<1> DEFINE z == version + 1
           v == Card
<1>1. z \in 1 .. MaxWrites /\ z \in 0 .. MaxWrites /\ version' = z
  BY <1>0 DEF WriteFile
<1>2. Card' = v /\ wrote' = wrote /\ victim' = victim
  BY DEF WriteFile, Card
<1>3. CASE health # "sound"
  BY <1>1, <1>3 DEF FatInv, WriteFile
<1>4. CASE health = "sound"
  <2>1. v \in Vol /\ wrote \in History /\ Sound(v, wrote)
    BY <1>0, <1>4 DEF FatInv
  <2>2. v.fat[1] = fat[1] /\ v.block = block
    BY DEF Card
  <2> DEFINE es == Searched(v.fat[1], v.block)
  <2>3. PICK plan : plan = WritesIn(v.fat[1], es, Matches(es, x), x, size, z)
    OBVIOUS
  <2>4. plan = WritesOf(x, size, z)
    BY <2>2, <2>3 DEF WritesOf
  <2>5. pending' = plan.ops /\ call' = [name |-> x, size |-> size, version |-> z, fits |-> plan.fits]
    BY <2>4 DEF WriteFile
  <2> HIDE DEF z
  <2>6. size \in Nat
    BY <1>0
  <2>7. Planned(v, plan, wrote, x, size, z)
    BY <1>1, <2>1, <2>3, <2>6, WriteDoes
  <2>8. call'.name = x /\ call'.size = size /\ call'.version = z /\ call'.fits = plan.fits
    BY <2>5
  <2>9. call' # Idle
    BY <1>1, <2>8, Sizes32 DEF Idle
  <2>10. InCall(v, pending', call', wrote)
    BY <1>1, <2>5, <2>6, <2>7, <2>8 DEF InCall, Planned
  <2>11. health' = "sound"
    BY <1>4 DEF WriteFile
  <2>12. QED
    BY <1>1, <1>2, <2>1, <2>9, <2>10, <2>11 DEF FatInv
<1>5. QED
  BY <1>3, <1>4

(* One block of it is written. *)
LEMMA BlockWriteKeeps ==
  ASSUME FatInv, BlockWrite
  PROVE  FatInv'
<1>1. pending # <<>> /\ pending' = Tail(pending) /\ UNCHANGED <<call, version, wrote, health, victim>>
  BY DEF BlockWrite
<1>2. CASE health = "reused"
  BY <1>1, <1>2 DEF FatInv
<1>3. CASE health # "reused"
  <2>1. health = "sound" /\ call # Idle /\ Card \in Vol /\ wrote \in History
    BY <1>1, <1>3 DEF FatInv
  <2>2. InCall(Card, pending, call, wrote)
    BY <2>1 DEF FatInv
  <2>3. Card' = Wrote(Card, Head(pending))
    <3>1. fat' = FatWrote(fat, Head(pending)) /\ block' = BlockWrote(block, Head(pending))
      BY DEF BlockWrite, FatWrote, BlockWrote
    <3>2. Card.fat = fat /\ Card.block = block /\ Card' = [fat |-> fat', block |-> block']
      BY DEF Card
    <3>3. QED
      BY <3>1, <3>2 DEF Wrote
  <2>4. Kept(Card, pending, wrote, call.name) /\ pending \in Seq(Op)
    BY <2>2 DEF InCall, Kept
  <2>5. Card' \in Vol /\ Kept(Card', pending', wrote, call.name)
    BY <1>1, <2>1, <2>3, <2>4, KeptTail
  <2>6. After(Card, pending) = After(Card', pending')
    BY <1>1, <2>1, <2>3, <2>4, TrackTail
  <2>7. InCall(Card', pending', call, wrote)
    BY <2>2, <2>5, <2>6 DEF InCall
  <2>8. QED
    BY <1>1, <2>1, <2>5, <2>7 DEF FatInv
<1>4. QED
  BY <1>2, <1>3

(* It returns, with or without the space it needed. *)
LEMMA ReturnKeeps ==
  ASSUME FatInv, Return
  PROVE  FatInv'
<1>1. call # Idle /\ pending = <<>> /\ call' = Idle /\ pending' = <<>> /\ version' = version
  BY DEF Return
<1>2. Card' = Card
  BY DEF Return, Card
<1>3. CASE health = "reused"
  BY <1>1, <1>3 DEF FatInv, Return, Wound
<1>4. CASE health # "reused"
  <2>1. health = "sound" /\ Card \in Vol /\ wrote \in History
    BY <1>1, <1>4 DEF FatInv
  <2>2. InCall(Card, <<>>, call, wrote)
    BY <1>1, <2>1 DEF FatInv
  <2>3. CASE call.fits
    <3>1. wrote' = Updated(wrote, call.name, call.size, call.version) /\ health' = "sound"
      BY <2>1, <2>3 DEF Return, Updated
    <3>2. Sound(Card, wrote')
      <4>1. Sound(After(Card, <<>>), wrote')
        BY <2>2, <2>3, <3>1 DEF InCall
      <4>2. QED
        BY <2>1, <4>1, NoWrites
    <3>3. wrote' \in History
      BY <3>2 DEF Sound, Ready
    <3>4. QED
      BY <1>1, <1>2, <2>1, <3>1, <3>2, <3>3 DEF FatInv
  <2>4. CASE ~call.fits
    <3>1. wrote' = wrote /\ health' = "wounded" /\ victim' = call.name
      BY <2>1, <2>4 DEF Return, Wound
    <3>2. Good(Card, wrote, call.name)
      BY <2>1, <2>2, KeptHere DEF InCall
    <3>3. QED
      BY <1>1, <1>2, <2>1, <3>1, <3>2 DEF FatInv
  <2>5. QED
    BY <2>3, <2>4
<1>5. QED
  BY <1>3, <1>4

(* Power goes, or the card fails, before any of its writes. *)
LEMMA CutShortKeeps ==
  ASSUME FatInv, CutShort
  PROVE  FatInv'
<1>1. /\ pending # <<>> /\ call' = Idle /\ pending' = <<>> /\ version' = version /\ wrote' = wrote
      /\ Card' = Card
  BY DEF CutShort, Card
<1>2. CASE health = "reused"
  BY <1>1, <1>2 DEF FatInv, CutShort, Wound
<1>3. CASE health # "reused"
  <2>1. health = "sound" /\ call # Idle /\ Card \in Vol /\ wrote \in History
    BY <1>1, <1>3 DEF FatInv
  <2>2. InCall(Card, pending, call, wrote)
    BY <2>1 DEF FatInv
  <2>3. Good(Card, wrote, call.name)
    BY <2>1, <2>2, KeptHere DEF InCall
  <2>4. health' = "wounded" /\ victim' = call.name
    BY <2>1 DEF CutShort, Wound
  <2>5. QED
    BY <1>1, <2>1, <2>3, <2>4 DEF FatInv
<1>4. QED
  BY <1>2, <1>3

(* Every step keeps the invariant. *)
LEMMA VolumeStep == FatInv /\ [FatNext]_fatVars => FatInv'
<1> SUFFICES ASSUME FatInv, [FatNext]_fatVars PROVE FatInv'
  OBVIOUS
<1>1. CASE UNCHANGED fatVars
  BY <1>1 DEF FatInv, fatVars, Card
<1>2. CASE Reads
  BY <1>2 DEF Reads, FatInv, fatVars, Card
<1>3. CASE \E x \in FileName, size \in Sizes : WriteFile(x, size)
  BY <1>3, WriteFileKeeps
<1>4. CASE BlockWrite
  BY <1>4, BlockWriteKeeps
<1>5. CASE Return
  BY <1>5, ReturnKeeps
<1>6. CASE CutShort
  BY <1>6, CutShortKeeps
<1>7. QED
  BY <1>1, <1>2, <1>3, <1>4, <1>5, <1>6 DEF FatNext

(* The volume that src/fat32.rs writes keeps the invariant, for every      *)
(* number of clusters, FAT copies and files, every size and every sequence *)
(* of calls, wherever the first failure falls.                             *)
THEOREM FatInvariant == FatSpec => []FatInv
  BY FatStarts, VolumeStep, PTL DEF FatSpec

-----------------------------------------------------------------------------
(* What a search looks at is a list. *)
LEMMA SearchedList ==
  ASSUME NEW f, NEW b, NEW D, DirLaid(f, b, D)
  PROVE  \E A : Searched(f, b) \in Seq(A)
<1>0. PICK T \in Nat : T = Len(D) * DirSlots
  BY DirFacts
<1>1. Chain(f, Root) = D
  <2>1. Path(f, D) /\ D[1] = Root
    BY DEF DirLaid
  <2>2. QED
    BY <2>1, ChainAlong
<1> DEFINE es == EntriesAlong(D, b)
           A == {es[n] : n \in 1 .. T}
<1>2. es = [n \in 1 .. T |-> es[n]] /\ DOMAIN es = 1 .. T
  BY <1>0 DEF EntriesAlong
<1>3. Searched(f, b) = UpToEnd(es)
  BY <1>1 DEF Searched
<1> HIDE DEF es
<1>4. es \in Seq(A)
  <2>1. es \in [1 .. T -> A]
    BY <1>2
  <2>2. QED
    BY <2>1, SeqDef
<1> DEFINE ends == {n \in DOMAIN es : es[n].entry = End}
<1>5. CASE ends = {}
  BY <1>3, <1>4, <1>5 DEF UpToEnd
<1>6. CASE ends # {}
  <2>1. ends \subseteq Nat
    BY <1>2
  <2>2. PICK K \in ends : K = Min(ends)
    BY <1>6, <2>1, MinIn
  <2>3. K \in 1 .. T
    BY <1>2, <2>2
  <2>4. \A i \in 1 .. K : es[i] \in A
    BY <2>3
  <2> HIDE DEF A
  <2>5. SubSeq(es, 1, K) \in Seq(A)
    BY <2>3, <2>4, SubSeqProperties
  <2>6. QED
    BY <1>3, <1>6, <2>2, <2>5 DEF UpToEnd
<1>7. QED
  BY <1>5, <1>6

EntryNow(P, W, x) == [name |-> x, first |-> P[x][1], size |-> W[x].size]
Present(at) == {x \in FileName : at[x] # 0}

PresentLaid(v, D, P, at, W) ==
  /\ \A x \in Present(at) : /\ Path(v.fat[1], P[x]) /\ Len(P[x]) = Max({1, W[x].size})
                            /\ at[x] \in Slots(D) /\ EntryAt(D, v.block, at[x]) = EntryNow(P, W, x)
  /\ \A x \in FileName \ Present(at) : P[x] = <<>>

(* A file with an entry is laid out, one without has no clusters. *)
LEMMA PresentFacts ==
  ASSUME NEW v, NEW D, NEW P, NEW at, NEW W, Ready(v, D, P, at, W)
  PROVE  PresentLaid(v, D, P, at, W)
<1>1. \A x \in FileName : FileLaid(v.fat[1], v.block, D, P[x], at[x], x, W[x])
  BY DEF Ready, Laid
<1>2. 0 \notin Slots(D)
  <2>1. DirLaid(v.fat[1], v.block, D)
    BY DEF Ready, Laid
  <2>2. QED
    BY <2>1, DirFacts DEF Slots
<1>3. QED
  BY <1>1, <1>2 DEF FileLaid, Present, EntryNow, PresentLaid

(* list_dir gives the entries of the files that are present. *)
LEMMA FilesAre ==
  ASSUME NEW v, NEW D, NEW P, NEW at, NEW W, Ready(v, D, P, at, W),
         NEW list, list = ListDir(v.fat[1], v.block)
  PROVE  {list[n].entry : n \in DOMAIN list} = {EntryNow(P, W, x) : x \in Present(at)}
<1> DEFINE f == v.fat[1]
           b == v.block
           es == Searched(f, b)
           S == {es[n] : n \in Live(es)}
<1>1. DirLaid(f, b, D) /\ Named(b, D, at, FileName) /\ Maps(P, at)
  BY DEF Ready, Laid
<1>2. list = Among(es, S)
  BY DEF ListDir
<1>3. PICK K \in Nat :
         /\ DOMAIN es = 1 .. K /\ K >= 1 /\ K <= Len(D) * DirSlots
         /\ \A n \in 1 .. K : es[n] = EntryFor(D, b, n)
         /\ \A n \in Slots(D) : n > K => EntryAt(D, b, n) \in Marks
  BY <1>1, SearchedAre
<1>4. PICK A : es \in Seq(A)
  BY <1>1, SearchedList
<1>5. \A x \in Present(at) : at[x] \in Slots(D) /\ EntryAt(D, b, at[x]) = EntryNow(P, W, x) /\ Path(f, P[x])
  <2>1. PresentLaid(v, D, P, at, W)
    BY PresentFacts
  <2>2. QED
    BY <2>1 DEF PresentLaid
<1>6. \A n \in 1 .. K : n \in Slots(D) /\ es[n].entry = EntryAt(D, b, n)
  <2> SUFFICES ASSUME NEW n \in 1 .. K PROVE n \in Slots(D) /\ es[n].entry = EntryAt(D, b, n)
    OBVIOUS
  <2>1. n \in Slots(D)
    BY <1>1, <1>3, DirFacts DEF Slots
  <2>2. es[n] = EntryFor(D, b, n)
    BY <1>3
  <2>3. QED
    BY <2>1, <2>2 DEF EntryFor
<1> HIDE DEF f, b, es
<1>7. Len(es) = K
  BY <1>3, <1>4, LenProperties
<1>8. Live(es) = {n \in 1 .. K : EntryAt(D, b, n) \notin Marks}
  BY <1>3, <1>6 DEF Live
<1>9. \A n \in Live(es) : \E x \in Present(at) : n = at[x]
  <2> SUFFICES ASSUME NEW n \in Live(es) PROVE \E x \in Present(at) : n = at[x]
    OBVIOUS
  <2>1. n \in 1 .. K /\ n \in Slots(D) /\ EntryAt(D, b, n) \notin Marks
    BY <1>6, <1>8
  <2>2. EntryAt(D, b, n) \in FileEntry
    BY <1>1, <2>1, DirFacts
  <2>3. EntryAt(D, b, n).name \in FileName
    BY <2>2, NotMark
  <2>4. at[EntryAt(D, b, n).name] = n
    BY <1>1, <2>1, <2>3 DEF Named
  <2>5. n # 0
    BY <2>1
  <2>6. QED
    BY <2>3, <2>4, <2>5 DEF Present
<1>10. \A x \in Present(at) : at[x] \in Live(es)
  <2> SUFFICES ASSUME NEW x \in Present(at) PROVE at[x] \in Live(es)
    OBVIOUS
  <2>1. at[x] \in Slots(D) /\ EntryAt(D, b, at[x]) = EntryNow(P, W, x) /\ Path(f, P[x])
    BY <1>5
  <2>2. P[x][1] # 0
    BY <2>1, PathFacts
  <2>3. EntryAt(D, b, at[x]) \notin Marks
    BY <2>1, <2>2 DEF EntryNow, Marks, End, Deleted, Skipped, Mark
  <2>4. at[x] \in Nat /\ at[x] >= 1
    BY <1>1, <2>1, DirFacts
  <2>5. at[x] \in 1 .. K
    BY <1>3, <2>1, <2>3, <2>4
  <2>6. QED
    BY <1>8, <2>3, <2>5
<1> HIDE DEF S
<1>11. /\ list \in Seq(A)
       /\ \A m \in 1 .. Len(list) : \E n \in 1 .. Len(es) : list[m] = es[n] /\ es[n] \in S
  BY <1>2, <1>4, AmongIn
<1>12. \A i \in 1 .. Len(es) : es[i] \in S => \E m \in 1 .. Len(list) : list[m] = es[i]
  BY <1>2, <1>4, AmongKeeps
<1>13. DOMAIN list = 1 .. Len(list)
  BY <1>11, LenProperties
<1>14. \A m \in DOMAIN list : \E n \in Live(es) : list[m] = es[n]
  BY <1>11, <1>13 DEF S
<1>15. \A n \in Live(es) : \E m \in DOMAIN list : list[m] = es[n]
  BY <1>7, <1>8, <1>12, <1>13 DEF S
<1>16. \A n \in Live(es) : es[n].entry = EntryAt(D, b, n)
  BY <1>6, <1>8
<1>17. ASSUME NEW m \in DOMAIN list PROVE \E x \in Present(at) : list[m].entry = EntryNow(P, W, x)
  <2>1. PICK n \in Live(es) : list[m] = es[n]
    BY <1>14
  <2>2. PICK x \in Present(at) : n = at[x]
    BY <1>9
  <2>3. QED
    BY <1>5, <1>16, <2>1, <2>2
<1>18. ASSUME NEW x \in Present(at) PROVE \E m \in DOMAIN list : list[m].entry = EntryNow(P, W, x)
  <2>1. at[x] \in Live(es)
    BY <1>10
  <2>2. PICK m \in DOMAIN list : list[m] = es[at[x]]
    BY <1>15, <2>1
  <2>3. QED
    BY <1>5, <1>16, <2>1, <2>2
<1>19. QED
  BY <1>17, <1>18

(* A chain without repetition has as many clusters as it is long. *)
LEMMA RanCount ==
  ASSUME NEW p \in Seq(Cluster), Distinct(p)
  PROVE  Cardinality(Ran(p)) = Len(p)
<1>1. PICK N \in Nat : N = Len(p) /\ p \in [1 .. N -> Cluster]
  BY LenProperties
<1>2. p \in [1 .. N -> Ran(p)]
  BY <1>1 DEF Ran
<1>3. p \in Bijection(1 .. N, Ran(p))
  <2>1. p \in Injection(1 .. N, Ran(p))
    BY <1>1, <1>2 DEF Distinct, Injection, IsInjective
  <2>2. p \in Surjection(1 .. N, Ran(p))
    BY <1>1, <1>2 DEF Ran, Surjection
  <2>3. QED
    BY <2>1, <2>2 DEF Bijection
<1>4. ExistsBijection(1 .. N, Ran(p))
  BY <1>3 DEF ExistsBijection
<1>5. IsFiniteSet(1 .. N) /\ Cardinality(1 .. N) = N
  BY FS_Interval
<1>6. QED
  BY <1>1, <1>4, <1>5, FS_Bijection

(* What VolumeExact and ReadsLastWrite say of a volume. *)
ChainSet(f, c) == {Chain(f, c)[n] : n \in DOMAIN Chain(f, c)}

(* The clusters of a chain are those of its path. *)
LEMMA ChainSetIs ==
  ASSUME NEW f, NEW p, Path(f, p)
  PROVE  ChainSet(f, p[1]) = Ran(p)
<1>1. Chain(f, p[1]) = p
  BY ChainAlong
<1>2. DOMAIN p = 1 .. Len(p)
  BY PathFacts
<1>3. QED
  BY <1>1, <1>2 DEF ChainSet, Ran

(* A volume that is laid out is exact. *)
LEMMA ExactVolume ==
  ASSUME Sound(Card, wrote)
  PROVE  /\ \A k \in Copy : fat[k] = fat[1]
         /\ Allocated = ClustersOf(Root) \cup UNION {ClustersOf(e.first) : e \in FilesOn}
         /\ \A e \in FilesOn :
              /\ Cardinality(ClustersOf(e.first)) = Max({1, e.size})
              /\ ClustersOf(e.first) \cap ClustersOf(Root) = {}
              /\ \A d \in FilesOn \ {e} : ClustersOf(e.first) \cap ClustersOf(d.first) = {}
<1>0. PICK D, P, at : Ready(Card, D, P, at, wrote)
  BY DEF Sound
<1>1. Card.fat = fat /\ Card.block = block
  BY DEF Card
<1> DEFINE f == fat[1]
           E(x) == EntryNow(P, wrote, x)
<1>2. /\ Maps(P, at) /\ Laid(Card, D, P, at, wrote, FileName)
      /\ \A k \in Copy : fat[k] = f
      /\ \A c \in Cluster : f[c] # Free => c \in Used(D, P, FileName)
  BY <1>0, <1>1 DEF Ready, Full
<1>3. PresentLaid(Card, D, P, at, wrote)
  BY <1>0, PresentFacts
<1>4. FilesOn = {E(x) : x \in Present(at)}
  <2>1. PICK list : list = ListDir(Card.fat[1], Card.block)
    OBVIOUS
  <2>2. {list[n].entry : n \in DOMAIN list} = {EntryNow(P, wrote, x) : x \in Present(at)}
    BY <1>0, <2>1, FilesAre
  <2>3. FilesOn = {list[n].entry : n \in DOMAIN list}
    BY <1>1, <2>1 DEF FilesOn
  <2>4. QED
    BY <2>2, <2>3
<1>5. \A c : ClustersOf(c) = ChainSet(f, c)
  BY DEF ClustersOf, ChainSet
<1>6. ClustersOf(Root) = Ran(D)
  <2>1. Path(f, D) /\ D[1] = Root
    BY <1>1, <1>2 DEF Laid, DirLaid
  <2>2. ChainSet(f, D[1]) = Ran(D)
    BY <2>1, ChainSetIs
  <2>3. QED
    BY <1>5, <2>1, <2>2
<1>7. \A x \in Present(at) : /\ x \in FileName /\ E(x).first = P[x][1] /\ E(x).size = wrote[x].size
                             /\ ClustersOf(E(x).first) = Ran(P[x])
                             /\ Cardinality(Ran(P[x])) = Max({1, E(x).size})
  <2> SUFFICES ASSUME NEW x \in Present(at)
               PROVE  /\ x \in FileName /\ E(x).first = P[x][1] /\ E(x).size = wrote[x].size
                      /\ ClustersOf(E(x).first) = Ran(P[x])
                      /\ Cardinality(Ran(P[x])) = Max({1, E(x).size})
    OBVIOUS
  <2>1. Path(f, P[x]) /\ Len(P[x]) = Max({1, wrote[x].size})
    BY <1>1, <1>3 DEF PresentLaid
  <2>2. E(x).first = P[x][1] /\ E(x).size = wrote[x].size
    BY DEF EntryNow
  <2>3. ChainSet(f, P[x][1]) = Ran(P[x])
    BY <2>1, ChainSetIs
  <2>4. P[x] \in Seq(Cluster) /\ Distinct(P[x])
    BY <2>1 DEF Path
  <2>5. Cardinality(Ran(P[x])) = Len(P[x])
    BY <2>4, RanCount
  <2>6. QED
    BY <1>5, <2>1, <2>2, <2>3, <2>5 DEF Present
<1>8. \A x \in FileName \ Present(at) : Ran(P[x]) = {}
  BY <1>3 DEF PresentLaid, Ran
<1> HIDE DEF E
<1>9. Allocated = ClustersOf(Root) \cup UNION {ClustersOf(e.first) : e \in FilesOn}
  <2>1. Allocated = Used(D, P, FileName)
    <3>1. Used(D, P, FileName) \subseteq Cluster /\ \A c \in Used(D, P, FileName) : f[c] # Free
      BY <1>1, <1>2, UsedFacts
    <3>2. QED
      BY <1>2, <3>1 DEF Allocated
  <2>2. UNION {ClustersOf(e.first) : e \in FilesOn} = UNION {Ran(P[x]) : x \in Present(at)}
    <3>1. \A e \in FilesOn : \E x \in Present(at) : ClustersOf(e.first) = Ran(P[x])
      BY <1>4, <1>7
    <3>2. \A x \in Present(at) : \E e \in FilesOn : ClustersOf(e.first) = Ran(P[x])
      BY <1>4, <1>7
    <3>3. QED
      BY <3>1, <3>2
  <2>3. UNION {Ran(P[x]) : x \in Present(at)} = UNION {Ran(P[x]) : x \in FileName}
    BY <1>8 DEF Present
  <2>4. QED
    BY <1>6, <2>1, <2>2, <2>3 DEF Used
<1>10. ASSUME NEW e \in FilesOn
       PROVE  /\ Cardinality(ClustersOf(e.first)) = Max({1, e.size})
              /\ ClustersOf(e.first) \cap ClustersOf(Root) = {}
              /\ \A d \in FilesOn \ {e} : ClustersOf(e.first) \cap ClustersOf(d.first) = {}
  <2>1. PICK x \in Present(at) : e = E(x)
    BY <1>4
  <2>2. Apart(D, P, FileName)
    BY <1>2 DEF Laid
  <2>3. ASSUME NEW d \in FilesOn \ {e} PROVE ClustersOf(e.first) \cap ClustersOf(d.first) = {}
    <3>1. PICK y \in Present(at) : d = E(y)
      BY <1>4
    <3>2. x # y
      BY <2>1, <3>1
    <3>3. QED
      BY <1>7, <2>1, <2>2, <3>1, <3>2 DEF Apart
  <2>4. ClustersOf(e.first) = Ran(P[x]) /\ Cardinality(Ran(P[x])) = Max({1, e.size}) /\ x \in FileName
    BY <1>7, <2>1
  <2>5. QED
    BY <1>6, <2>2, <2>3, <2>4 DEF Apart
<1>11. QED
  BY <1>2, <1>9, <1>10

(* Every file of a volume that is laid out reads back. *)
LEMMA ReadsBackAll ==
  ASSUME Sound(Card, wrote), NEW name \in FileName
  PROVE  /\ Cardinality(Matches(Searched(fat[1], block), name)) <= 1
         /\ ReadFile(fat[1], block, name) = Expected(name)
<1>0. PICK D, P, at : Ready(Card, D, P, at, wrote)
  BY DEF Sound
<1>1. Card.fat = fat /\ Card.block = block
  BY DEF Card
<1>2. wrote \in History /\ Laid(Card, D, P, at, wrote, FileName)
  BY <1>0 DEF Ready
<1>3. Matches(Searched(fat[1], block), name) = IF at[name] = 0 THEN {} ELSE {at[name]}
  BY <1>1, <1>2, MatchesAre
<1>4. Cardinality(Matches(Searched(fat[1], block), name)) <= 1
  <2>1. Cardinality({}) = 0
    BY FS_EmptySet
  <2>2. Cardinality({at[name]}) = 1
    BY FS_Singleton
  <2>3. QED
    BY <1>3, <2>1, <2>2
<1>5. ReadFile(Card.fat[1], Card.block, name) = Expect(wrote[name], name)
  BY <1>2, ReadsBack
<1>6. QED
  BY <1>1, <1>4, <1>5 DEF Expect, Expected

(* As long as every write_file has run to its end, the chains of the root  *)
(* and the files are disjoint, as long as their files and all that is      *)
(* allocated, and the FAT copies agree: resize_chain and allocate_chain    *)
(* neither leak nor share a cluster.                                       *)
THEOREM VolumeStaysExact == FatSpec => []VolumeExact
<1>1. FatInv => VolumeExact
  BY ExactVolume DEF FatInv, VolumeExact
<1>2. QED
  BY <1>1, FatInvariant, PTL

(* read_file gives back what the last completed write_file wrote, for      *)
(* every file, and no name is listed twice.                                *)
THEOREM ReadsGiveLastWrite == FatSpec => []ReadsLastWrite
<1>1. FatInv => ReadsLastWrite
  BY ReadsBackAll DEF FatInv, ReadsLastWrite
<1>2. QED
  BY <1>1, FatInvariant, PTL

(* At every block write of a call, and after the first one that is cut     *)
(* short or runs out of space, every file but the one being written still  *)
(* reads as last written.                                                  *)
THEOREM BystandersStayIntact == FatSpec => []BystandersIntact
<1>1. FatInv => BystandersIntact
  <2> SUFFICES ASSUME FatInv, health # "reused", NEW name \in FileName \ {call.name, victim}
               PROVE  ReadFile(fat[1], block, name) = Expected(name)
    BY DEF BystandersIntact
  <2>1. Card.fat = fat /\ Card.block = block /\ Card \in Vol
    BY DEF Card, FatInv
  <2>2. Expect(wrote[name], name) = Expected(name)
    BY DEF Expect, Expected
  <2>3. CASE health = "sound" /\ call = Idle
    BY <2>3, ReadsBackAll DEF FatInv
  <2>4. CASE health = "sound" /\ call # Idle
    <3>1. Kept(Card, pending, wrote, call.name)
      BY <2>4 DEF FatInv, InCall
    <3>2. Good(Card, wrote, call.name)
      BY <2>1, <3>1, KeptHere
    <3>3. QED
      BY <2>1, <2>2, <3>2 DEF Good
  <2>5. CASE health = "wounded"
    <3>1. Good(Card, wrote, victim)
      BY <2>5 DEF FatInv
    <3>2. QED
      BY <2>1, <2>2, <3>1 DEF Good
  <2>6. QED
    BY <2>3, <2>4, <2>5 DEF FatInv
<1>2. QED
  BY <1>1, FatInvariant, PTL

-----------------------------------------------------------------------------
(* The file protocol. *)

Listed == RootName \cup {".", "..", Inner}
Handle == RootName \cup {NotDir, RootDir}
Owner == RootName \cup {Inner, "none"}

OpenFile ==
  [in_use : BOOLEAN, dir : Handle, parent : Handle, name : Owner, data : [1 .. MaxFile -> Byte],
   len : 0 .. MaxFile, pos : 0 .. MaxFile, dirty : BOOLEAN, for_write : BOOLEAN,
   list : Seq(Listed), index : Nat]

(* A slot opened for writing is a file of the root directory's and holds   *)
(* no other's bytes.                                                       *)
Own(f) ==
  f.for_write => f.parent = RootDir /\ f.name \in RootName /\ \A k \in 1 .. MaxFile : f.data[k] \in {Zero, f.name}

Slot(f) == f \in OpenFile /\ f.index <= Len(f.list) /\ Own(f)

Held(f) == SubSeq(f.data, 1, f.len)

(* A plain file the card has not changed under is a root file's and, with  *)
(* nothing to write back, holds what volume d holds.                       *)
Coherent(f, d) ==
  f.in_use /\ f.dir = NotDir =>
    f.name \in RootName /\ (~f.dirty => Held(f) = ReadBack(d[f.name].data))

EntryOf(n) == [kind : Kind, data : Seq({Zero, n})]

(* The inductive invariant: every slot, in use or not, is well formed and  *)
(* its own, every entry holds its own bytes, and a slot outside stale is   *)
(* coherent.                                                               *)
DiskInv == disk \in Volume /\ \A n \in RootName : disk[n] \in EntryOf(n)
SlotInv == files \in [Opened -> OpenFile] /\ \A i \in Opened : Slot(files[i])
CacheInv == \A i \in Opened \ stale : Coherent(files[i], disk)
Inv == DiskInv /\ SlotInv /\ CacheInv /\ stale \subseteq Opened /\ calls \in 0 .. MaxCalls

-----------------------------------------------------------------------------
(* The bounds of the model are naturals, and no name is a tag. *)
LEMMA Bounds ==
  /\ MaxOpen \in Nat /\ MaxFile \in Nat /\ MaxEntries \in Nat /\ MaxCalls \in Nat
  /\ Opened \subseteq Nat
  /\ \A n \in RootName : n # "none" /\ n # NotDir /\ n # RootDir
<1>1. MaxOpen \in Nat /\ MaxFile \in Nat /\ MaxEntries \in Nat /\ MaxCalls \in Nat
  BY FileAssumption
<1>2. Opened \subseteq Nat
  BY <1>1 DEF Opened
<1>3. \A n \in RootName : n # "none" /\ n # NotDir /\ n # RootDir
  BY FileAssumption
<1>4. QED
  BY <1>1, <1>2, <1>3

(* The smaller and the greater of two numbers. *)
LEMMA MinPair ==
  ASSUME NEW a \in Nat, NEW b \in Nat
  PROVE  /\ Min({a, b}) \in Nat /\ Min({a, b}) <= a /\ Min({a, b}) <= b
         /\ Min({a, b}) \in {a, b} /\ (b <= a => Min({a, b}) = b)
<1>1. {a, b} \subseteq Nat /\ {a, b} # {}
  OBVIOUS
<1>2. Min({a, b}) \in {a, b} /\ \A y \in {a, b} : Min({a, b}) <= y
  BY <1>1, MinIn
<1>3. QED
  BY <1>2

LEMMA MaxPair ==
  ASSUME NEW a \in Nat, NEW b \in Nat
  PROVE  Max({a, b}) \in {a, b}
<1>1. \E x \in {a, b} : \A y \in {a, b} : x >= y
  OBVIOUS
<1>2. QED
  BY <1>1 DEF Max

(* The first len elements of f. *)
LEMMA Prefix ==
  ASSUME NEW S, NEW f, NEW len \in Nat, \A k \in 1 .. len : f[k] \in S
  PROVE  /\ SubSeq(f, 1, len) \in Seq(S) /\ Len(SubSeq(f, 1, len)) = len
         /\ \A k \in 1 .. len : SubSeq(f, 1, len)[k] = f[k]
<1>1. /\ SubSeq(f, 1, len) \in Seq(S)
      /\ Len(SubSeq(f, 1, len)) = IF 1 <= len THEN len - 1 + 1 ELSE 0
      /\ \A k \in 1 .. len - 1 + 1 : SubSeq(f, 1, len)[k] = f[1 + k - 1]
  BY SubSeqProperties
<1>2. Len(SubSeq(f, 1, len)) = len
  BY <1>1
<1>3. \A k \in 1 .. len : SubSeq(f, 1, len)[k] = f[k]
  BY <1>1
<1>4. QED
  BY <1>1, <1>2, <1>3

(* read_file fills the buffer with the file's own bytes, all of them when  *)
(* they fit.                                                               *)
LEMMA ReadBackPrefix ==
  ASSUME NEW S, NEW d \in Seq(S)
  PROVE  /\ ReadBack(d) \in Seq(S) /\ Len(ReadBack(d)) \in 0 .. MaxFile
         /\ Len(d) <= MaxFile => ReadBack(d) = d
<1> DEFINE m == Min({MaxFile, Len(d)})
<1>1. MaxFile \in Nat /\ Len(d) \in Nat
  BY Bounds
<1>2. /\ m \in Nat /\ m <= MaxFile /\ m <= Len(d) /\ (Len(d) <= MaxFile => m = Len(d))
  BY <1>1, MinPair
<1>3. ReadBack(d) = SubSeq(d, 1, m)
  BY DEF ReadBack
<1> HIDE DEF m
<1>4. \A k \in 1 .. m : d[k] \in S
  BY <1>1, <1>2, ElementOfSeq
<1>5. ReadBack(d) \in Seq(S) /\ Len(ReadBack(d)) = m
  BY <1>2, <1>3, <1>4, Prefix
<1>6. Len(d) <= MaxFile => ReadBack(d) = d
  BY <1>2, <1>3, SubSeqFull
<1>7. QED
  BY <1>1, <1>2, <1>5, <1>6

-----------------------------------------------------------------------------
(* The slots alloc_slot and its callers fill. *)
LEMMA EmptySlot ==
  /\ Slot(EMPTY_FILE) /\ ~EMPTY_FILE.in_use
<1>1. EMPTY_FILE \in OpenFile
  BY Bounds DEF EMPTY_FILE, OpenFile, Handle, Owner, Byte
<1>2. EMPTY_FILE.index <= Len(EMPTY_FILE.list)
  BY DEF EMPTY_FILE
<1>3. QED
  BY <1>1, <1>2 DEF Slot, Own, EMPTY_FILE

LEMMA DirSlot ==
  ASSUME NEW dir \in Handle, dir # NotDir, NEW list \in Seq(Listed)
  PROVE  LET f == [EMPTY_FILE EXCEPT !.in_use = TRUE, !.dir = dir, !.list = list]
         IN  Slot(f) /\ f.dir # NotDir
<1> DEFINE f == [EMPTY_FILE EXCEPT !.in_use = TRUE, !.dir = dir, !.list = list]
<1>1. EMPTY_FILE \in OpenFile /\ EMPTY_FILE.index = 0 /\ ~EMPTY_FILE.for_write
  BY EmptySlot DEF Slot, EMPTY_FILE
<1>2. f \in OpenFile /\ f.dir = dir /\ f.list = list /\ f.index = 0 /\ ~f.for_write
  BY <1>1 DEF OpenFile
<1> HIDE DEF f
<1>3. f.index <= Len(f.list)
  BY <1>2
<1>4. Slot(f) /\ f.dir # NotDir
  BY <1>2, <1>3 DEF Slot, Own
<1>5. QED
  BY <1>4 DEF f

LEMMA LoadedSlot ==
  ASSUME NEW dir \in Handle, NEW name \in RootName \cup {Inner}, NEW data \in Seq(Byte),
         NEW w \in BOOLEAN, Len(data) <= MaxFile,
         w => dir = RootDir /\ name \in RootName /\ data \in Seq({Zero, name})
  PROVE  /\ Slot(Loaded(dir, name, data, w))
         /\ Held(Loaded(dir, name, data, w)) = data
         /\ Loaded(dir, name, data, w).name = name
<1> DEFINE f == Loaded(dir, name, data, w)
           bytes == [n \in 1 .. MaxFile |-> IF n <= Len(data) THEN data[n] ELSE Zero]
<1>0. MaxFile \in Nat /\ Len(data) \in Nat
  BY Bounds
<1>1. bytes \in [1 .. MaxFile -> Byte]
  <2>1. \A n \in 1 .. MaxFile : n <= Len(data) => data[n] \in Byte
    BY <1>0, ElementOfSeq
  <2>2. Zero \in Byte
    BY DEF Byte
  <2>3. QED
    BY <2>1, <2>2
<1>2. \A k \in 1 .. Len(data) : bytes[k] = data[k]
  BY <1>0
<1>3. w => \A k \in 1 .. MaxFile : bytes[k] \in {Zero, name}
  <2> SUFFICES ASSUME w, NEW k \in 1 .. MaxFile PROVE bytes[k] \in {Zero, name}
    OBVIOUS
  <2>1. k <= Len(data) => data[k] \in {Zero, name}
    BY <1>0, ElementOfSeq
  <2>2. QED
    BY <2>1
<1>4. f = [EMPTY_FILE EXCEPT !.in_use = TRUE, !.parent = dir, !.name = name, !.len = Len(data),
                             !.for_write = w, !.data = bytes]
  BY DEF Loaded
<1> HIDE DEF bytes, f
<1>5. EMPTY_FILE \in OpenFile /\ EMPTY_FILE.index = 0 /\ EMPTY_FILE.index <= Len(EMPTY_FILE.list)
  BY EmptySlot DEF Slot, EMPTY_FILE
<1>6. Len(data) \in 0 .. MaxFile /\ name \in Owner
  BY <1>0 DEF Owner
<1>7. f \in OpenFile
  BY <1>1, <1>4, <1>5, <1>6 DEF OpenFile
<1>8. /\ f.parent = dir /\ f.name = name /\ f.for_write = w /\ f.data = bytes /\ f.len = Len(data)
      /\ f.index = EMPTY_FILE.index /\ f.list = EMPTY_FILE.list
  BY <1>4, <1>5 DEF OpenFile
<1>9. Slot(f)
  BY <1>3, <1>5, <1>7, <1>8 DEF Slot, Own
<1>10. Held(f) = data
  <2>1. \A k \in 1 .. Len(data) : bytes[k] \in Byte
    BY <1>2, ElementOfSeq
  <2>2. /\ Held(f) \in Seq(Byte) /\ Len(Held(f)) = Len(data)
        /\ \A k \in 1 .. Len(data) : Held(f)[k] = bytes[k]
    BY <1>0, <1>8, <2>1, Prefix DEF Held
  <2>3. \A k \in 1 .. Len(Held(f)) : Held(f)[k] = data[k]
    BY <1>2, <2>2
  <2>4. QED
    BY <2>2, <2>3, SeqEqual
<1>11. QED
  BY <1>8, <1>9, <1>10 DEF f

(* Write's n bytes are the file's own. *)
LEMMA OverwriteSlot ==
  ASSUME NEW f, Slot(f), NEW n \in Nat, Writable(f, n)
  PROVE  /\ Slot(Overwrite(f, n)) /\ Overwrite(f, n).dirty
         /\ Overwrite(f, n).name = f.name
<1> DEFINE bytes == [k \in 1 .. MaxFile |->
                       IF f.pos < k /\ k <= f.pos + n THEN f.name ELSE f.data[k]]
           end == f.pos + n
           len == Max({f.len, end})
<1>1. f \in OpenFile /\ f.index <= Len(f.list) /\ Own(f) /\ f.for_write /\ end <= MaxFile
  BY DEF Slot, Writable
<1>2. MaxFile \in Nat /\ f.pos \in 0 .. MaxFile /\ f.len \in 0 .. MaxFile
      /\ f.data \in [1 .. MaxFile -> Byte]
  BY <1>1, Bounds DEF OpenFile
<1>3. end \in 0 .. MaxFile
  BY <1>1, <1>2
<1>4. len \in 0 .. MaxFile
  <2>1. len \in {f.len, end}
    BY <1>2, <1>3, MaxPair
  <2>2. QED
    BY <1>2, <1>3, <2>1
<1>5. /\ f.parent = RootDir /\ f.name \in RootName
      /\ \A k \in 1 .. MaxFile : f.data[k] \in {Zero, f.name}
  BY <1>1 DEF Own
<1>6. bytes \in [1 .. MaxFile -> Byte] /\ \A k \in 1 .. MaxFile : bytes[k] \in {Zero, f.name}
  <2>1. \A k \in 1 .. MaxFile : bytes[k] \in {Zero, f.name}
    BY <1>5
  <2>2. \A k \in 1 .. MaxFile : bytes[k] \in Byte
    BY <1>5, <2>1 DEF Byte
  <2>3. QED
    BY <2>1, <2>2
<1> DEFINE g == [f EXCEPT !.data = bytes, !.pos = end, !.len = len, !.dirty = TRUE]
<1>7. Overwrite(f, n) = g
  BY DEF Overwrite
<1> HIDE DEF bytes, end, len
<1>8. g \in OpenFile
  BY <1>1, <1>3, <1>4, <1>6 DEF OpenFile
<1>9. /\ g.dirty /\ g.name = f.name /\ g.for_write = f.for_write /\ g.parent = f.parent
      /\ g.data = bytes /\ g.index = f.index /\ g.list = f.list
  BY <1>1 DEF OpenFile
<1> HIDE DEF g
<1>10. Slot(g)
  BY <1>1, <1>5, <1>6, <1>8, <1>9 DEF Slot, Own
<1>11. QED
  BY <1>7, <1>9, <1>10

(* What write_file leaves behind, whether it fails or not, is made of the  *)
(* bytes it was given and the ones that were there.                        *)
LEMMA FailedEntry ==
  ASSUME DiskInv, NEW name \in RootName, NEW data \in Seq({Zero, name}),
         NEW e \in Failed(name, data)
  PROVE  e \in EntryOf(name)
<1> DEFINE old == disk[name].data
           Mixed(cut) == [n \in 1 .. Len(old) |->
                            IF n <= cut /\ n <= Len(data) THEN data[n] ELSE old[n]]
           Left(cut, len) == [disk[name] EXCEPT !.data = SubSeq(Mixed(cut), 1, len)]
<1>1. disk[name] \in EntryOf(name)
  BY DEF DiskInv
<1>2. old \in Seq({Zero, name}) /\ Len(old) \in Nat /\ Len(data) \in Nat
  BY <1>1 DEF EntryOf
<1>3. PICK cut \in 0 .. Len(old), len \in Min({Len(data), Len(old)}) .. Len(old) :
        e = Left(cut, len)
  <2> DEFINE A == 0 .. Len(old)
             B == Min({Len(data), Len(old)}) .. Len(old)
  <2>1. Failed(name, data) = {Left(cut, len) : cut \in A, len \in B}
    BY DEF Failed
  <2> HIDE DEF Left, A, B
  <2>2. \E cut \in A, len \in B : e = Left(cut, len)
    BY <2>1
  <2>3. QED
    BY <2>2 DEF A, B
<1>4. len \in Nat /\ len <= Len(old)
  <2>1. Min({Len(data), Len(old)}) \in Nat
    BY <1>2, MinPair
  <2>2. QED
    BY <1>2, <2>1
<1>5. \A k \in 1 .. len : Mixed(cut)[k] \in {Zero, name}
  <2> SUFFICES ASSUME NEW k \in 1 .. len PROVE Mixed(cut)[k] \in {Zero, name}
    OBVIOUS
  <2>1. k \in 1 .. Len(old)
    BY <1>2, <1>4
  <2>2. old[k] \in {Zero, name}
    BY <1>2, <2>1, ElementOfSeq
  <2>3. k <= Len(data) => data[k] \in {Zero, name}
    BY <1>2, <1>4, ElementOfSeq
  <2>4. QED
    BY <2>1, <2>2, <2>3
<1> HIDE DEF Mixed, old
<1>6. SubSeq(Mixed(cut), 1, len) \in Seq({Zero, name})
  BY <1>4, <1>5, Prefix
<1>7. QED
  BY <1>1, <1>3, <1>6 DEF EntryOf

(* A finite set can be listed. *)
LEMMA SetToSeqIsSeq ==
  ASSUME NEW S, IsFiniteSet(S)
  PROVE  SetToSeq(S) \in Seq(S)
<1>1. Cardinality(S) \in Nat /\ ExistsBijection(1 .. Cardinality(S), S)
  BY FS_CardinalityType
<1>2. \E f \in [1 .. Cardinality(S) -> S] : IsInjective(f)
  BY <1>1 DEF ExistsBijection, Bijection, Injection
<1>3. SetToSeq(S) \in [1 .. Cardinality(S) -> S]
  BY <1>2 DEF SetToSeq
<1>4. QED
  BY <1>1, <1>3, SeqDef

(* What list_dir returns names entries of the directory. *)
LEMMA ListingsType ==
  ASSUME NEW dir, NEW list \in Listings(dir)
  PROVE  list \in Seq(Listed)
<1>1. Entries(dir) \in Seq(Listed)
  <2>1. CASE dir = RootDir
    <3> DEFINE E == {n \in RootName : Exists(n)}
    <3>1. IsFiniteSet(E)
      BY FS_Subset, FileAssumption
    <3>2. SetToSeq(E) \in Seq(E)
      BY <3>1, SetToSeqIsSeq
    <3>3. E \subseteq Listed
      BY DEF Listed
    <3> HIDE DEF E
    <3>4. SetToSeq(E) \in Seq(Listed)
      BY <3>2, <3>3, SeqMonotonic
    <3>5. QED
      BY <2>1, <3>4 DEF Entries, E
  <2>2. CASE dir # RootDir
    BY <2>2 DEF Entries, Listed
  <2>3. QED
    BY <2>1, <2>2
<1>2. Len(Entries(dir)) \in Nat /\ MaxEntries \in Nat
  BY <1>1, Bounds
<1>3. PICK m \in Nat : m = Min({MaxEntries, Len(Entries(dir))}) /\ m <= Len(Entries(dir))
  BY <1>2, MinPair
<1>4. \A k \in 1 .. m : Entries(dir)[k] \in Listed
  BY <1>1, <1>2, <1>3, ElementOfSeq
<1>5. SubSeq(Entries(dir), 1, m) \in Seq(Listed)
  BY <1>3, <1>4, Prefix
<1>6. list = <<>> \/ list = SubSeq(Entries(dir), 1, m)
  BY <1>3 DEF Listings
<1>7. QED
  BY <1>5, <1>6, EmptySeq

-----------------------------------------------------------------------------
(* A call puts a well-formed slot f in place i: the invariant is kept when *)
(* the card stays well formed, the slots outside stale were outside it and *)
(* find their entry unchanged, and f is stale or coherent.                 *)
LEMMA OneSlot ==
  ASSUME Inv, Called, NEW i \in Opened, NEW f, Slot(f),
         files' = [files EXCEPT ![i] = f], DiskInv', stale' \subseteq Opened,
         \A j \in Opened \ {i} : j \notin stale' =>
           /\ j \notin stale
           /\ files[j].in_use /\ files[j].name \in RootName =>
                disk'[files[j].name] = disk[files[j].name],
         i \notin stale' => Coherent(f, disk')
  PROVE  Inv'
<1>1. SlotInv'
  BY DEF Inv, SlotInv, Slot
<1>2. files'[i] = f /\ \A j \in Opened \ {i} : files'[j] = files[j]
  BY DEF Inv, SlotInv
<1>3. CacheInv'
  <2> SUFFICES ASSUME NEW j \in Opened, j \notin stale'
               PROVE  Coherent(files'[j], disk')
    BY DEF CacheInv
  <2>1. CASE j = i
    BY <1>2, <2>1
  <2>2. CASE j # i
    <3>1. /\ files'[j] = files[j] /\ j \notin stale
          /\ files[j].in_use /\ files[j].name \in RootName =>
               disk'[files[j].name] = disk[files[j].name]
      BY <1>2, <2>2
    <3>2. Coherent(files[j], disk)
      BY <3>1 DEF Inv, CacheInv
    <3>3. QED
      BY <3>1, <3>2 DEF Coherent
  <2>3. QED
    BY <2>1, <2>2
<1>4. calls' \in 0 .. MaxCalls
  BY Bounds DEF Inv, Called
<1>5. QED
  BY <1>1, <1>3, <1>4 DEF Inv

(* The same, when the card does not change. *)
LEMMA OneSlotOnly ==
  ASSUME Inv, Called, NEW i \in Opened, NEW f, Slot(f),
         files' = [files EXCEPT ![i] = f], UNCHANGED disk,
         stale' \subseteq Opened, stale \subseteq stale' \cup {i},
         i \notin stale' => Coherent(f, disk)
  PROVE  Inv'
<1>1. DiskInv'
  BY DEF Inv, DiskInv
<1>2. \A j \in Opened \ {i} : j \notin stale' => j \notin stale
  OBVIOUS
<1>3. QED
  BY <1>1, <1>2, OneSlot

(* A changed entry of the card leaves the others alone. *)
LEMMA EntryChanges ==
  ASSUME DiskInv, NEW name \in RootName, NEW e \in EntryOf(name),
         disk' = [disk EXCEPT ![name] = e]
  PROVE  /\ DiskInv' /\ disk'[name] = e
         /\ \A n \in RootName \ {name} : disk'[n] = disk[n]
<1>1. disk'[name] = e /\ \A n \in RootName \ {name} : disk'[n] = disk[n]
  BY DEF DiskInv, Volume
<1>2. e \in [kind : Kind, data : Seq(Byte)]
  <2>1. e.data \in Seq({Zero, name}) /\ {Zero, name} \subseteq Byte
    BY DEF EntryOf, Byte
  <2>2. e.data \in Seq(Byte)
    BY <2>1, SeqMonotonic
  <2>3. QED
    BY <2>2 DEF EntryOf
<1>3. disk' \in Volume
  BY <1>2 DEF DiskInv, Volume
<1>4. \A n \in RootName : disk'[n] \in EntryOf(n)
  BY <1>1 DEF DiskInv
<1>5. QED
  BY <1>1, <1>3, <1>4 DEF DiskInv

(* The free slot a search finds. *)
LEMMA FirstFree ==
  ASSUME FreeSlots # {}
  PROVE  Min(FreeSlots) \in Opened /\ ~files[Min(FreeSlots)].in_use
<1>1. FreeSlots \subseteq Nat
  BY Bounds DEF FreeSlots
<1>2. Min(FreeSlots) \in FreeSlots
  BY <1>1, MinIn
<1>3. QED
  BY <1>2 DEF FreeSlots

(* A refused call that is counted changes nothing of the invariant. *)
LEMMA CountedOnly ==
  ASSUME Inv, Called, UNCHANGED <<disk, files, stale>>
  PROVE  Inv'
<1>1. calls' \in 0 .. MaxCalls
  BY Bounds DEF Inv, Called
<1>2. QED
  BY <1>1 DEF Inv, DiskInv, SlotInv, CacheInv

(* alloc_slot and what its callers put in the slot. *)
LEMMA TakeStep ==
  ASSUME Inv, Called, UNCHANGED disk, NEW f, Slot(f), Coherent(f, disk), Take(f)
  PROVE  Inv'
<1>1. CASE FreeSlots = {}
  BY <1>1, CountedOnly DEF Take
<1>2. CASE FreeSlots # {}
  <2>1. PICK i \in Opened : i = Min(FreeSlots)
    BY <1>2, FirstFree
  <2>2. files' = [files EXCEPT ![i] = f] /\ stale' = stale \ {i}
    BY <1>2, <2>1 DEF Take
  <2>3. stale' \subseteq Opened /\ stale \subseteq stale' \cup {i}
    BY <2>2 DEF Inv
  <2>4. QED
    BY <2>2, <2>3, OneSlotOnly
<1>3. QED
  BY <1>1, <1>2

LEMMA OpenDirStep ==
  ASSUME Inv, Called, UNCHANGED disk, NEW dir \in Handle, dir # NotDir, OpenDir(dir)
  PROVE  Inv'
<1>1. PICK list \in Listings(dir) :
        Take([EMPTY_FILE EXCEPT !.in_use = TRUE, !.dir = dir, !.list = list])
  BY DEF OpenDir
<1>2. list \in Seq(Listed)
  BY ListingsType
<1> DEFINE f == [EMPTY_FILE EXCEPT !.in_use = TRUE, !.dir = dir, !.list = list]
<1>3. Slot(f) /\ f.dir # NotDir
  BY <1>2, DirSlot
<1>4. Take(f)
  BY <1>1
<1> HIDE DEF f
<1>5. Coherent(f, disk)
  BY <1>3 DEF Coherent
<1>6. QED
  BY <1>3, <1>4, <1>5, TakeStep

(* flush_if_dirty: whether write_file fails or not, the card keeps to its  *)
(* files' own bytes, and whoever is not marked stale is coherent.          *)
LEMMA FlushKeeps ==
  ASSUME Inv, NEW i \in Opened, files[i].in_use, FlushIfDirty(i),
         NEW f \in OpenFile, f = [files[i] EXCEPT !.dirty = @ /\ ~MustWrite(i)]
  PROVE  /\ DiskInv' /\ stale' \subseteq Opened /\ Slot(f)
         /\ \A j \in Opened \ {i} : j \notin stale' =>
              /\ j \notin stale
              /\ files[j].in_use /\ files[j].name \in RootName =>
                   disk'[files[j].name] = disk[files[j].name]
         /\ i \notin stale' => Coherent(f, disk')
<1>1. /\ files[i] \in OpenFile /\ Slot(files[i])
      /\ DiskInv /\ stale \subseteq Opened /\ CacheInv
  BY DEF Inv, SlotInv
<1>2. /\ f.in_use = files[i].in_use /\ f.dir = files[i].dir /\ f.name = files[i].name
      /\ f.data = files[i].data /\ f.len = files[i].len /\ f.for_write = files[i].for_write
      /\ f.parent = files[i].parent
      /\ f.index = files[i].index /\ f.list = files[i].list
      /\ f.dirty = (files[i].dirty /\ ~MustWrite(i))
  BY <1>1 DEF OpenFile
<1>3. Slot(f) /\ Held(f) = Held(files[i])
  BY <1>1, <1>2 DEF Slot, Own, Held
<1>4. CASE ~MustWrite(i)
  <2>1. UNCHANGED <<disk, stale>>
    BY <1>4 DEF FlushIfDirty
  <2>2. f.dirty = files[i].dirty
    BY <1>1, <1>2, <1>4 DEF OpenFile
  <2>3. i \notin stale => Coherent(f, disk)
    BY <1>1, <1>2, <1>3, <2>2 DEF CacheInv, Coherent
  <2>4. QED
    BY <1>1, <1>3, <2>1, <2>3 DEF DiskInv
<1>5. CASE MustWrite(i)
  <2>1. PICK name \in RootName : name = files[i].name
    BY <1>1, <1>5 DEF MustWrite, Slot, Own
  <2>2. PICK data : data = Contents(i)
    OBVIOUS
  <2>3. data \in Seq({Zero, name}) /\ Len(data) <= MaxFile
    <3>1. files[i].len \in Nat /\ files[i].len <= MaxFile /\ MaxFile \in Nat
      BY <1>1, Bounds DEF OpenFile
    <3>2. \A k \in 1 .. files[i].len : files[i].data[k] \in {Zero, name}
      BY <1>1, <1>5, <2>1, <3>1 DEF MustWrite, Slot, Own
    <3>3. QED
      BY <2>2, <3>1, <3>2, Prefix DEF Contents
  <2>4. PICK e \in EntryOf(name) :
          /\ disk' = [disk EXCEPT ![name] = e]
          /\ \/ e = Written(data) /\ stale' = (stale \cup (Holders(name) \ {i})) \ {i}
             \/ stale' = stale \cup (Holders(name) \ {i}) \cup {i}
    <3>1. Written(data) \in EntryOf(name)
      BY <2>3 DEF Written, EntryOf, Kind
    <3>2. \A e \in Failed(name, data) : e \in EntryOf(name)
      BY <1>1, <2>3, FailedEntry
    <3>3. QED
      BY <1>5, <2>1, <2>2, <3>1, <3>2 DEF FlushIfDirty
  <2>5. DiskInv' /\ disk'[name] = e /\ \A n \in RootName \ {name} : disk'[n] = disk[n]
    BY <1>1, <2>4, EntryChanges
  <2>6. Holders(name) \subseteq Opened
    BY DEF Holders
  <2>7. stale' \subseteq Opened
    BY <1>1, <2>4, <2>6
  <2>8. ASSUME NEW j \in Opened \ {i}, j \notin stale'
        PROVE  /\ j \notin stale
               /\ files[j].in_use /\ files[j].name \in RootName =>
                    disk'[files[j].name] = disk[files[j].name]
    <3>1. j \notin stale /\ j \notin Holders(name)
      BY <2>4, <2>8
    <3>2. files[j].in_use => files[j].name # name
      BY <3>1 DEF Holders
    <3>3. QED
      BY <2>5, <3>1, <3>2
  <2>9. i \notin stale' => Coherent(f, disk')
    <3> SUFFICES ASSUME i \notin stale' PROVE Coherent(f, disk')
      OBVIOUS
    <3>1. disk'[name].data = data
      BY <2>4, <2>5 DEF Written
    <3>2. Held(f) = data
      BY <1>3, <2>2 DEF Held, Contents
    <3>3. ReadBack(data) = data
      BY <2>3, ReadBackPrefix
    <3>4. QED
      BY <1>2, <2>1, <3>1, <3>2, <3>3 DEF Coherent
  <2>10. QED
    BY <1>3, <2>5, <2>7, <2>8, <2>9
<1>6. QED
  BY <1>4, <1>5

-----------------------------------------------------------------------------
(* The card before the first call, and every slot wiped. *)
LEMMA InvInit ==
  ASSUME Init
  PROVE  Inv
<1>1. DiskInv
  <2>1. \A n \in RootName : disk[n].kind \in Kind /\ disk[n] \in [kind : Kind, data : Seq(Byte)]
        /\ disk[n].data \in Seq({Zero, n})
    BY FileAssumption DEF Init, Volume
  <2>2. QED
    BY <2>1, FileAssumption DEF Init, DiskInv, EntryOf
<1>2. files = [i \in Opened |-> EMPTY_FILE] /\ stale = {} /\ calls = 0
  BY DEF Init
<1>3. SlotInv
  BY <1>2, EmptySlot DEF SlotInv, Slot
<1>4. CacheInv
  BY <1>2, EmptySlot DEF CacheInv, Coherent
<1>5. calls \in 0 .. MaxCalls
  BY <1>2, Bounds
<1>6. QED
  BY <1>1, <1>2, <1>3, <1>4, <1>5 DEF Inv

(* The handle an Open is called through names a directory. *)
LEMMA HandleDir ==
  ASSUME Inv, NEW p \in Opened
  PROVE  files[p] \in OpenFile /\ Slot(files[p]) /\ files[p].dir \in Handle
BY DEF Inv, SlotInv, OpenFile

(* Open of a file the card has. *)
LEMMA OpenRootStep ==
  ASSUME Inv, NEW p \in Opened, NEW name \in RootName, NEW w \in BOOLEAN, OpenRoot(p, name, w)
  PROVE  Inv'
<1>1. /\ Called /\ UNCHANGED disk
      /\ Take(Loaded(RootDir, name, ReadBack(disk[name].data), w))
  BY DEF OpenRoot
<1>2. disk[name].data \in Seq({Zero, name}) /\ {Zero, name} \subseteq Byte
  BY DEF Inv, DiskInv, EntryOf, Byte
<1>3. PICK data \in Seq({Zero, name}) :
        data = ReadBack(disk[name].data) /\ Len(data) <= MaxFile
  <2>1. MaxFile \in Nat
    BY Bounds
  <2>2. QED
    BY <1>2, <2>1, ReadBackPrefix
<1>4. data \in Seq(Byte)
  BY <1>2, SeqMonotonic
<1>5. PICK f : f = Loaded(RootDir, name, data, w)
  OBVIOUS
<1>6. Slot(f) /\ Held(f) = data /\ f.name = name
  BY <1>3, <1>4, <1>5, LoadedSlot DEF Handle
<1>7. Coherent(f, disk)
  BY <1>3, <1>6 DEF Coherent
<1>8. QED
  BY <1>1, <1>3, <1>5, <1>6, <1>7, TakeStep

(* Open with CREATE of a file the card lacks, or could not read. *)
LEMMA OpenCreatesStep ==
  ASSUME Inv, NEW p \in Opened, NEW name \in RootName, NEW w \in BOOLEAN,
         OpenCreates(p, name, w)
  PROVE  Inv'
<1>1. /\ Called /\ files[p].in_use /\ files[p].dir # NotDir
      /\ disk' = [disk EXCEPT ![name] = Written(<<>>)]
  BY DEF OpenCreates
<1>2. Written(<<>>) \in EntryOf(name)
  BY EmptySeq DEF Written, EntryOf, Kind
<1>3. /\ DiskInv' /\ disk'[name] = Written(<<>>)
      /\ \A n \in RootName \ {name} : disk'[n] = disk[n]
  BY <1>1, <1>2, EntryChanges DEF Inv
<1>4. Holders(name) \subseteq Opened /\ stale \subseteq Opened
  BY DEF Holders, Inv
<1>5. \A j \in Opened : j \notin Holders(name) =>
        (files[j].in_use /\ files[j].name \in RootName =>
           disk'[files[j].name] = disk[files[j].name])
  BY <1>3 DEF Holders
<1>6. CASE FreeSlots = {}
  <2>1. UNCHANGED files /\ stale' = stale \cup Holders(name)
    BY <1>6 DEF OpenCreates
  <2>2. Slot(files[p]) /\ files' = [files EXCEPT ![p] = files[p]]
    BY <2>1, HandleDir DEF Inv, SlotInv
  <2>3. Coherent(files[p], disk')
    BY <1>1 DEF Coherent
  <2>4. QED
    BY <1>1, <1>3, <1>4, <1>5, <2>1, <2>2, <2>3, OneSlot
<1>7. CASE FreeSlots # {}
  <2>1. PICK i \in Opened : i = Min(FreeSlots)
    BY <1>7, FirstFree
  <2>2. PICK f : f = Loaded(RootDir, name, <<>>, w)
    OBVIOUS
  <2>3. files' = [files EXCEPT ![i] = f] /\ stale' = (stale \cup Holders(name)) \ {i}
    BY <1>7, <2>1, <2>2 DEF OpenCreates
  <2>4. Slot(f) /\ Held(f) = <<>> /\ f.name = name
    <3>1. <<>> \in Seq(Byte) /\ <<>> \in Seq({Zero, name}) /\ Len(<<>>) <= MaxFile
      BY EmptySeq, Bounds
    <3>2. QED
      BY <2>2, <3>1, LoadedSlot DEF Handle
  <2>5. ReadBack(<<>>) = <<>>
    <3>1. <<>> \in Seq(Byte) /\ Len(<<>>) <= MaxFile
      BY EmptySeq, Bounds
    <3>2. QED
      BY <3>1, ReadBackPrefix
  <2>6. Coherent(f, disk')
    BY <1>3, <2>4, <2>5 DEF Coherent, Written
  <2>7. QED
    BY <1>1, <1>3, <1>4, <1>5, <2>3, <2>4, <2>6, OneSlot
<1>8. QED
  BY <1>6, <1>7

LEMMA OpenCreateFailsStep ==
  ASSUME Inv, NEW p \in Opened, NEW name \in RootName, OpenCreateFails(p, name)
  PROVE  Inv'
<1>1. /\ Called /\ files[p].in_use /\ files[p].dir # NotDir
      /\ UNCHANGED files /\ stale' = stale \cup Holders(name)
  BY DEF OpenCreateFails
<1>2. PICK e \in Failed(name, <<>>) : disk' = [disk EXCEPT ![name] = e]
  BY DEF OpenCreateFails
<1>3. e \in EntryOf(name)
  <2>1. <<>> \in Seq({Zero, name})
    BY EmptySeq
  <2>2. QED
    BY <2>1, FailedEntry DEF Inv
<1>4. DiskInv' /\ \A n \in RootName \ {name} : disk'[n] = disk[n]
  BY <1>2, <1>3, EntryChanges DEF Inv
<1>5. stale' \subseteq Opened
  BY <1>1 DEF Holders, Inv
<1>6. \A j \in Opened : j \notin Holders(name) =>
        (files[j].in_use /\ files[j].name \in RootName =>
           disk'[files[j].name] = disk[files[j].name])
  BY <1>4 DEF Holders
<1>7. Slot(files[p]) /\ files' = [files EXCEPT ![p] = files[p]] /\ Coherent(files[p], disk')
  BY <1>1, HandleDir DEF Inv, SlotInv, Coherent
<1>8. QED
  BY <1>1, <1>4, <1>5, <1>6, <1>7, OneSlot

(* Open of a file in a subdirectory: it is never for writing. *)
LEMMA OpenNestedStep ==
  ASSUME Inv, NEW p \in Opened, NEW dir \in RootName, OpenNested(p, dir)
  PROVE  Inv'
<1>1. Called /\ UNCHANGED disk
  BY DEF OpenNested
<1>2. CASE FreeSlots = {}
  BY <1>1, <1>2, CountedOnly DEF OpenNested
<1>3. CASE FreeSlots # {}
  <2>1. PICK i \in Opened : i = Min(FreeSlots)
    BY <1>3, FirstFree
  <2>2. PICK data \in Seq(Byte) : data = ReadBack(<<Nested>>) /\ Len(data) <= MaxFile
    <3>1. PICK s \in Seq(Byte) : s = <<Nested>>
      <4>1. Nested \in Byte
        BY DEF Byte
      <4>2. <<Nested>> \in Seq(Byte)
        BY <4>1
      <4>3. QED
        BY <4>2
    <3>2. ReadBack(s) \in Seq(Byte) /\ Len(ReadBack(s)) \in 0 .. MaxFile /\ MaxFile \in Nat
      BY ReadBackPrefix, Bounds
    <3>3. QED
      BY <3>1, <3>2
  <2>3. PICK f : f = Loaded(dir, Inner, data, FALSE)
    OBVIOUS
  <2>4. files' = [files EXCEPT ![i] = f] /\ stale' = stale \cup {i}
    BY <1>3, <2>1, <2>2, <2>3 DEF OpenNested
  <2>5. Slot(f)
    BY <2>2, <2>3, LoadedSlot DEF Handle
  <2>6. stale' \subseteq Opened
    BY <2>4 DEF Inv
  <2>7. QED
    BY <1>1, <2>4, <2>5, <2>6, OneSlotOnly
<1>4. QED
  BY <1>2, <1>3

(* Read and SetPosition of a plain file move its position only. *)
LEMMA Moved ==
  ASSUME NEW f, Slot(f), NEW p \in 0 .. MaxFile, NEW d
  PROVE  LET g == [f EXCEPT !.pos = p]
         IN  Slot(g) /\ (Coherent(f, d) => Coherent(g, d))
<1> DEFINE g == [f EXCEPT !.pos = p]
<1>1. f \in OpenFile
  BY DEF Slot
<1>2. g \in OpenFile
  BY <1>1 DEF OpenFile
<1>3. /\ g.in_use = f.in_use /\ g.dir = f.dir /\ g.name = f.name /\ g.data = f.data
      /\ g.len = f.len /\ g.dirty = f.dirty /\ g.for_write = f.for_write
      /\ g.parent = f.parent
      /\ g.index = f.index /\ g.list = f.list
  BY <1>1 DEF OpenFile
<1> HIDE DEF g
<1>4. Slot(g) /\ (Coherent(f, d) => Coherent(g, d))
  BY <1>2, <1>3 DEF Slot, Own, Coherent, Held
<1>5. QED
  BY <1>4 DEF g

(* Reading a directory, or rewinding it, moves its index only. *)
LEMMA Indexed ==
  ASSUME NEW f, Slot(f), f.dir # NotDir, NEW k \in Nat, k <= Len(f.list), NEW d
  PROVE  LET g == [f EXCEPT !.index = k]
         IN  Slot(g) /\ Coherent(g, d)
<1> DEFINE g == [f EXCEPT !.index = k]
<1>1. f \in OpenFile
  BY DEF Slot
<1>2. g \in OpenFile
  BY <1>1 DEF OpenFile
<1>3. /\ g.dir = f.dir /\ g.name = f.name /\ g.data = f.data /\ g.for_write = f.for_write
      /\ g.parent = f.parent
      /\ g.index = k /\ g.list = f.list
  BY <1>1 DEF OpenFile
<1> HIDE DEF g
<1>4. Slot(g) /\ Coherent(g, d)
  BY <1>2, <1>3 DEF Slot, Own, Coherent
<1>5. QED
  BY <1>4 DEF g

LEMMA ReadStep ==
  ASSUME Inv, NEW i \in Opened, NEW n \in Nat, Read(i, n)
  PROVE  Inv'
<1>1. Slot(files[i]) /\ files[i] \in OpenFile /\ MaxFile \in Nat
  BY HandleDir, Bounds
<1>2. files[i].pos \in 0 .. MaxFile /\ files[i].len \in 0 .. MaxFile
  BY <1>1 DEF OpenFile
<1>3. PICK p : p = IF files[i].pos >= files[i].len THEN files[i].pos
                   ELSE Min({files[i].len, files[i].pos + n})
  OBVIOUS
<1>4. p \in 0 .. MaxFile
  <2>1. Min({files[i].len, files[i].pos + n}) \in Nat
        /\ Min({files[i].len, files[i].pos + n}) <= files[i].len
    BY <1>1, <1>2, MinPair
  <2>2. QED
    BY <1>1, <1>2, <1>3, <2>1
<1>5. PICK g : g = [files[i] EXCEPT !.pos = p]
  OBVIOUS
<1>6. files' = [files EXCEPT ![i] = g]
  BY <1>3, <1>5 DEF Read
<1>7. Slot(g) /\ (Coherent(files[i], disk) => Coherent(g, disk))
  BY <1>1, <1>4, <1>5, Moved
<1>8. i \notin stale => Coherent(files[i], disk)
  BY DEF Inv, CacheInv
<1>9. Called /\ UNCHANGED <<disk, stale>> /\ stale \subseteq Opened
  BY DEF Read, Inv
<1>10. QED
  BY <1>6, <1>7, <1>8, <1>9, OneSlotOnly

LEMMA ReadDirStep ==
  ASSUME Inv, NEW i \in Opened, ReadDir(i)
  PROVE  Inv'
<1>1. /\ Called /\ UNCHANGED <<disk, stale>> /\ stale \subseteq Opened
      /\ files[i].dir # NotDir
  BY DEF ReadDir, Inv
<1>2. CASE files[i].index >= Len(files[i].list)
  BY <1>1, <1>2, CountedOnly DEF ReadDir
<1>3. CASE ~ (files[i].index >= Len(files[i].list))
  <2>1. Slot(files[i]) /\ files[i].index \in Nat /\ Len(files[i].list) \in Nat
    BY HandleDir DEF OpenFile
  <2>a. PICK n \in Nat, l \in Nat : n = files[i].index /\ l = Len(files[i].list)
    BY <2>1
  <2>b. n + 1 \in Nat /\ n + 1 <= l
    BY <1>3, <2>a
  <2>2. PICK k \in Nat : k = files[i].index + 1 /\ k <= Len(files[i].list)
    BY <2>a, <2>b
  <2>3. PICK g : g = [files[i] EXCEPT !.index = k]
    OBVIOUS
  <2>4. files' = [files EXCEPT ![i] = g]
    BY <1>3, <2>2, <2>3 DEF ReadDir
  <2>5. Slot(g) /\ Coherent(g, disk)
    BY <1>1, <2>1, <2>2, <2>3, Indexed
  <2>6. QED
    BY <1>1, <2>4, <2>5, OneSlotOnly
<1>4. QED
  BY <1>2, <1>3

LEMMA WriteStep ==
  ASSUME Inv, NEW i \in Opened, NEW n \in Nat, Write(i, n)
  PROVE  Inv'
<1>1. PICK g : g = Overwrite(files[i], n)
  OBVIOUS
<1>2. /\ Called /\ UNCHANGED <<disk, stale>> /\ stale \subseteq Opened
      /\ Writable(files[i], n) /\ files' = [files EXCEPT ![i] = g]
  BY <1>1 DEF Write, Inv
<1>3. Slot(files[i])
  BY HandleDir
<1>4. Slot(g) /\ g.dirty /\ g.name = files[i].name
  BY <1>1, <1>2, <1>3, OverwriteSlot
<1>5. files[i].name \in RootName
  BY <1>2, <1>3 DEF Writable, Slot, Own
<1>6. Coherent(g, disk)
  BY <1>4, <1>5 DEF Coherent
<1>7. QED
  BY <1>2, <1>4, <1>6, OneSlotOnly

LEMMA SetPositionStep ==
  ASSUME Inv, NEW i \in Opened, NEW p \in 0 .. MaxFile, SetPosition(i, p)
  PROVE  Inv'
<1>1. Called /\ UNCHANGED <<disk, stale>> /\ stale \subseteq Opened
  BY DEF SetPosition, Inv
<1>2. Slot(files[i])
  BY HandleDir
<1>3. CASE files[i].dir = NotDir
  <2>1. PICK g : g = [files[i] EXCEPT !.pos = p]
    OBVIOUS
  <2>2. files' = [files EXCEPT ![i] = g]
    BY <1>3, <2>1 DEF SetPosition
  <2>3. Slot(g) /\ (Coherent(files[i], disk) => Coherent(g, disk))
    BY <1>2, <2>1, Moved
  <2>4. i \notin stale => Coherent(files[i], disk)
    BY DEF Inv, CacheInv
  <2>5. QED
    BY <1>1, <2>2, <2>3, <2>4, OneSlotOnly
<1>4. CASE files[i].dir # NotDir
  <2>1. PICK k : k = IF p = 0 THEN 0 ELSE files[i].index
    OBVIOUS
  <2>2. k \in Nat /\ k <= Len(files[i].list)
    <3>1. files[i].index \in Nat /\ files[i].index <= Len(files[i].list)
          /\ Len(files[i].list) \in Nat
      BY HandleDir DEF OpenFile, Slot
    <3>2. QED
      BY <2>1, <3>1
  <2>3. PICK g : g = [files[i] EXCEPT !.index = k]
    OBVIOUS
  <2>4. files' = [files EXCEPT ![i] = g]
    BY <1>4, <2>1, <2>3 DEF SetPosition
  <2>5. Slot(g) /\ Coherent(g, disk)
    BY <1>2, <1>4, <2>2, <2>3, Indexed
  <2>6. QED
    BY <1>1, <2>4, <2>5, OneSlotOnly
<1>5. QED
  BY <1>3, <1>4

(* The slot Flush leaves. *)
LEMMA CleanedType ==
  ASSUME Inv, NEW i \in Opened
  PROVE  [files[i] EXCEPT !.dirty = @ /\ ~MustWrite(i)] \in OpenFile
<1>1. files[i] \in OpenFile
  BY HandleDir
<1>2. (files[i].dirty /\ ~MustWrite(i)) \in BOOLEAN
  OBVIOUS
<1>3. QED
  BY <1>1, <1>2 DEF OpenFile

LEMMA FlushStep ==
  ASSUME Inv, NEW i \in Opened, Flush(i)
  PROVE  Inv'
<1>1. PICK f \in OpenFile : f = [files[i] EXCEPT !.dirty = @ /\ ~MustWrite(i)]
  BY CleanedType
<1>2. /\ Called /\ files[i].in_use /\ FlushIfDirty(i)
      /\ files' = [files EXCEPT ![i] = f]
  BY <1>1 DEF Flush
<1>3. QED
  BY <1>1, <1>2, FlushKeeps, OneSlot

LEMMA CloseStep ==
  ASSUME Inv, NEW i \in Opened, Close(i)
  PROVE  Inv'
<1>1. PICK f \in OpenFile : f = [files[i] EXCEPT !.dirty = @ /\ ~MustWrite(i)]
  BY CleanedType
<1>2. PICK g : g = [f EXCEPT !.in_use = FALSE]
  OBVIOUS
<1>3. Called /\ files[i].in_use /\ FlushIfDirty(i)
  BY DEF Close
<1>4. files' = [files EXCEPT ![i] = g]
  <2>1. g = [files[i] EXCEPT !.in_use = FALSE, !.dirty = @ /\ ~MustWrite(i)]
    BY <1>1, <1>2, HandleDir DEF OpenFile
  <2>2. QED
    BY <2>1, HandleDir DEF Close, Inv, SlotInv, OpenFile
<1>5. /\ DiskInv' /\ stale' \subseteq Opened /\ Slot(f)
      /\ \A j \in Opened \ {i} : j \notin stale' =>
           /\ j \notin stale
           /\ files[j].in_use /\ files[j].name \in RootName =>
                disk'[files[j].name] = disk[files[j].name]
  BY <1>1, <1>3, FlushKeeps
<1>6. Slot(g) /\ ~g.in_use
  <2>1. /\ g \in OpenFile /\ g.index = f.index /\ g.list = f.list /\ g.name = f.name
        /\ g.data = f.data /\ g.for_write = f.for_write /\ ~g.in_use
        /\ g.parent = f.parent
    BY <1>2 DEF OpenFile
  <2>2. QED
    BY <1>5, <2>1 DEF Slot, Own
<1>7. Coherent(g, disk')
  BY <1>6 DEF Coherent
<1>8. QED
  BY <1>3, <1>4, <1>5, <1>6, <1>7, OneSlot

(* Every call keeps the invariant. *)
LEMMA InvStep ==
  ASSUME Inv, [Next]_vars
  PROVE  Inv'
<1>1. CASE UNCHANGED vars
  BY <1>1 DEF vars, Inv, DiskInv, SlotInv, CacheInv
<1>2. CASE OpenVolume
  <2>1. RootDir \in Handle /\ RootDir # NotDir
    BY DEF Handle, RootDir, NotDir
  <2>2. QED
    BY <1>2, <2>1, OpenDirStep DEF OpenVolume
<1>3. ASSUME NEW p \in Opened, OpenSame(p) PROVE Inv'
  <2>1. files[p].dir \in Handle
    BY HandleDir
  <2>2. QED
    BY <1>3, <2>1, OpenDirStep DEF OpenSame
<1>4. ASSUME NEW p \in Opened, NEW dir \in RootName, OpenNestedDir(p, dir) PROVE Inv'
  <2>1. dir \in Handle /\ dir # NotDir
    BY Bounds DEF Handle
  <2>2. QED
    BY <1>4, <2>1, OpenDirStep DEF OpenNestedDir
<1>5. WriteSizes \subseteq Nat
  BY FileAssumption
<1>6. QED
  BY <1>1, <1>2, <1>3, <1>4, <1>5, OpenRootStep, OpenCreatesStep, OpenCreateFailsStep,
     OpenNestedStep, ReadStep, ReadDirStep, WriteStep, SetPositionStep, FlushStep, CloseStep
     DEF Next, Queries

LEMMA InvHolds == Spec => []Inv
<1>1. Init => Inv
  BY InvInit
<1>2. Inv /\ [Next]_vars => Inv'
  BY InvStep
<1>3. QED
  BY <1>1, <1>2, PTL DEF Spec

-----------------------------------------------------------------------------
(* Every slot, the volume and the counters keep their types: no call, and  *)
(* no seek or write, takes a slot past MAX_FILE_BYTES or a listing past    *)
(* its end.                                                                *)
THEOREM FileTypeCorrect == Spec => []TypeOK
<1>1. Inv => TypeOK
  <2> SUFFICES ASSUME Inv PROVE TypeOK
    OBVIOUS
  <2>1. ASSUME NEW n \in RootName
        PROVE  disk[n].kind \in Kind /\ \A k \in DOMAIN disk[n].data : disk[n].data[k] \in Byte
    <3>1. disk[n].kind \in Kind /\ disk[n].data \in Seq(Byte)
      BY DEF Inv, DiskInv, Volume
    <3>2. QED
      BY <3>1, LenProperties, ElementOfSeq
  <2>2. ASSUME NEW i \in Opened
        PROVE  /\ files[i].data \in [1 .. MaxFile -> Byte]
               /\ files[i].len \in 0 .. MaxFile /\ files[i].pos \in 0 .. MaxFile
               /\ files[i].index \in 0 .. Len(files[i].list)
               /\ files[i].name \in RootName \cup {Inner, "none"}
               /\ files[i].parent \in RootName \cup {RootDir, NotDir}
    <3>1. files[i] \in OpenFile /\ files[i].index <= Len(files[i].list)
      BY HandleDir DEF Slot
    <3>2. files[i].index \in Nat /\ Len(files[i].list) \in Nat
      BY <3>1 DEF OpenFile
    <3>3. files[i].index \in 0 .. Len(files[i].list)
      BY <3>1, <3>2
    <3>4. QED
      BY <3>1, <3>3 DEF OpenFile, Owner, Handle
  <2>3. QED
    BY <2>1, <2>2 DEF TypeOK, Inv
<1>2. QED
  BY <1>1, InvHolds, PTL

(* The write-back cache is coherent for every number of slots, slot size   *)
(* and sequence of calls: a clean slot nobody wrote behind holds what      *)
(* read_file would return for its file now.                                *)
THEOREM CleanSlotsMatchTheCard == Spec => []CleanMeansOnDisk
<1>1. Inv => CleanMeansOnDisk
  BY DEF Inv, CacheInv, Coherent, Held, CleanMeansOnDisk, Contents
<1>2. QED
  BY <1>1, InvHolds, PTL

(* No byte of one file reaches another through a re-used slot, a seek past *)
(* the end or a write that fails halfway.                                  *)
THEOREM FilesDoNotMix == Spec => []BytesStayInTheirFile
<1>1. Inv => BytesStayInTheirFile
  <2> SUFFICES ASSUME Inv, NEW n \in RootName, NEW k \in DOMAIN disk[n].data
               PROVE  disk[n].data[k] \in {Zero, n}
    BY DEF BytesStayInTheirFile
  <2>1. disk[n].data \in Seq({Zero, n})
    BY DEF Inv, DiskInv, EntryOf
  <2>2. QED
    BY <2>1, LenProperties, ElementOfSeq
<1>2. QED
  BY <1>1, InvHolds, PTL

(* The card changes only under a call that creates the very entry, or that *)
(* writes back a slot opened for writing by that name in the root: a       *)
(* namesake in a subdirectory, a read-only slot and a closed one never     *)
(* write.                                                                  *)
THEOREM WritersOnly == Spec => OnlyWritersWrite
<1> DEFINE A == \A n \in RootName : disk'[n] # disk[n] =>
                  \/ did'.op = "Create" /\ did'.entry = n
                  \/ /\ did'.op \in {"Flush", "Close"}
                     /\ files[did'.slot].name = n /\ files[did'.slot].parent = RootDir
                     /\ files[did'.slot].for_write
<1>1. Inv /\ [Next]_vars => [A]_vars
  <2> SUFFICES ASSUME Inv, Next PROVE A
    OBVIOUS
  <2>0. \A name, e : \A n \in RootName :
          n # name => [disk EXCEPT ![name] = e][n] = disk[n]
    BY DEF Inv, DiskInv, Volume
  <2>1. CASE UNCHANGED disk
    BY <2>1
  <2>2. ASSUME NEW p \in Opened, NEW name \in RootName, NEW w \in BOOLEAN,
               OpenCreates(p, name, w) \/ OpenCreateFails(p, name)
        PROVE  A
    <3>1. PICK e : disk' = [disk EXCEPT ![name] = e]
      BY <2>2 DEF OpenCreates, OpenCreateFails
    <3>2. did'.op = "Create" /\ did'.entry = name
      BY <2>2 DEF OpenCreates, OpenCreateFails, Created, Call
    <3>3. QED
      BY <2>0, <3>1, <3>2
  <2>3. ASSUME NEW i \in Opened, Flush(i) \/ Close(i)
        PROVE  A
    <3>1. did'.op \in {"Flush", "Close"} /\ did'.slot = i /\ FlushIfDirty(i)
      BY <2>3 DEF Flush, Close, Call
    <3>2. CASE ~MustWrite(i)
      BY <2>1, <3>1, <3>2 DEF FlushIfDirty
    <3>3. CASE MustWrite(i)
      <4>1. PICK e : disk' = [disk EXCEPT ![files[i].name] = e]
        BY <3>1, <3>3 DEF FlushIfDirty
      <4>2. QED
        BY <2>0, <3>1, <3>3, <4>1 DEF MustWrite, Inv, SlotInv, Slot, Own
    <3>4. QED
      BY <3>2, <3>3
  <2>4. QED
    BY <2>1, <2>2, <2>3 DEF Next, OpenVolume, Queries, OpenSame, OpenRoot, OpenNested,
       OpenNestedDir, Read, ReadDir, Write, SetPosition, vars
<1>2. QED
  BY <1>1, InvHolds, PTL DEF Spec, OnlyWritersWrite
=============================================================================
