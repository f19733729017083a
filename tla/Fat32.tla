-------------------------------- MODULE Fat32 --------------------------------
(***************************************************************************)
(* Root-directory files on a FAT32 volume (src/fat32.rs), one card block   *)
(* write at a time.  write_file reads the volume, which nothing else       *)
(* writes meanwhile, and issues block writes in a fixed order; power may   *)
(* be lost, or the card may answer with an error, before any of them.      *)
(* Nothing is cached between calls: every call starts from the volume.     *)
(*                                                                         *)
(* A cluster is one sector here (sectors_per_cluster = 1), and a file's    *)
(* size is counted in clusters.                                            *)
(***************************************************************************)
EXTENDS Integers, FiniteSetsExt, Sublists

CONSTANTS
  LastCluster,  \* highest cluster number the FAT has an entry for
  NumFats,      \* num_fats
  DirSlots,     \* directory entries per cluster
  FileName,     \* 8.3 names callers write
  Sizes,        \* file lengths callers write
  InitialRoot,  \* entries of the root cluster of a fresh volume
  MaxWrites     \* bound on write_file calls in a run

Cluster == 2 .. LastCluster
Root == 2             \* root_cluster
Free == 0
Eoc == LastCluster + 1  \* END_OF_CHAIN
Link(v) == v \in Cluster
Copy == 1 .. NumFats

Mark(m) == [name |-> m, first |-> 0, size |-> 0]
End == Mark("end")          \* entry[0] = 0x00
Deleted == Mark("deleted")  \* entry[0] = 0xE5
Skipped == Mark("skipped")  \* long-name or volume-label entry
Marks == {End, Deleted, Skipped}

FileEntry == [name : FileName, first : Cluster, size : Nat]

ASSUME FatAssumption ==
  /\ LastCluster \in Nat /\ LastCluster > 2
  /\ {NumFats, DirSlots} \subseteq Nat \ {0}
  /\ Sizes \subseteq Nat /\ MaxWrites \in Nat
  /\ InitialRoot \subseteq [1 .. DirSlots -> Marks]

VARIABLES
  fat,      \* copy -> cluster -> Free, a link, or Eoc
  block,    \* cluster -> its contents: a directory block or file data
  pending,  \* the block writes the call in progress has still to issue
  call,     \* the call in progress or Idle
  version,  \* history: number of write_file calls so far
  wrote,    \* history: name -> what its last completed write_file wrote
  health,   \* history: "sound"; "wounded" after a call that was cut short or
            \* ran out of space; "reused" once another call has begun since
  victim    \* history: the file of the call that wounded the volume

fatVars == <<fat, block, pending, call, version, wrote, health, victim>>

Idle == [name |-> "none", size |-> 0, version |-> 0, fits |-> TRUE]
Nothing == [size |-> 0, version |-> 0]
Zeroed == [dir |-> [s \in 1 .. DirSlots |-> End]]
FileData(name, v, n) == [data |-> <<name, v, n>>]

-----------------------------------------------------------------------------
(* Reading the volume: only the first FAT copy is ever read. *)

(* The first n clusters visited from c by following links; 0 once the      *)
(* chain has ended.                                                        *)
Walk(f, c, n) ==
  LET w[i \in 1 .. n] ==
        IF i = 1 THEN c
        ELSE IF w[i - 1] # 0 /\ Link(f[w[i - 1]]) THEN f[w[i - 1]] ELSE 0
  IN  w

(* A chain as a sequence, cut where it ends or meets itself. *)
Cut(w) ==
  SubSeq(w, 1, Min({i \in DOMAIN w :
                      i + 1 \notin DOMAIN w \/ w[i + 1] = 0 \/ \E j \in 1 .. i : w[j] = w[i + 1]}))

Chain(f, c) == IF c = 0 THEN <<>> ELSE Cut(Walk(f, c, LastCluster))

EntriesAlong(chain, b) ==
  [n \in 1 .. (Len(chain) * DirSlots) |->
    LET c == chain[((n - 1) \div DirSlots) + 1]
        s == ((n - 1) % DirSlots) + 1
    IN  [cluster |-> c, slot |-> s, entry |-> b[c].dir[s]]]

(* The entries a search looks at: those before the first End, and it. *)
UpToEnd(es) ==
  LET ends == {n \in DOMAIN es : es[n].entry = End}
  IN  IF ends = {} THEN es ELSE SubSeq(es, 1, Min(ends))

Searched(f, b) == UpToEnd(EntriesAlong(Chain(f, Root), b))

Live(es) == {n \in DOMAIN es : es[n].entry \notin Marks}

Matches(es, name) == {n \in Live(es) : es[n].entry.name = name}

(* list_dir: the live entries, in directory order. *)
ListDir(f, b) == LET es == Searched(f, b) IN Among(es, {es[n] : n \in Live(es)})

(* read_file: the first match's first size clusters, fewer if its chain    *)
(* ends before that.  (A link to a free cluster, which the code would read *)
(* through, ends it here too; only the file a call was cut short on has    *)
(* one.)                                                                   *)
Along(path, b) == [n \in DOMAIN path |-> b[path[n]]]

ReadEntry(f, b, e) == Along(Among(Walk(f, e.first, e.size), Cluster), b)

ReadIn(f, b, es, found) ==
  IF found = {} THEN <<>> ELSE ReadEntry(f, b, es[Min(found)].entry)

ReadFile(f, b, name) == ReadIn(f, b, Searched(f, b), Matches(Searched(f, b), name))

-----------------------------------------------------------------------------
(* The block writes of each helper, in order. *)

SetFatEntry(c, v) == [k \in Copy |-> [op |-> "fat", copy |-> k, cluster |-> c, value |-> v]]
ZeroCluster(c) == << [op |-> "block", cluster |-> c, value |-> Zeroed] >>

Scan == [n \in 1 .. (LastCluster - 1) |-> n + 1]  \* the cluster numbers, in order

(* find_free_cluster, called with search_from just past the last hit:      *)
(* the free clusters in ascending order.                                   *)
FreeClusters(f) == Among(Scan, {c \in Cluster : f[c] = Free})

(* Mutant of AllocateChain: the new clusters are never linked together. *)
AllocateChain_Unlinked(cs) ==
  Joined([n \in 1 .. Len(cs) |-> SetFatEntry(cs[n], Eoc) \o ZeroCluster(cs[n])])

(* allocate_chain over the clusters it finds: mark, zero, then link. *)
AllocateChain(cs) ==
  Joined([n \in 1 .. Len(cs) |->
    SetFatEntry(cs[n], Eoc) \o ZeroCluster(cs[n]) \o
    (IF n = 1 THEN <<>> ELSE SetFatEntry(cs[n - 1], cs[n]))])

(* Mutant of FreeChainFrom: frees the first cluster of the tail only. *)
FreeChainFrom_One(f, c) == SetFatEntry(c, Free)

FreeChainFrom(f, c) ==
  LET tail == Chain(f, c)
  IN  Joined([n \in 1 .. Len(tail) |-> SetFatEntry(tail[n], Free)])

(* The first FAT copy after some block writes. *)
FatAfter(f, w) == IF w.op = "fat" /\ w.copy = 1 THEN [f EXCEPT ![w.cluster] = w.value] ELSE f

AfterWrites(f, ops) ==
  LET After[n \in 0 .. Len(ops)] == IF n = 0 THEN f ELSE FatAfter(After[n - 1], ops[n])
  IN  After[Len(ops)]

(* The first n of the free clusters cs, or all of them followed by NoSpace. *)
Taken(cs, n) == SubSeq(cs, 1, Min({n, Len(cs)}))

(* resize_chain: free the tail and end the chain, or allocate the missing  *)
(* clusters and link them.                                                 *)
Shrunk(f, last) ==
  (IF Link(f[last]) THEN FreeChainFrom(f, f[last]) ELSE <<>>) \o SetFatEntry(last, Eoc)

Grown(last, extra, missing) ==
  AllocateChain(extra) \o
    (IF Len(extra) < missing THEN <<>> ELSE SetFatEntry(last, extra[1]))

Resized(f, w, last, missing, room) ==
  IF missing = 0
  THEN [ops |-> Shrunk(f, last), first |-> w[1], fits |-> TRUE]
  ELSE [ops |-> Grown(last, Taken(room, missing), missing), first |-> w[1],
        fits |-> Len(room) >= missing]

ResizeAlong(f, w) ==
  Resized(f, w, w[Max({i \in DOMAIN w : w[i] # 0})],
          Cardinality({i \in DOMAIN w : w[i] = 0}), FreeClusters(f))

ResizeChain(f, first, needed) == ResizeAlong(f, Walk(f, first, needed))

NewChain(f, needed) ==
  LET cs == Taken(FreeClusters(f), needed)
  IN  [ops |-> AllocateChain(cs),
       first |-> IF cs = <<>> THEN 0 ELSE cs[1],
       fits |-> Len(cs) = needed]

(* Mutant of SlotFor: a new file takes the first slot, in use or not. *)
SlotFor_InUse(es, found) ==
  LET n == IF found # {} THEN Max(found) ELSE 1
  IN  [cluster |-> es[n].cluster, slot |-> es[n].slot]

(* The directory slot write_file will fill: the file's own, the last match *)
(* if there are several; else the first deleted or End slot; else the      *)
(* first slot of a new directory cluster.                                  *)
SlotFor(es, found) ==
  LET open == {n \in DOMAIN es : es[n].entry \in {Deleted, End}}
      At(n) == [cluster |-> es[n].cluster, slot |-> es[n].slot]
  IN  IF found # {} THEN At(Max(found))
      ELSE IF open # {} THEN At(Min(open))
      ELSE [cluster |-> 0, slot |-> 1]

ExtendDirectory(f, c) == AllocateChain(<<c>>) \o SetFatEntry(Chain(f, Root)[Len(Chain(f, Root))], c)

DataWrites(path, name, v) ==
  [n \in DOMAIN path |-> [op |-> "block", cluster |-> path[n], value |-> FileData(name, v, n)]]

(* Write the data through the chain, and last the directory entry. *)
Filled(f, dirOps, target, sized, name, size, v) ==
  IF ~sized.fits THEN [ops |-> dirOps \o sized.ops, fits |-> FALSE]
  ELSE [ops |-> dirOps \o sized.ops
                  \o DataWrites(Walk(AfterWrites(f, sized.ops), sized.first, size), name, v)
                  \o << [op |-> "dir", cluster |-> target.cluster, slot |-> target.slot,
                         value |-> [name |-> name, first |-> sized.first, size |-> size]] >>,
        fits |-> TRUE]

SizeAndFill(f, dirOps, target, first, name, size, v) ==
  Filled(f, dirOps, target,
         IF first # 0 THEN ResizeChain(f, first, Max({1, size})) ELSE NewChain(f, Max({1, size})),
         name, size, v)

(* write_file: extend the directory if it is full, size the chain, fill it. *)
WritesFrom(f, room, target, first, name, size, v) ==
  IF target.cluster # 0 THEN SizeAndFill(f, <<>>, target, first, name, size, v)
  ELSE IF room = <<>> THEN [ops |-> <<>>, fits |-> FALSE]
  ELSE SizeAndFill(AfterWrites(f, ExtendDirectory(f, room[1])), ExtendDirectory(f, room[1]),
                   [cluster |-> room[1], slot |-> 1], first, name, size, v)

WritesIn(f, es, found, name, size, v) ==
  WritesFrom(f, FreeClusters(f), SlotFor(es, found),
             IF found = {} THEN 0 ELSE es[Max(found)].entry.first, name, size, v)

WritesOf(name, size, v) ==
  LET es == Searched(fat[1], block)
  IN  WritesIn(fat[1], es, Matches(es, name), name, size, v)

-----------------------------------------------------------------------------
(* A fresh volume: an empty root directory and nothing else allocated. *)
FatInit ==
  /\ fat = [k \in Copy |-> [c \in Cluster |-> IF c = Root THEN Eoc ELSE Free]]
  /\ \E es \in InitialRoot : block = [c \in Cluster |-> IF c = Root THEN [dir |-> es] ELSE Zeroed]
  /\ pending = <<>>
  /\ call = Idle
  /\ version = 0
  /\ wrote = [n \in FileName |-> Nothing]
  /\ health = "sound"
  /\ victim = "none"

(* write_file is called; its reads are done before its first write. *)
WriteFile(name, size) ==
  /\ call = Idle
  /\ version < MaxWrites
  /\ version' = version + 1
  /\ \E plan \in {WritesOf(name, size, version + 1)} :
         /\ pending' = plan.ops
         /\ call' = [name |-> name, size |-> size, version |-> version + 1, fits |-> plan.fits]
  /\ health' = IF health = "sound" THEN "sound" ELSE "reused"
  /\ UNCHANGED <<fat, block, wrote, victim>>

(* One write_block. *)
BlockWrite ==
  /\ pending # <<>>
  /\ LET w == Head(pending)
     IN  /\ fat' = IF w.op = "fat" THEN [fat EXCEPT ![w.copy][w.cluster] = w.value] ELSE fat
         /\ block' = CASE w.op = "fat" -> block
                       [] w.op = "block" -> [block EXCEPT ![w.cluster] = w.value]
                       [] w.op = "dir" -> [block EXCEPT ![w.cluster].dir[w.slot] = w.value]
  /\ pending' = Tail(pending)
  /\ UNCHANGED <<call, version, wrote, health, victim>>

(* History: the first call that does not do all its writes. *)
Wound ==
  /\ health' = IF health = "sound" THEN "wounded" ELSE health
  /\ victim' = IF health = "sound" THEN call.name ELSE victim

(* write_file returns: Ok, or NoSpace after the allocations it had made. *)
Return ==
  /\ call # Idle
  /\ pending = <<>>
  /\ call' = Idle
  /\ IF call.fits
     THEN wrote' = [wrote EXCEPT ![call.name] = [size |-> call.size, version |-> call.version]]
          /\ UNCHANGED <<health, victim>>
     ELSE Wound /\ UNCHANGED wrote
  /\ UNCHANGED <<fat, block, pending, version>>

(* The card answers a command with an error, or power goes: the remaining  *)
(* writes never happen.                                                    *)
CutShort ==
  /\ pending # <<>>
  /\ pending' = <<>>
  /\ call' = Idle
  /\ Wound
  /\ UNCHANGED <<fat, block, version, wrote>>

(* read_file, list_root and resolve_from between writes: they write nothing. *)
Reads == call = Idle /\ UNCHANGED fatVars

FatNext ==
  \/ Reads
  \/ \E name \in FileName, size \in Sizes : WriteFile(name, size)
  \/ BlockWrite
  \/ Return
  \/ CutShort

FatSpec == FatInit /\ [][FatNext]_fatVars

-----------------------------------------------------------------------------
Block == [dir : [1 .. DirSlots -> Marks \cup FileEntry]]
           \cup [data : FileName \X (1 .. MaxWrites) \X (Nat \ {0})]

FilesOn == {ListDir(fat[1], block)[n].entry : n \in DOMAIN ListDir(fat[1], block)}
ClustersOf(c) == {Chain(fat[1], c)[n] : n \in DOMAIN Chain(fat[1], c)}
Allocated == {c \in Cluster : fat[1][c] # Free}
Expected(name) ==
  [n \in 1 .. wrote[name].size |-> FileData(name, wrote[name].version, n)]

(* Every variable has its type, and every block is a directory block or    *)
(* one cluster of a file.                                                  *)
VolumeTypeOK ==
  /\ fat \in [Copy -> [Cluster -> {Free, Eoc} \cup Cluster]]
  /\ \A c \in Cluster : block[c] \in Block
  /\ version \in 0 .. MaxWrites
  /\ health \in {"sound", "wounded", "reused"}
  /\ call.name \in FileName \cup {"none"}

(* As long as every call has run to its end, the volume is exact between   *)
(* calls: the chains of the root and of the files are disjoint, together   *)
(* they are all that is allocated, each is as long as its file, and the    *)
(* copies of the FAT agree.                                                *)
VolumeExact ==
  health = "sound" /\ call = Idle =>
    /\ \A k \in Copy : fat[k] = fat[1]
    /\ Allocated = ClustersOf(Root) \cup UNION {ClustersOf(e.first) : e \in FilesOn}
    /\ \A e \in FilesOn :
         /\ Cardinality(ClustersOf(e.first)) = Max({1, e.size})
         /\ ClustersOf(e.first) \cap ClustersOf(Root) = {}
         /\ \A d \in FilesOn \ {e} : ClustersOf(e.first) \cap ClustersOf(d.first) = {}

(* Reading gives back the last write, for every file, whatever grew or     *)
(* shrank in between, and the directory lists no name twice.               *)
ReadsLastWrite ==
  health = "sound" /\ call = Idle =>
    \A name \in FileName :
      /\ Cardinality(Matches(Searched(fat[1], block), name)) <= 1
      /\ ReadFile(fat[1], block, name) = Expected(name)

(* A write in progress, wherever it is cut short, leaves every other file  *)
(* as it was last written: this holds at every block write of the first    *)
(* interrupted call and until the next call begins.                        *)
BystandersIntact ==
  health # "reused" =>
    \A name \in FileName \ {call.name, victim} :
      ReadFile(fat[1], block, name) = Expected(name)

-----------------------------------------------------------------------------
(* "Walks an existing chain so it ends up exactly `needed` clusters long": *)
(* a write_file that returns Ok leaves its file a chain of that length.    *)
ChainFitsData ==
  [][Return /\ call.fits =>
       \A e \in FilesOn : e.name = call.name =>
         Cardinality(ClustersOf(e.first)) = Max({1, e.size})]_fatVars
=============================================================================
